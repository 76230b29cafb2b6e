------------------------------ MODULE BenchArena ------------------------------
(***************************************************************************)
(* The host bench's own inbox arena (hoststub.py:823), over a buffer of    *)
(* fixed size and a length used, which it moves along by slices; the cells *)
(* of a record are InboxArena's.                                           *)
(***************************************************************************)
EXTENDS InboxArena

\* A buffer with n cells at an offset, and those used of it.
Placed(buffer, at, cells) ==
  [i \in DOMAIN buffer |-> IF i - at \in DOMAIN cells THEN cells[i - at] ELSE buffer[i]]
Kept(buffer, used) == SubSeq(buffer, 1, used)

\* _fit: back from the first byte left out, over those that continue another.
BenchFit(text) ==
  LET from[n \in Nat] == IF n > 0 /\ text[n + 1] = Cont THEN from[n - 1] ELSE n
  IN IF Len(text) <= MaxText THEN Len(text) ELSE from[MaxText]

\* _length and _selected
BenchLength(buffer, off) == Fixed + buffer[off + 2]
BenchSelected(buffer, off, want) == want = All \/ buffer[off + 1] \div 2 = want

\* _walk
BenchWalk(buffer, used) ==
  LET from[off \in Nat] ==
        IF off + Fixed <= used THEN <<off>> \o from[off + BenchLength(buffer, off)] ELSE <<>>
  IN from[0]

\* inbox_append: records are dropped from the front, and the rest moved there,
\* until there is room for one more and its text.
BenchAppend(buffer, used, head, text) ==
  LET take == BenchFit(text)
      need == Fixed + take
      shifted[k \in Nat] ==   \* after k of them are gone
        IF k = 0 THEN [buffer |-> buffer, used |-> used, dropped |-> 0]
        ELSE LET was == shifted[k - 1]
                 first == BenchLength(was.buffer, 0)
             IN [buffer |-> Placed(was.buffer, 0, SubSeq(was.buffer, first + 1, was.used)),
                 used |-> was.used - first, dropped |-> k]
      count == Len(BenchWalk(buffer, used))
      Over(k) == shifted[k].used > 0
                   /\ (shifted[k].used + need > Len(buffer) \/ count - k >= Limit)
      k == CHOOSE n \in 0..count : ~Over(n) /\ \A m \in 0..(n - 1) : Over(m)
  IN [buffer |-> Placed(shifted[k].buffer, shifted[k].used, <<head, take>> \o SubSeq(text, 1, take)),
      used |-> shifted[k].used + need, dropped |-> k, at |-> shifted[k].used]

\* inbox_next: an offset past the end has nothing after it.
BenchNext(buffer, used, after, want) ==
  LET from[off \in Nat] ==
        IF off + Fixed > used THEN -1
        ELSE IF BenchSelected(buffer, off, want) THEN off
        ELSE from[off + BenchLength(buffer, off)]
  IN IF after >= 0 /\ after + Fixed > used THEN -1
     ELSE from[IF after < 0 THEN 0 ELSE after + BenchLength(buffer, after)]

\* inbox_count
BenchCount(buffer, used, want, unread) ==
  Len(SelectSeq(BenchWalk(buffer, used), LAMBDA off :
    BenchSelected(buffer, off, want) /\ ~(unread /\ buffer[off + 1] % 2 = 1)))

\* inbox_mark: the buffer, and how many were not read before.
BenchMark(buffer, used, want) ==
  FoldSeq(LAMBDA off, m :
    IF BenchSelected(m.buffer, off, want) /\ m.buffer[off + 1] % 2 = 0
      THEN [buffer |-> Placed(m.buffer, off, <<m.buffer[off + 1] + 1>>), changed |-> m.changed + 1]
      ELSE m,
    [buffer |-> buffer, changed |-> 0], BenchWalk(buffer, used))

\* inbox_read and inbox_brief: {} where they raise.
BenchRead(buffer, used, off) ==
  IF off + Fixed > used THEN {}
  ELSE IF off + BenchLength(buffer, off) > used THEN {}
  ELSE {[head |-> buffer[off + 1], at |-> off, take |-> buffer[off + 2]]}

BenchBrief(buffer, used, off) ==
  IF off + Fixed > used THEN {}
  ELSE {[where |-> buffer[off + 1] \div 2, read |-> buffer[off + 1] % 2 = 1]}

-----------------------------------------------------------------------------
(* Properties.                                                             *)

\* Buffers that hold b at their front, with what another record left behind it.
Holding(b) == {[i \in 1..Cap |-> IF i <= Len(b) THEN b[i] ELSE stale] : stale \in {0, Lead}}

\* Whatever messages the arena holds, the bench stores one more as the board
\* does, walks the same records, marks and counts the same ones and refuses the
\* same offsets; what is past the records used does not tell (hoststub.py:825).
SameArena(b, head, text) ==
  \A buffer \in Holding(b) :
    LET n == Len(b)
        new == BenchAppend(buffer, n, head, text)
    IN /\ Kept(new.buffer, new.used) = Stored(b, head, text)
       /\ Len(new.buffer) = Cap
       /\ new.dropped = Len(Walk(b, All)) + 1 - Len(Walk(Stored(b, head, text), All))
       /\ \A want \in Wheres \cup {All} :
            /\ \A after \in -1..Cap : BenchNext(buffer, n, after, want) = NextAfter(b, after, want)
            /\ Kept(BenchMark(buffer, n, want).buffer, n) = Marked(b, want)
            /\ BenchMark(buffer, n, want).changed = Cardinality(Unread(b, want))
            /\ BenchCount(buffer, n, want, FALSE) = Len(Walk(b, want))
            /\ BenchCount(buffer, n, want, TRUE) = Cardinality(Unread(b, want))
       /\ \A off \in 0..Cap : BenchRead(buffer, n, off) =
            {v \in {[head |-> Byte(b, off), at |-> off, take |-> Byte(b, off + 1)]} :
               off + Fixed <= n /\ off + Length(b, off) <= n}
       /\ \A i \in DOMAIN Messages(b) : \A seen \in BenchBrief(buffer, n, Walk(b, All)[i]) :
            seen.where = Messages(b)[i].where /\ seen.read = Messages(b)[i].read

=============================================================================
