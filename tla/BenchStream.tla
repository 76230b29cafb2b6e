------------------------------ MODULE BenchStream ------------------------------
(***************************************************************************)
(* The host bench's own stream reader (hoststub.py:1228): stages by number, *)
(* a buffer that is never cleared, and both counters.  It keeps the length  *)
(* a header asked for, and the last body, where StreamFraming starts afresh.*)
(***************************************************************************)
EXTENDS StreamFraming

\* stream_reset, of a buffer that holds what it held.
BenchFresh(buffer) == [stage |-> 0, want |-> 0, have |-> 0, buffer |-> buffer, lost |-> 0, frames |-> 0]

\* stream_feed, one byte, and whether it returns there.
BenchByte(s, c) ==
  CASE s.stage = 0 -> IF c = Start1 THEN [s EXCEPT !.stage = 1] ELSE [s EXCEPT !.lost = @ + 1]
    [] s.stage = 1 ->
         IF c = Start2 THEN [s EXCEPT !.stage = 2]
         ELSE IF c = Start1 THEN [s EXCEPT !.lost = @ + 1]
         ELSE [s EXCEPT !.stage = 0, !.lost = @ + 2]
    [] s.stage = 2 -> [s EXCEPT !.want = c * Base, !.stage = 3]
    [] s.stage = 3 ->
         IF s.want + c > MaxFrame THEN [s EXCEPT !.stage = 0, !.lost = @ + 4]
         ELSE [s EXCEPT !.want = @ + c, !.have = 0, !.stage = IF s.want + c = 0 THEN 0 ELSE 4]
    [] s.stage = 4 ->
         LET ends == s.have + 1 >= s.want
         IN [s EXCEPT !.buffer[s.have + 1] = c, !.have = @ + 1, !.stage = IF ends THEN 0 ELSE 4,
                      !.frames = IF ends THEN @ + 1 ELSE @]

BenchEnds(s, c) == s.stage = 4 /\ s.have + 1 >= s.want

\* The reader after the first n bytes of a chunk, of which it skips those up to
\* an offset.
BenchThrough(s, chunk, at) ==
  LET after[n \in 0..Len(chunk)] == IF n <= at THEN s ELSE BenchByte(after[n - 1], chunk[n])
  IN after

\* stream_feed: from an offset on, to the end of a frame; its length, or 0.
BenchFeed(s, chunk, at) ==
  LET after == BenchThrough(s, chunk, at)
      ends == {n \in (at + 1)..Len(chunk) : BenchEnds(after[n - 1], chunk[n])}
      stop == CHOOSE n \in ends : \A m \in ends : n <= m
  IN IF ends = {} THEN [state |-> after[Len(chunk)], length |-> 0, next |-> Len(chunk)]
     ELSE [state |-> after[stop], length |-> after[stop].have, next |-> stop]

\* stream_counts: bytes skipped, frames, and how much there is of the next.
BenchCounts(s) == <<s.lost, s.frames, IF s.stage = 4 THEN s.have ELSE 0>>

\* stream_frame, into a buffer at an offset: {} where it raises.
BenchFrame(out, at, payload) ==
  IF Len(payload) > MaxFrame \/ at > Len(out) \/ Len(out) - at < HeaderLen + Len(payload) THEN {}
  ELSE LET bytes == <<Start1, Start2, Len(payload) \div Base, Len(payload) % Base>> \o payload
       IN {[i \in DOMAIN out |-> IF i - at \in DOMAIN bytes THEN bytes[i - at] ELSE out[i]]}

-----------------------------------------------------------------------------
(* Properties.                                                             *)

Numbered == [hunt |-> 0, saw_start1 |-> 1, want_msb |-> 2, want_lsb |-> 3, body |-> 4]

\* The bench's state stands for the board's: the same stage, and as much of the
\* length and of the body as the stage is about.
Alike(s, b) ==
  /\ b.stage = Numbered[s.stage]
  /\ s.stage \in {"want_lsb", "body"} => b.want = s.want
  /\ s.stage = "body" => /\ b.have = Len(s.body) /\ b.have < b.want /\ b.want <= MaxFrame
                         /\ \A i \in 1..b.have : b.buffer[i] = s.body[i]

\* The two shapes of one reader (hoststub.py:1231): from states that are alike
\* a byte leads to states that are alike, ends a frame in both or in neither and
\* leaves the same body, and is counted by the bench as the board counts it.
SameByte(s, b, c) ==
  Alike(s, b) =>
    LET t == Fed(s, c)
        d == BenchByte(b, c)
    IN /\ Alike(t, d)
       /\ Ends(s, c) = BenchEnds(b, c)
       /\ Ends(s, c) => d.have = Len(t.body) /\ \A i \in 1..d.have : d.buffer[i] = t.body[i]
       /\ d.lost = b.lost + Lost(s, c)
       /\ d.frames = b.frames + (IF Ends(s, c) THEN 1 ELSE 0)

\* And so do all the bytes of a call, which takes as many of them.
SameFeed(s, b, chunk) ==
  Alike(s, b) =>
    LET fed == BenchFeed(b, chunk, 0)
        n == Taken(s, chunk)
        t == Through(s, chunk)[n]
    IN /\ fed.next = n /\ Alike(t, fed.state)
       /\ BenchCounts(fed.state)[3] = IF t.stage = "body" THEN Len(t.body) ELSE 0

SameFrame(out, at, payload) ==
  \A new \in BenchFrame(out, at, payload) : SubSeq(new, at + 1, at + HeaderLen + Len(payload)) = Framed(payload)

=============================================================================
