---------------------------- MODULE StreamFraming ----------------------------
(***************************************************************************)
(* The reader and the writer of stream.rs: a frame is two start bytes, its  *)
(* length and its body, and what is not a frame is skipped.  The reader's   *)
(* state lives in a buffer of fixed size that the caller owns.  The two     *)
(* counters that are only printed are left out of it; Lost says what a      *)
(* byte adds to the first.                                                  *)
(***************************************************************************)
EXTENDS Integers, Sequences

CONSTANTS
  Base,      \* how many bytes there are
  Start1,    \* START1
  Start2,    \* START2
  MaxFrame   \* MAX_FRAME, the room for a body

ASSUME FramingOK ==
  /\ Base \in Nat /\ Base > 1
  /\ Start1 \in 0..Base - 1 /\ Start2 \in 0..Base - 1 /\ Start1 # Start2
  /\ MaxFrame \in 1..Base * Base - 1

Byte == 0..Base - 1
HeaderLen == 4

Stages == {"hunt", "saw_start1", "want_msb", "want_lsb", "body"}
Reader == [stage: Stages, want: 0..Base * Base - 1, body: Seq(Byte)]

\* reset
Fresh == [stage |-> "hunt", want |-> 0, body |-> <<>>]

\* The length a header gives, once its last byte is there.
Wanted(s, c) == s.want + c

\* feed, one byte.  A finished body is valid until the next byte.  A header that
\* asks for too much was noise, one that asks for nothing is a frame that says
\* nothing; both are hunted on from.
Fed(s, c) ==
  CASE s.stage = "hunt" ->
         [Fresh EXCEPT !.stage = IF c = Start1 THEN "saw_start1" ELSE "hunt"]
    [] s.stage = "saw_start1" ->
         [s EXCEPT !.stage = IF c = Start2 THEN "want_msb"
                             ELSE IF c = Start1 THEN "saw_start1" ELSE "hunt"]
    [] s.stage = "want_msb" -> [s EXCEPT !.stage = "want_lsb", !.want = c * Base]
    [] s.stage = "want_lsb" ->
         IF Wanted(s, c) > MaxFrame THEN Fresh
         ELSE [Fresh EXCEPT !.stage = IF Wanted(s, c) = 0 THEN "hunt" ELSE "body",
                            !.want = Wanted(s, c)]
    [] s.stage = "body" ->
         [s EXCEPT !.body = Append(@, c),
                   !.stage = IF Len(s.body) + 1 >= s.want THEN "hunt" ELSE "body"]

\* Whether that byte completes a frame, which then is the reader's body.
Ends(s, c) == s.stage = "body" /\ Len(s.body) + 1 >= s.want

\* What the byte adds to the bytes skipped.
Lost(s, c) ==
  CASE s.stage = "hunt" -> IF c = Start1 THEN 0 ELSE 1
    [] s.stage = "saw_start1" -> IF c = Start2 THEN 0 ELSE IF c = Start1 THEN 1 ELSE 2
    [] s.stage = "want_msb" -> 0
    [] s.stage = "want_lsb" -> IF Wanted(s, c) > MaxFrame THEN 4 ELSE 0
    [] s.stage = "body" -> 0

\* The reader after the first n bytes, for every n.
Through(s, bytes) ==
  LET after[n \in 0..Len(bytes)] ==
        IF n = 0 THEN s ELSE Fed(after[n - 1], bytes[n])
  IN after

\* How many bytes one call of feed takes: up to the end of a frame.
Taken(s, bytes) ==
  LET after == Through(s, bytes)
      ends == {n \in 1..Len(bytes) : Ends(after[n - 1], bytes[n])}
  IN IF ends = {} THEN Len(bytes) ELSE CHOOSE n \in ends : \A m \in ends : n <= m

\* frame
Framed(body) ==
  <<Start1, Start2, Len(body) \div Base, Len(body) % Base>> \o body

=============================================================================
