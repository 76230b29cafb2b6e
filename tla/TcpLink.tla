------------------------------- MODULE TcpLink -------------------------------
(***************************************************************************)
(* The phone's session over TCP: meshtcp.Network's pump, over a socket that *)
(* cuts the stream where it likes, takes part of what it is given, and may  *)
(* break at any moment.  What comes in are bytes; what goes out are cells   *)
(* of frames, of which only the order and the frame they belong to matter.  *)
(* Every cell remembers whether it is for the client of now.                *)
(* Of _out the cells already sent are left out: _at counts them.  Whether   *)
(* the keepalive is due is a free choice; an ordered restart, at the end of *)
(* a pump, is in NodeStore.                                                 *)
(***************************************************************************)
EXTENDS StreamFraming, SequencesExt

CONSTANTS
  Asks,       \* the messages clients send: body -> "want", "beat", "bye"
  Noise,      \* what else a client's end may put on the wire
  WireLen,    \* bytes on the way
  Chunk,      \* TCP_CHUNK
  Size,       \* cells of a framed answer, header included
  QueueBytes  \* TCP_QUEUE_BYTES

Whats == {"device", "roster", "end", "status", "packet"}

ASSUME TcpOK ==
  /\ \A m \in DOMAIN Asks : m \in Seq(Byte) /\ Len(m) \in 1..MaxFrame
  /\ \A m \in DOMAIN Asks : Asks[m] \in {"want", "beat", "bye"}
  /\ \A n \in Noise : n \in Seq(Byte)
  /\ Chunk \in Nat \ {0} /\ QueueBytes \in Nat \ {0}
  /\ \A w \in Whats : Size[w] \in Nat \ {0}

\* What is no message holds none, and does not end inside the header of one: the
\* reader, between two frames before it, is between two frames after it.
Between == {"hunt", "saw_start1"}

ASSUME NoiseOK ==
  \A n \in Noise, g \in Between :
    LET after == Through([Fresh EXCEPT !.stage = g], n)
    IN /\ after[Len(n)].stage \in Between
       /\ \A i \in 1..Len(n) : ~Ends(after[i - 1], n[i])

VARIABLES
  listening,  \* _sock
  alive,      \* the accepted client's end is open
  wire,       \* its bytes, not read yet
  expect,     \* history: the messages in them and in the reader
  connected,  \* _client
  asked,      \* config_id is not None
  reader,     \* _state
  chunk,      \* what was read and not fed
  step,       \* "out", or "read" inside pump, or "last" after a short read
  out,        \* _out from _at on
  at,         \* _at
  last,       \* history: the frame the client is in, and how far
  halves,     \* history: parts of a dump it has, since the last terminator
  astray,     \* history: the node took something for a message that was none
  torn        \* history: the client got a cell out of its place

client == <<alive, wire, expect>>
session == <<connected, asked>>
told == <<last, halves, torn>>
vars == <<listening, client, session, reader, chunk, step, out, at, told, astray>>

Cells == {[what |-> w, i |-> i, mine |-> m] :
            w \in Whats, i \in 1..Max({Size[v] : v \in Whats}), m \in BOOLEAN}

\* Of what is to be sent no more than QueueBytes is held, of what was sent less:
\* the buffer stays below twice that.
TypeOK ==
  /\ listening \in BOOLEAN /\ alive \in BOOLEAN /\ connected \in BOOLEAN /\ asked \in BOOLEAN
  /\ wire \in Seq(Byte) /\ chunk \in Seq(Byte) /\ Len(chunk) < Chunk
  /\ expect \in Seq(DOMAIN Asks)
  /\ reader \in Reader
  /\ step \in {"out", "read", "last"}
  /\ out \in Seq(Cells) /\ Len(out) <= QueueBytes
  /\ at \in 0..QueueBytes - 1
  /\ last \in [what: Whats, i: Nat]
  /\ halves \subseteq {"device", "roster"}
  /\ astray \in BOOLEAN /\ torn \in BOOLEAN

\* Between frames.
Boundary == [what |-> "end", i |-> Size["end"]]

Init ==
  /\ listening = TRUE /\ alive = FALSE
  /\ wire = <<>> /\ expect = <<>>
  /\ connected = FALSE /\ asked = FALSE
  /\ reader = Fresh /\ chunk = <<>>
  /\ step = "out"
  /\ out = <<>> /\ at = 0
  /\ last = Boundary /\ halves = {}
  /\ astray = FALSE /\ torn = FALSE

-----------------------------------------------------------------------------
(* The client's end of the socket.                                         *)
Disowned(s) == [i \in DOMAIN s |-> [s[i] EXCEPT !.mine = FALSE]]

Write(m) ==
  /\ connected /\ alive
  /\ Len(wire) + HeaderLen + Len(m) <= WireLen
  /\ wire' = wire \o Framed(m)
  /\ expect' = Append(expect, m)
  /\ UNCHANGED <<listening, alive, session, reader, chunk, step, out, at, told, astray>>

Babble(n) ==
  /\ connected /\ alive /\ wire = <<>>
  /\ wire' = n
  /\ UNCHANGED <<listening, alive, expect, session, reader, chunk, step, out, at, told, astray>>

\* It goes, in the middle of a frame perhaps: what has not been read may be lost
\* with it.
Leave ==
  /\ connected /\ alive
  /\ alive' = FALSE
  /\ wire' \in {wire, <<>>}
  /\ expect' = <<>>
  /\ out' = Disowned(out)
  /\ UNCHANGED <<listening, session, reader, chunk, step, at, told, astray>>

-----------------------------------------------------------------------------
(* What goes out.                                                          *)
Frame(w) == [i \in 1..Size[w] |-> [what |-> w, i |-> i, mine |-> alive]]

Fits(q, w) == Len(q) + Size[w] <= QueueBytes

\* _offer
Offered(q, w) == IF Fits(q, w) THEN q \o Frame(w) ELSE q

\* The buffer after the first n messages of r, for every n.
Offers(q, r) ==
  LET after[n \in 0..Len(r)] ==
        IF n = 0 THEN q ELSE Offered(after[n - 1], r[n])
  IN after

Refused(q, r) == {n \in 1..Len(r) : ~Fits(Offers(q, r)[n - 1], r[n])}

\* Fault: a refusal skips one message and the generator goes on.
OfferedPast(q, r) == Offers(q, r)[Len(r)]

\* The loop over what receive() yields: the first message that does not fit
\* ends the generator.
OfferedAll(q, r) ==
  Offers(q, r)[IF Refused(q, r) = {} THEN Len(r) ELSE Min(Refused(q, r)) - 1]

\* The generator came to its end.
AllFit(q, r) == Refused(q, r) = {}

\* The cell that may follow cell c.
Follows(c, d) ==
  IF c.i < Size[c.what] THEN d.what = c.what /\ d.i = c.i + 1 ELSE d.i = 1

\* Fault: the front is never cut off.
AtAfterGrows(rest, n) == IF rest = <<>> THEN 0 ELSE n

\* _at after n cells of the buffer are sent: back to the front when all are,
\* or when so many are that the front is worth cutting off.
AtAfter(rest, n) == IF rest = <<>> \/ n >= QueueBytes THEN 0 ELSE n

\* What is left when the socket took k.
Unsent(q, k) == SubSeq(q, k + 1, Len(q))

\* _drop, but for the queue, which it leaves as it is.
Dropped ==
  /\ connected' = FALSE /\ asked' = FALSE
  /\ alive' = FALSE /\ wire' = <<>>

\* The client gets these cells.
Received(s) ==
  /\ torn' = (torn \/ \E i \in DOMAIN s :
                 ~s[i].mine \/ ~Follows(IF i = 1 THEN last ELSE s[i - 1], s[i]))
  /\ last' = [what |-> s[Len(s)].what, i |-> s[Len(s)].i]
  /\ LET whole == {i \in DOMAIN s : s[i].i = Size[s[i].what]}
         ends == {i \in whole : s[i].what = "end"}
         from == IF ends = {} THEN 1 ELSE Max(ends)
     IN halves' = (IF ends = {} THEN halves ELSE {})
                    \cup ({s[i].what : i \in {j \in whole : j >= from}} \cap {"device", "roster"})

\* _drain of the buffer q, config_id being known or not: there is nothing to
\* send or it would block; the socket takes some; or it is broken.
Drain(q, known) ==
  \/ /\ out' = q
     /\ asked' = known
     /\ UNCHANGED <<at, told, connected, alive>>
  \/ /\ connected /\ q # <<>> /\ alive
     /\ \E k \in 1..Len(q) :
          /\ out' = Unsent(q, k)
          /\ at' = AtAfter(Unsent(q, k), at + k)
          /\ Received(SubSeq(q, 1, k))
     /\ asked' = known
     /\ UNCHANGED <<connected, alive>>
  \/ /\ connected /\ q # <<>> /\ ~alive
     /\ connected' = FALSE /\ asked' = FALSE
     /\ out' = Disowned(q)
     /\ UNCHANGED <<at, told, alive>>

-----------------------------------------------------------------------------
(* pump.                                                                   *)

\* Fault: the reader goes on where the last client stopped.
ReaderKept == reader

\* The reader of a new session.
ReaderAnew == Fresh

\* Fault: what the last client did not take is kept for the next.
OutKept == out

\* _out of a new session.
OutAnew == <<>>

\* _accept, of a client that may be waiting.
Accept ==
  /\ step = "out"
  /\ step' = "read"
  /\ \/ /\ listening /\ ~connected
        /\ connected' = TRUE /\ asked' = FALSE
        /\ alive' = TRUE /\ wire' = <<>> /\ expect' = <<>>
        /\ reader' = ReaderAnew
        /\ out' = OutAnew /\ at' = 0
        /\ last' = Boundary /\ halves' = {}
     \/ UNCHANGED <<client, session, reader, out, at, last, halves>>
  /\ UNCHANGED <<listening, chunk, astray, torn>>

\* What receive() yields for a message.
Answer(m) ==
  CASE Asks[m] = "want" -> <<"device", "roster", "end">>
    [] Asks[m] = "beat" -> <<"status">>
    [] Asks[m] = "bye" -> <<>>

\* config_id once it has been answered.
AskedAfter(q, m) ==
  CASE Asks[m] = "want" -> asked \/ AllFit(q, Answer(m))
    [] Asks[m] = "beat" -> asked
    [] Asks[m] = "bye" -> FALSE

\* A frame the reader has finished: answered, and what there is is pushed out.
Answered(m) ==
  /\ astray' = (astray \/ m \notin DOMAIN Asks
                  \/ (alive /\ (expect = <<>> \/ Head(expect) # m)))
  /\ expect' = IF expect = <<>> THEN expect ELSE Tail(expect)
  /\ IF m \in DOMAIN Asks
       THEN Drain(OfferedAll(out, Answer(m)), AskedAfter(out, m))
       ELSE Drain(out, asked)

\* One call of stream_feed on what was read, and what follows from it.  When
\* the answer finds the socket broken there is nothing more to read.
Feed(bytes) ==
  LET n == Taken(reader, bytes)
      before == Through(reader, bytes)[n - 1]
  IN /\ reader' = Fed(before, bytes[n])
     /\ IF Ends(before, bytes[n])
          THEN Answered(reader'.body)
          ELSE UNCHANGED <<astray, expect, out, at, told, session, alive>>
     /\ chunk' = IF connected' THEN SubSeq(bytes, n + 1, Len(bytes)) ELSE <<>>

\* recv_into, of what has arrived or part of it.
Recv ==
  /\ step = "read" /\ chunk = <<>>
  /\ connected /\ wire # <<>>
  /\ \E k \in 1..Min({Chunk, Len(wire)}) :
       /\ Feed(SubSeq(wire, 1, k))
       /\ wire' = SubSeq(wire, k + 1, Len(wire))
       /\ step' = IF connected' /\ k = Chunk THEN "read" ELSE "last"
  /\ UNCHANGED listening

\* The rest of what was read.
FeedOn ==
  /\ step \in {"read", "last"} /\ chunk # <<>>
  /\ Feed(chunk)
  /\ step' = IF connected' THEN step ELSE "last"
  /\ UNCHANGED <<listening, wire>>

\* _keepalive, whenever it is due, and _drain.
Farewell ==
  \/ Drain(out, asked)
  \/ asked /\ Drain(Offered(out, "status"), asked)

\* _read comes back, as nothing has arrived or what had was a short read; and
\* the rest of pump.
Close ==
  /\ chunk = <<>>
  /\ step = "last" \/ (step = "read" /\ (~connected \/ (wire = <<>> /\ alive)))
  /\ Farewell
  /\ step' = "out"
  /\ UNCHANGED <<listening, wire, expect, reader, chunk, astray>>

\* recv_into finds the client gone.
Gone ==
  /\ step = "read" /\ chunk = <<>>
  /\ connected /\ wire = <<>> /\ ~alive
  /\ Dropped
  /\ out' = Disowned(out)
  /\ step' = "out"
  /\ UNCHANGED <<listening, expect, reader, chunk, at, told, astray>>

\* heard: a packet off the air, from a poll between two pumps.
Heard ==
  /\ step = "out" /\ asked
  /\ Drain(Offered(out, "packet"), asked)
  /\ UNCHANGED <<listening, wire, expect, reader, chunk, step, astray>>

\* stop and advertise.
Stop ==
  /\ step = "out" /\ listening
  /\ listening' = FALSE
  /\ Dropped
  /\ expect' = <<>> /\ out' = Disowned(out)
  /\ UNCHANGED <<reader, chunk, step, at, told, astray>>

Advertise ==
  /\ step = "out" /\ ~listening
  /\ listening' = TRUE
  /\ UNCHANGED <<client, session, reader, chunk, step, out, at, told, astray>>

Pump == Accept \/ Recv \/ FeedOn \/ Close \/ Gone

Next ==
  \/ \E m \in DOMAIN Asks : Write(m)
  \/ \E n \in Noise : Babble(n)
  \/ Leave \/ Pump \/ Heard \/ Stop \/ Advertise

Spec == Init /\ [][Next]_vars

-----------------------------------------------------------------------------
(* Properties.                                                             *)

\* The reader resynchronises (stream.rs:10): however the stream is cut, and
\* whatever else is in it, the node acts on the messages its client framed, on
\* each of them whole and once, in their order, on nothing else; and nothing of
\* a client that went in the middle of a frame is part of what the next one says
\* (meshtcp.py:242).
HeardWhole ==
  /\ ~astray
  /\ connected /\ alive /\ wire = <<>> /\ chunk = <<>> => expect = <<>>

\* A short write means the rest waits for the next turn (meshtcp.py:26): what a
\* client gets, through partial writes, refusals and the buffer's front being
\* cut off, are whole frames from its first byte on, none of them another's.
ToldWhole ==
  /\ ~torn
  /\ alive /\ out # <<>> => Follows(last, out[1]) /\ \A i \in DOMAIN out : out[i].mine

\* A terminator is queued only behind all that it ends (meshapi.py:12).
DumpWhole ==
  alive =>
    \A n \in DOMAIN out : out[n].what = "end" /\ out[n].i = 1 =>
      LET ends == {j \in 1..n - 1 : out[j].what = "end"}
          from == IF ends = {} THEN 1 ELSE Max(ends) + 1
      IN {"device", "roster"} \subseteq
           {out[j].what : j \in from..n - 1} \cup (IF ends = {} THEN halves ELSE {})

=============================================================================
