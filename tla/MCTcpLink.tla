------------------------------ MODULE MCTcpLink ------------------------------
(* A small instance of TcpLink: four bytes, of which 3 and 2 are the start     *)
(* bytes and may also be said; and beside it the stream of the receiver.       *)
EXTENDS TcpLink, MCReceiver, TLC
MCAsks == <<0>> :> "beat" @@ <<3>> :> "want" @@ <<2>> :> "bye"
\* A header that asks for nothing, one that asks for too much, and a start byte
\* that a frame may follow.
MCNoise == {<<3, 2, 0, 0, 3, 2, 0, 3, 3>>}
MCSize == "device" :> 1 @@ "roster" :> 2 @@ "end" :> 1 @@ "status" :> 1 @@ "packet" :> 1

B == INSTANCE BenchStream WITH MaxFrame <- 3

Chunks == UNION {[1..n -> 0..3] : n \in 0..4}
Readers == {B!Through(B!Fresh, bytes)[Len(bytes)] : bytes \in UNION {[1..n -> 0..3] : n \in 0..6}}
Buffers == {<<1, 1, 1>>, <<3, 2, 0>>}
Twins(s) ==
  {[stage |-> B!Numbered[s.stage], want |-> IF s.stage \in {"want_lsb", "body"} THEN s.want ELSE 7,
    have |-> IF s.stage = "body" THEN Len(s.body) ELSE 2, lost |-> 5, frames |-> 4,
    buffer |-> [i \in 1..3 |-> IF s.stage = "body" /\ i <= Len(s.body) THEN s.body[i] ELSE old[i]]] :
     old \in Buffers}

\* The bench's reader takes every stream as the board's does.
ASSUME BenchStreamAlike ==
  /\ \A s \in Readers : \A b \in Twins(s) :
       (\A c \in 0..3 : B!SameByte(s, b, c)) /\ (\A bytes \in Chunks : B!SameFeed(s, b, bytes))
  /\ \A old \in Buffers : B!Alike(B!Fresh, B!BenchFresh(old))
  /\ \A payload \in UNION {[1..n -> {0, 3}] : n \in 0..3}, off \in 0..4 :
       B!SameFrame([i \in 1..10 |-> 1], off, payload)
=============================================================================
