--------------------------- MODULE RadioHold_proofs ---------------------------
(***************************************************************************)
(* Theorems about RadioHold for every number of packets, every set of      *)
(* commands, every poll limit, and any number and kind of exceptions.      *)
(***************************************************************************)
EXTENDS MCRadioHold, SequenceTheorems, TLAPS

OutOps == {"listen", "watch", "unwatch", "sleep"}

(* The shape of a context's remaining work.  Outside a hold the callback   *)
(* has none and the foreground only start's and stop's; a body still has   *)
(* its finally clause to come, and a finally clause its release.           *)
Shape(c) ==
  /\ where[c] = "out" => /\ \A i \in 1..Len(todo[c]) : todo[c][i] \in OutOps
                         /\ c = "cb" => todo[c] = <<>>
                         /\ frame[c] = Nothing
  /\ where[c] = "body" => /\ todo[c] # <<>>
                          /\ todo[c][Len(todo[c])] = "finally"
  /\ where[c] = "exit" => /\ todo[c] # <<>>
                          /\ todo[c][Len(todo[c])] = "free"

(* Filing is the next thing to do exactly while there is a frame to file.  *)
FileFirst(c) ==
  /\ \A i \in 1..Len(todo[c]) : todo[c][i] = "file" => i = 1 /\ frame[c] # Nothing
  /\ frame[c] # Nothing => todo[c] # <<>> /\ Head(todo[c]) = "file"

(* Packets are in order: filed before in hand before in the chip.          *)
Ordered ==
  /\ filed <= landed
  /\ held # Nothing => filed < held /\ held <= landed
  /\ \A c \in Contexts : frame[c] # Nothing =>
       /\ filed < frame[c] /\ frame[c] <= landed
       /\ held # Nothing => frame[c] < held

Owned == \A c \in Contexts : where[c] # "out" => busy

IInv ==
  /\ TypeOK
  /\ HoldExcludes
  /\ HearsAnyLength
  /\ Owned
  /\ \A c \in Contexts : Shape(c) /\ FileFirst(c)
  /\ Ordered

-----------------------------------------------------------------------------
(* What replacing the head of the work by `next` does to it.               *)
LEMMA ThenWork ==
  ASSUME TypeOK, NEW c \in Contexts, todo[c] # <<>>,
         NEW next \in Seq(Ops), Then(c, next)
  PROVE  /\ todo' \in [Contexts -> Seq(Ops)]
         /\ \A d \in Contexts \ {c} : todo'[d] = todo[d]
         /\ Len(todo'[c]) = Len(next) + Len(todo[c]) - 1
         /\ \A i \in 1..Len(todo'[c]) :
              todo'[c][i] = IF i <= Len(next) THEN next[i]
                            ELSE todo[c][i - Len(next) + 1]
<1> DEFINE s == todo[c]
<1>1. s \in Seq(Ops) /\ s # <<>>
  BY DEF TypeOK
<1>2. /\ Tail(s) \in Seq(Ops)
      /\ Len(Tail(s)) = Len(s) - 1
      /\ \A i \in 1..Len(s) - 1 : Tail(s)[i] = s[i + 1]
  BY <1>1
<1>3. todo' = [todo EXCEPT ![c] = next \o Tail(s)]
  BY DEF Then
<1>4. todo'[c] = next \o Tail(s) /\ \A d \in Contexts \ {c} : todo'[d] = todo[d]
  BY <1>3 DEF TypeOK
<1>5. /\ next \o Tail(s) \in Seq(Ops)
      /\ Len(next \o Tail(s)) = Len(next) + Len(s) - 1
      /\ \A i \in 1..Len(next) + Len(s) - 1 :
           (next \o Tail(s))[i] = IF i <= Len(next) THEN next[i]
                                  ELSE Tail(s)[i - Len(next)]
  BY <1>1, <1>2
<1>6. \A i \in 1..Len(next) + Len(s) - 1 :
        i > Len(next) => Tail(s)[i - Len(next)] = s[i - Len(next) + 1]
  <2>1. Len(next) \in Nat /\ Len(s) \in Nat
    BY <1>1
  <2>2. SUFFICES ASSUME NEW i \in 1..Len(next) + Len(s) - 1, i > Len(next)
                 PROVE Tail(s)[i - Len(next)] = s[i - Len(next) + 1]
    OBVIOUS
  <2>3. i - Len(next) \in 1..Len(s) - 1
    BY <2>1, <2>2
  <2> QED BY <2>3, <1>2
<1>7. todo' \in [Contexts -> Seq(Ops)]
  BY <1>3, <1>5 DEF TypeOK
<1> QED BY <1>4, <1>5, <1>6, <1>7

(* What a hold still owes at its end stays where it is.                    *)
LEMMA LastKept ==
  ASSUME TypeOK, NEW c \in Contexts, todo[c] # <<>>, Shape(c), where[c] # "out",
         Head(todo[c]) \notin {"finally", "free"},
         NEW next \in Seq(Ops), Then(c, next)
  PROVE  todo'[c] # <<>> /\ todo'[c][Len(todo'[c])] = todo[c][Len(todo[c])]
<1>1. /\ todo' \in [Contexts -> Seq(Ops)]
      /\ Len(todo'[c]) = Len(next) + Len(todo[c]) - 1
      /\ \A i \in 1..Len(todo'[c]) :
           todo'[c][i] = IF i <= Len(next) THEN next[i]
                         ELSE todo[c][i - Len(next) + 1]
  BY ThenWork
<1>2. /\ Len(next) \in Nat /\ Len(todo[c]) \in Nat /\ Len(todo[c]) >= 1
      /\ Head(todo[c]) = todo[c][1] /\ todo'[c] \in Seq(Ops)
  BY <1>1 DEF TypeOK
<1>3. todo[c][Len(todo[c])] \in {"finally", "free"}
  BY DEF Shape, TypeOK
<1>4. Len(todo[c]) # 1
  BY <1>3, <1>2
<1>5. \A n \in Nat : n >= 1 /\ n # 1 => n >= 2
  OBVIOUS
<1>6. Len(todo[c]) >= 2
  BY <1>2, <1>4, <1>5
<1>7. Len(todo'[c]) >= 1 /\ Len(todo'[c]) \in 1..Len(todo'[c])
      /\ Len(todo'[c]) > Len(next)
      /\ Len(todo'[c]) - Len(next) + 1 = Len(todo[c])
  BY <1>1, <1>2, <1>6
<1>8. todo'[c][Len(todo'[c])] = todo[c][Len(todo[c])]
  BY <1>7, <1>1, <1>2
<1>9. todo'[c] # <<>>
  BY <1>7
<1> QED BY <1>8, <1>9

(* An operation that neither enters nor leaves a hold keeps every          *)
(* context's work in shape.                                                *)
LEMMA PlainStep ==
  ASSUME TypeOK, NEW c \in Contexts, todo[c] # <<>>,
         \A d \in Contexts : Shape(d) /\ FileFirst(d),
         Head(todo[c]) \notin {"finally", "free", "file"},
         NEW next \in Seq(Ops), Then(c, next),
         \A i \in 1..Len(next) : next[i] # "file",
         where[c] = "out" => next = <<>>,
         UNCHANGED <<where, frame>>
  PROVE  /\ todo' \in [Contexts -> Seq(Ops)]
         /\ \A d \in Contexts : Shape(d)' /\ FileFirst(d)'
<1>1. /\ todo' \in [Contexts -> Seq(Ops)]
      /\ \A d \in Contexts \ {c} : todo'[d] = todo[d]
      /\ Len(todo'[c]) = Len(next) + Len(todo[c]) - 1
      /\ \A i \in 1..Len(todo'[c]) :
           todo'[c][i] = IF i <= Len(next) THEN next[i]
                         ELSE todo[c][i - Len(next) + 1]
  BY ThenWork
<1>2. ASSUME NEW d \in Contexts \ {c} PROVE Shape(d)' /\ FileFirst(d)'
  <2>1. todo'[d] = todo[d] /\ where'[d] = where[d] /\ frame'[d] = frame[d]
    BY <1>1
  <2>2. Shape(d) /\ FileFirst(d)
    OBVIOUS
  <2> QED BY <2>1, <2>2 DEF Shape, FileFirst
<1>3. Len(next) \in Nat /\ Len(todo[c]) \in Nat \ {0} /\ todo[c] \in Seq(Ops)
      /\ Head(todo[c]) = todo[c][1] /\ todo'[c] \in Seq(Ops)
  BY <1>1 DEF TypeOK
<1>0. Len(next) >= 0 /\ Len(todo[c]) >= 1 /\ Len(next) \in Int /\ Len(todo[c]) \in Int
  BY <1>3
<1>4. FileFirst(c)'
  <2>0. frame'[c] = Nothing
    BY DEF FileFirst
  <2>1. SUFFICES ASSUME NEW i \in 1..Len(todo'[c]), todo'[c][i] = "file"
                 PROVE  FALSE
    BY <2>0 DEF FileFirst
  <2>2. i > Len(next) /\ todo[c][i - Len(next) + 1] = "file"
    BY <2>1, <1>1, <1>0
  <2>3. i - Len(next) + 1 \in 1..Len(todo[c]) /\ i - Len(next) + 1 # 1
    BY <2>2, <1>1, <1>0
  <2> QED BY <2>2, <2>3 DEF FileFirst
<1>5. ASSUME where[c] # "out"
      PROVE  todo'[c] # <<>> /\ todo'[c][Len(todo'[c])] = todo[c][Len(todo[c])]
  BY <1>5, LastKept
<1>6. ASSUME where[c] = "out"
      PROVE  /\ \A i \in 1..Len(todo'[c]) : todo'[c][i] \in OutOps
             /\ c = "cb" => todo'[c] = <<>>
  <2>1. next = <<>> /\ Len(next) = 0
    BY <1>6
  <2>2. \A i \in 1..Len(todo'[c]) : i + 1 \in 1..Len(todo[c]) /\ todo'[c][i] = todo[c][i + 1]
    BY <2>1, <1>1, <1>3
  <2>3. c # "cb"
    BY <1>6 DEF Shape
  <2> QED BY <2>2, <2>3, <1>6 DEF Shape
<1>7. Shape(c)'
  BY <1>5, <1>6 DEF Shape
<1> QED BY <1>1, <1>2, <1>4, <1>7

-----------------------------------------------------------------------------
(* The initial state, and each kind of step, keep the invariant.           *)
LEMMA InitIInv == Init => IInv
<1> SUFFICES ASSUME Init PROVE IInv
  OBVIOUS
<1> USE ConstantsOK DEF Init, Contexts, Nothing
<1>1. <<"listen", "watch">> \in Seq(Ops) /\ <<>> \in Seq(Ops)
  BY DEF Ops
<1>2. todo \in [Contexts -> Seq(Ops)]
  BY <1>1
<1>3. TypeOK
  <2>1. 0 \in 0..Limit /\ 0 \in 0..Tries /\ 0 \in 0..MaxPackets
    OBVIOUS
  <2>2. {} \in SUBSET {"done", "error"}
    OBVIOUS
  <2>3. 0 \in 0..MaxFaults /\ FALSE \in BOOLEAN
    OBVIOUS
  <2> QED BY <1>2, <2>1, <2>2, <2>3 DEF TypeOK
<1>4. ASSUME NEW c \in Contexts PROVE Shape(c) /\ FileFirst(c)
  BY DEF Shape, FileFirst, OutOps
<1>5. Ordered
  BY DEF Ordered
<1> QED BY <1>3, <1>4, <1>5 DEF IInv, HoldExcludes, HearsAnyLength, Owned

\* A step that replaces c's next operation by `next` and nothing else of the
\* control state ...
Work(c, next) ==
  /\ todo[c] # <<>>
  /\ Head(todo[c]) \notin {"finally", "free", "file"}
  /\ next \in Seq(Ops)
  /\ Then(c, next)
  /\ \A i \in 1..Len(next) : next[i] # "file"
  /\ where[c] = "out" => next = <<>>

\* ... and a step that leaves holds and frames alone and keeps the types.
Quiet ==
  /\ UNCHANGED <<busy, where, outer, frame, landed, filed>>
  /\ held' \in {held, Nothing}
  /\ quota' \in [Contexts -> 0..Limit]
  /\ tries' \in [Contexts -> 0..Tries]
  /\ resume' \in [Contexts -> BOOLEAN]
  /\ pending' \in BOOLEAN
  /\ listening' \in BOOLEAN
  /\ watched' \in BOOLEAN
  /\ mode' \in {"standby", "rx"}
  /\ anyLength' \in BOOLEAN
  /\ flags' \in SUBSET {"done", "error"}
  /\ waived' \in 0..MaxPackets
  /\ wiped' \in 0..MaxPackets
  /\ serving' \in {"off", "on", "ending", "broken"}
  /\ cut' \in BOOLEAN
  /\ faults' \in 0..MaxFaults
  /\ HearsAnyLength'

LEMMA PlainIInv ==
  ASSUME IInv, NEW c \in Contexts, NEW next, Work(c, next), Quiet
  PROVE  IInv'
<1>1. /\ todo' \in [Contexts -> Seq(Ops)]
      /\ \A d \in Contexts : Shape(d)' /\ FileFirst(d)'
  BY PlainStep DEF IInv, Work, Quiet
<1>2. TypeOK'
  BY <1>1, ConstantsOK DEF IInv, TypeOK, Quiet, Nothing
<1>3. Ordered'
  BY DEF IInv, Ordered, Quiet
<1>4. HoldExcludes' /\ Owned'
  BY DEF IInv, HoldExcludes, Owned, Quiet
<1> QED BY <1>1, <1>2, <1>3, <1>4 DEF IInv, Quiet

(* Only start's and stop's operations run outside a hold.                  *)
LEMMA InHold ==
  ASSUME IInv, NEW c \in Contexts, NEW op, At(c, op), op \notin OutOps
  PROVE  where[c] # "out"
<1>1. todo[c] \in Seq(Ops) /\ todo[c] # <<>> /\ Head(todo[c]) = op
  BY DEF At, IInv, TypeOK
<1>2. 1 \in 1..Len(todo[c]) /\ todo[c][1] = op
  BY <1>1
<1> QED BY <1>2 DEF IInv, Shape

(* What an operation of the receiver may do to it, whole or cut short.     *)
Tuned ==
  /\ held' \in {held, Nothing}
  /\ wiped' \in 0..MaxPackets
  /\ flags' \in SUBSET {"done", "error"}
  /\ anyLength' \in BOOLEAN /\ listening' \in BOOLEAN /\ cut' \in BOOLEAN
  /\ mode' \in {"standby", "rx"}
  /\ HearsAnyLength'

LEMMA ReceiveSide ==
  ASSUME IInv, NEW c \in Contexts, StartReceive \/ Restore(c)
  PROVE  Tuned
<1>1. CASE StartReceive
  BY <1>1 DEF StartReceive, Wipe, HearsAnyLength, IInv, TypeOK, Tuned
<1>2. CASE ~resume[c] /\ Restore(c)
  BY <1>2 DEF Restore, HearsAnyLength, IInv, TypeOK, Tuned
<1> QED BY <1>1, <1>2 DEF Restore

LEMMA CutSide ==
  ASSUME IInv, NEW c \in Contexts, CutListen \/ CutStandby \/ Cut(c)
  PROVE  Tuned /\ pending' \in BOOLEAN
<1>t. TypeOK /\ HearsAnyLength
  BY DEF IInv
<1>1. CASE CutListen
  <2>1. PICK done \in 0..4 :
          /\ anyLength' = (anyLength \/ done >= 1)
          /\ cut' = (cut /\ done = 0)
          /\ IF done >= 2 THEN Wipe ELSE UNCHANGED <<held, wiped>>
          /\ flags' = IF done >= 3 THEN {} ELSE flags
          /\ mode' = IF done = 4 THEN "rx" ELSE mode
          /\ UNCHANGED <<listening, pending>>
    BY <1>1 DEF CutListen
  <2>2. held' \in {held, Nothing} /\ wiped' \in 0..MaxPackets
    BY <1>t, <2>1 DEF Wipe, TypeOK
  <2>3. /\ anyLength' \in BOOLEAN /\ cut' \in BOOLEAN /\ mode' \in {"standby", "rx"}
        /\ flags' \in SUBSET {"done", "error"}
    BY <1>t, <2>1 DEF TypeOK
  <2>4. HearsAnyLength'
    <3>1. CASE done = 0
      <4>1. ~(done >= 1) /\ done # 4
        BY <3>1
      <4>2. anyLength' = anyLength /\ cut' = cut /\ mode' = mode
        BY <1>t, <2>1, <3>1, <4>1, Zenon DEF TypeOK
      <4> QED BY <1>t, <4>2 DEF HearsAnyLength
    <3>2. CASE done >= 1
      BY <2>1, <3>2 DEF HearsAnyLength
    <3> QED BY <2>1, <3>1, <3>2
  <2> QED BY <1>t, <2>1, <2>2, <2>3, <2>4 DEF TypeOK, Tuned
<1>2. CASE CutStandby
  BY <1>t, <1>2 DEF CutStandby, HearsAnyLength, TypeOK, Tuned
<1>3. CASE CutTransmit
  BY <1>t, <1>3 DEF CutTransmit, Edge, HearsAnyLength, TypeOK, Tuned
<1>4. CASE Restore(c) /\ UNCHANGED pending
  BY <1>t, <1>4, ReceiveSide DEF TypeOK
<1>5. CASE UNCHANGED <<mode, anyLength, cut, flags, held, listening, wiped, pending>>
  BY <1>t, <1>5 DEF HearsAnyLength, TypeOK, Tuned
<1> QED BY <1>1, <1>2, <1>3, <1>4, <1>5 DEF Cut

LEMMA StepIInv ==
  ASSUME IInv, NEW c \in Contexts, Step(c) PROVE IInv'
<1> USE ConstantsOK
<1>t. TypeOK
  BY DEF IInv
<1>m. UNCHANGED <<serving, faults>>
  BY DEF Step, marks
<1>1. CASE Finally(c)
  <2>1. /\ todo[c] # <<>> /\ where' = [where EXCEPT ![c] = "exit"]
        /\ UNCHANGED <<busy, outer, frame, quota, tries, pending, listening, resume,
                       watched, mode, anyLength, cut, flags, held, landed, filed, waived, wiped>>
        /\ where[c] # "out"
    BY <1>1, InHold DEF Finally, At, Set, OutOps, loops, chip, past
  <2> DEFINE w == IF outer[c] THEN <<"free">> ELSE Drain
  <2>2. w \in Seq(Ops) /\ w # <<>> /\ w[Len(w)] = "free"
        /\ \A i \in 1..Len(w) : w[i] # "file"
    <3> HIDE DEF w
    <3>1. ASSUME w = <<"free">> PROVE Len(w) = 1 /\ w[1] = "free" /\ w \in Seq(Ops)
      BY <3>1 DEF Ops
    <3>2. ASSUME w = <<"poll", "free">>
          PROVE Len(w) = 2 /\ w[1] = "poll" /\ w[2] = "free" /\ w \in Seq(Ops)
      BY <3>2 DEF Ops
    <3>3. ASSUME w = <<"poll", "pump", "free">>
          PROVE Len(w) = 3 /\ w[1] = "poll" /\ w[2] = "pump" /\ w[3] = "free"
                /\ w \in Seq(Ops)
      BY <3>3 DEF Ops
    <3>4. w = <<"free">> \/ w = <<"poll", "free">> \/ w = <<"poll", "pump", "free">>
      BY DEF Drain, w
    <3> QED BY <3>1, <3>2, <3>3, <3>4
  <2>3. todo' = [todo EXCEPT ![c] = w]
    BY <1>1 DEF Finally, Set
  <2> HIDE DEF w
  <2>7. frame[c] = Nothing
    BY <1>1 DEF Finally, At, IInv, FileFirst
  <2>4. TypeOK'
    BY <1>t, <1>m, <2>1, <2>2, <2>3 DEF TypeOK
  <2>5. HoldExcludes' /\ HearsAnyLength' /\ Owned' /\ Ordered'
    BY <1>t, <2>1 DEF TypeOK, IInv, HoldExcludes, HearsAnyLength, Owned, Ordered, Contexts
  <2>6. ASSUME NEW d \in Contexts PROVE Shape(d)' /\ FileFirst(d)'
    <3>1. CASE d = c
      BY <3>1, <1>t, <2>1, <2>2, <2>3, <2>7 DEF TypeOK, Shape, FileFirst
    <3>2. CASE d # c
      <4>1. todo'[d] = todo[d] /\ where'[d] = where[d] /\ frame'[d] = frame[d]
        BY <3>2, <1>t, <2>1, <2>3 DEF TypeOK
      <4>2. Shape(d) /\ FileFirst(d)
        BY DEF IInv
      <4> QED BY <4>1, <4>2 DEF Shape, FileFirst
    <3> QED BY <3>1, <3>2
  <2> QED BY <2>4, <2>5, <2>6 DEF IInv
<1>2. CASE Free(c)
  <2>1. /\ Head(todo[c]) = "free" /\ where[c] # "out"
        /\ where' = [where EXCEPT ![c] = "out"] /\ todo' = [todo EXCEPT ![c] = <<>>]
        /\ busy' = outer[c] /\ outer' = [outer EXCEPT ![c] = FALSE]
        /\ UNCHANGED <<frame, quota, tries, pending, listening, resume, watched, mode,
                       anyLength, cut, flags, held, landed, filed, waived, wiped>>
    BY <1>2, InHold DEF Free, At, Set, OutOps, loops, chip, past
  <2>2. frame[c] = Nothing
    BY <2>1 DEF IInv, FileFirst
  <2>3. <<>> \in Seq(Ops)
    OBVIOUS
  <2>4. TypeOK'
    BY <1>t, <1>m, <2>1, <2>3 DEF TypeOK
  <2>5. \A d \in Contexts : where'[d] = "out"
    BY <1>t, <2>1 DEF TypeOK, IInv, HoldExcludes, Contexts
  <2>6. HoldExcludes' /\ HearsAnyLength' /\ Owned' /\ Ordered'
    BY <2>1, <2>5 DEF IInv, HoldExcludes, HearsAnyLength, Owned, Ordered, Contexts
  <2>7. ASSUME NEW d \in Contexts PROVE Shape(d)' /\ FileFirst(d)'
    <3>1. CASE d = c
      BY <3>1, <1>t, <2>1, <2>2, <2>5 DEF TypeOK, Shape, FileFirst
    <3>2. CASE d # c
      <4>1. todo'[d] = todo[d] /\ where'[d] = where[d] /\ frame'[d] = frame[d]
        BY <3>2, <1>t, <2>1 DEF TypeOK
      <4>2. Shape(d) /\ FileFirst(d)
        BY DEF IInv
      <4> QED BY <4>1, <4>2 DEF Shape, FileFirst
    <3> QED BY <3>1, <3>2
  <2> QED BY <2>4, <2>6, <2>7 DEF IInv
<1>3. CASE Poll(c)
  <2>1. Work(c, <<"service", "collect">>)
    BY <1>3, InHold DEF Work, Poll, At, OutOps, Ops
  <2>2. Quiet
    BY <1>3, <1>t, <1>m DEF Quiet, Poll, Set, TypeOK, IInv, HearsAnyLength, hold, loops, chip, past
  <2> QED BY <2>1, <2>2, PlainIInv
<1>4. CASE Service(c)
  <2>1. Work(c, <<"guard">>) \/ Work(c, <<>>)
    BY <1>4, InHold DEF Work, Service, At, OutOps, Ops
  <2>2. Quiet
    BY <1>4, <1>t, <1>m DEF Quiet, Service, Set,
       TypeOK, IInv, HearsAnyLength, hold, loops, chip, past
  <2> QED BY <2>1, <2>2, PlainIInv
<1>5. CASE Pump(c)
  <2>1. Work(c, <<"guard">>) \/ Work(c, <<>>)
    BY <1>5, InHold DEF Work, Pump, At, OutOps, Ops
  <2>2. Quiet
    BY <1>5, <1>t, <1>m DEF Quiet, Pump, Set,
       TypeOK, IInv, HearsAnyLength, hold, loops, chip, past
  <2> QED BY <2>1, <2>2, PlainIInv
<1>6. CASE Again(c)
  <2>1. Work(c, <<"poll", "again">>) \/ Work(c, <<>>)
    BY <1>6, InHold DEF Work, Again, At, OutOps, Ops
  <2>2. Quiet
    BY <1>6, <1>t, <1>m DEF Quiet, Again, Set,
       TypeOK, IInv, HearsAnyLength, hold, loops, chip, past
  <2> QED BY <2>1, <2>2, PlainIInv
<1>7. CASE Collect(c)
  <2>1. Work(c, <<"read">>) \/ Work(c, <<>>)
    BY <1>7, InHold DEF Work, Collect, At, OutOps, Ops
  <2>2. quota' \in [Contexts -> 0..Limit]
    <3>1. \A n \in 0..Limit : n # 0 => n - 1 \in 0..Limit
      OBVIOUS
    <3>2. quota[c] \in 0..Limit /\ 0 \in 0..Limit
      BY <1>t DEF TypeOK
    <3>3. \/ quota' = Set(quota, c, 0)
          \/ quota[c] # 0 /\ quota' = Set(quota, c, quota[c] - 1)
      BY <1>7 DEF Collect
    <3> QED BY <3>1, <3>2, <3>3, <1>t DEF Set, TypeOK
  <2>3. /\ held' \in {held, Nothing} /\ wiped' \in 0..MaxPackets
        /\ flags' \in SUBSET {"done", "error"}
    BY <1>7, <1>t DEF Collect, Wipe, TypeOK
  <2>4. UNCHANGED <<busy, where, outer, frame, landed, filed, tries, resume, pending,
                    listening, watched, mode, anyLength, cut, waived>>
    BY <1>7 DEF Collect, hold
  <2>5. Quiet
    BY <2>2, <2>3, <2>4, <1>t, <1>m DEF Quiet, TypeOK, IInv, HearsAnyLength
  <2> QED BY <2>1, <2>5, PlainIInv
<1>8. CASE Read(c)
  <2>1. CASE held = Nothing
    <3>1. Work(c, <<>>)
      BY <1>8, <2>1, InHold DEF Work, Read, At, OutOps, Ops
    <3>2. frame[c] = Nothing
      BY <1>8 DEF Read, At, IInv, FileFirst
    <3>3. Quiet
      BY <1>8, <1>t, <1>m, <2>1, <3>2 DEF Quiet, Read, Set, TypeOK, IInv, HearsAnyLength, hold, past
    <3> QED BY <3>1, <3>3, PlainIInv
  <2>2. CASE held # Nothing
    <3> DEFINE next == <<"file", "rearm", "collect">>
    <3>1. /\ todo[c] # <<>> /\ Head(todo[c]) = "read" /\ where[c] # "out"
          /\ Then(c, next)
          /\ frame' = [frame EXCEPT ![c] = held] /\ held' = Nothing
          /\ UNCHANGED <<busy, where, outer, quota, tries, pending, listening, resume,
                         watched, mode, anyLength, cut, flags, landed, filed, waived, wiped>>
      BY <1>8, <2>2, InHold DEF Read, At, Set, OutOps, hold, past
    <3>2. next \in Seq(Ops) /\ Len(next) = 3 /\ next[1] = "file"
          /\ next[2] = "rearm" /\ next[3] = "collect"
      BY DEF Ops
    <3> HIDE DEF next
    <3>3. /\ todo' \in [Contexts -> Seq(Ops)]
          /\ \A d \in Contexts \ {c} : todo'[d] = todo[d]
          /\ Len(todo'[c]) = Len(next) + Len(todo[c]) - 1
          /\ \A i \in 1..Len(todo'[c]) :
               todo'[c][i] = IF i <= Len(next) THEN next[i]
                             ELSE todo[c][i - Len(next) + 1]
      BY <3>1, <3>2, <1>t, ThenWork
    <3>t. todo' \in [Contexts -> Seq(Ops)]
      BY <3>3
    <3>h. frame' \in [Contexts -> 0..MaxPackets] /\ held' \in 0..MaxPackets
      BY <1>t, <3>1 DEF TypeOK, Nothing
    <3>4. TypeOK'
      BY <1>t, <1>m, <3>1, <3>t, <3>h DEF TypeOK
    <3>5. \A d \in Contexts \ {c} : frame[d] = Nothing
      BY <3>1 DEF IInv, Shape, HoldExcludes, Contexts
    <3>6. Ordered' /\ HoldExcludes' /\ HearsAnyLength' /\ Owned'
      BY <1>t, <2>2, <3>1, <3>5 DEF TypeOK, IInv, Ordered, HoldExcludes, HearsAnyLength, Owned
    <3>l. /\ Len(todo[c]) \in Nat /\ Len(todo[c]) >= 1 /\ todo[c] \in Seq(Ops)
          /\ todo[c][1] = "read" /\ todo'[c] \in Seq(Ops)
      BY <3>1, <3>t, <1>t DEF TypeOK
    <3>7. FileFirst(c)'
      <4>1. frame'[c] = held
        BY <3>1, <1>t DEF TypeOK
      <4>2. todo'[c][1] = "file" /\ Len(todo'[c]) >= 1 /\ Head(todo'[c]) = "file"
        BY <3>2, <3>3, <3>l
      <4>3. ASSUME NEW i \in 1..Len(todo'[c]), todo'[c][i] = "file" PROVE i = 1
        <5>1. ASSUME i > 3 PROVE FALSE
          <6>1. todo[c][i - 2] = "file" /\ i - 2 \in 1..Len(todo[c]) /\ i - 2 # 1
            BY <4>3, <5>1, <3>2, <3>3, <3>l
          <6> QED BY <6>1 DEF IInv, FileFirst
        <5> QED BY <5>1, <4>3, <3>2, <3>3
      <4> QED BY <4>1, <4>2, <4>3, <2>2 DEF FileFirst
    <3>8. Shape(c)'
      <4>1. todo'[c] # <<>> /\ todo'[c][Len(todo'[c])] = todo[c][Len(todo[c])]
        BY <3>1, <3>2, <1>t, LastKept DEF IInv
      <4> QED BY <4>1, <3>1 DEF IInv, Shape
    <3>9. ASSUME NEW d \in Contexts, d # c PROVE Shape(d)' /\ FileFirst(d)'
      <4>1. todo'[d] = todo[d] /\ where'[d] = where[d] /\ frame'[d] = frame[d]
        BY <3>9, <1>t, <3>1, <3>3 DEF TypeOK
      <4>2. Shape(d) /\ FileFirst(d)
        BY DEF IInv
      <4> QED BY <4>1, <4>2 DEF Shape, FileFirst
    <3> QED BY <3>4, <3>6, <3>7, <3>8, <3>9 DEF IInv
  <2> QED BY <2>1, <2>2
<1>9. CASE File(c)
  <2>1. /\ todo[c] # <<>> /\ Head(todo[c]) = "file" /\ where[c] # "out"
        /\ Then(c, <<>>)
        /\ frame' = [frame EXCEPT ![c] = Nothing] /\ filed' = frame[c]
        /\ UNCHANGED <<busy, where, outer, quota, tries, pending, listening, resume,
                       watched, mode, anyLength, cut, flags, held, landed, waived, wiped>>
    BY <1>9, InHold DEF File, At, Set, OutOps, hold, loops, chip
  <2>2. <<>> \in Seq(Ops) /\ Len(<<>>) = 0
    OBVIOUS
  <2>3. /\ todo' \in [Contexts -> Seq(Ops)]
        /\ \A d \in Contexts \ {c} : todo'[d] = todo[d]
        /\ Len(todo'[c]) = 0 + Len(todo[c]) - 1
        /\ \A i \in 1..Len(todo'[c]) :
             todo'[c][i] = IF i <= 0 THEN <<>>[i] ELSE todo[c][i - 0 + 1]
    BY <2>1, <2>2, <1>t, ThenWork
  <2>4. frame[c] # Nothing
    <3>0. todo[c] \in Seq(Ops)
      BY <1>t DEF TypeOK
    <3>1. 1 \in 1..Len(todo[c]) /\ todo[c][1] = "file"
      BY <2>1, <3>0
    <3> QED BY <3>1 DEF IInv, FileFirst
  <2>t. todo' \in [Contexts -> Seq(Ops)]
    BY <2>3
  <2>h. frame' \in [Contexts -> 0..MaxPackets] /\ filed' \in 0..MaxPackets
    BY <1>t, <2>1 DEF TypeOK, Nothing
  <2>5. TypeOK'
    BY <1>t, <1>m, <2>1, <2>t, <2>h DEF TypeOK
  <2>6. Ordered' /\ HoldExcludes' /\ HearsAnyLength' /\ Owned'
    <3>1. \A d \in Contexts : frame'[d] = Nothing
      BY <2>1, <1>t DEF IInv, Shape, HoldExcludes, Contexts, TypeOK
    <3>2. filed' <= landed /\ (held # Nothing => filed' < held /\ held <= landed)
      BY <2>1, <2>4 DEF IInv, Ordered
    <3> QED BY <3>1, <3>2, <2>1 DEF IInv, Ordered, HoldExcludes, HearsAnyLength, Owned
  <2>7. FileFirst(c)'
    <3>1. frame'[c] = Nothing
      BY <2>1, <1>t DEF TypeOK
    <3>2. ASSUME NEW i \in 1..Len(todo'[c]), todo'[c][i] = "file" PROVE FALSE
      <4>1. Len(todo[c]) \in Nat
        BY <1>t DEF TypeOK
      <4>2. todo[c][i + 1] = "file" /\ i + 1 \in 1..Len(todo[c]) /\ i + 1 # 1
        BY <3>2, <2>3, <4>1
      <4> QED BY <4>2 DEF IInv, FileFirst
    <3> QED BY <3>1, <3>2 DEF FileFirst
  <2>8. Shape(c)'
    <3>1. todo'[c] # <<>> /\ todo'[c][Len(todo'[c])] = todo[c][Len(todo[c])]
      BY <2>1, <2>2, <1>t, LastKept DEF IInv
    <3> QED BY <3>1, <2>1 DEF IInv, Shape
  <2>9. ASSUME NEW d \in Contexts, d # c PROVE Shape(d)' /\ FileFirst(d)'
    <3>1. todo'[d] = todo[d] /\ where'[d] = where[d] /\ frame'[d] = frame[d]
      BY <2>9, <1>t, <2>1, <2>3 DEF TypeOK
    <3>2. Shape(d) /\ FileFirst(d)
      BY DEF IInv
    <3> QED BY <3>1, <3>2 DEF Shape, FileFirst
  <2> QED BY <2>5, <2>6, <2>7, <2>8, <2>9 DEF IInv
<1>10. CASE Rearm(c)
  <2>1. Work(c, <<"listen">>) \/ Work(c, <<>>)
    BY <1>10, InHold DEF Work, Rearm, At, OutOps, Ops
  <2>2. Quiet
    BY <1>10, <1>t, <1>m DEF Quiet, Rearm, Set,
       TypeOK, IInv, HearsAnyLength, hold, loops, chip, past
  <2> QED BY <2>1, <2>2, PlainIInv
<1>11. CASE Guard(c)
  <2>1. Work(c, <<"standby">>) \/ Work(c, <<>>)
    BY <1>11, InHold DEF Work, Guard, At, OutOps, Ops
  <2>2. Quiet
    BY <1>11, <1>t, <1>m DEF Quiet, Guard, Set,
       TypeOK, IInv, HearsAnyLength, hold, loops, chip, past
  <2> QED BY <2>1, <2>2, PlainIInv
<1>12. CASE Standby(c)
  <2>1. Work(c, <<"cad">>)
    BY <1>12, InHold DEF Work, Standby, At, OutOps, Ops
  <2>2. Quiet
    BY <1>12, <1>t, <1>m DEF Quiet, Standby, Set,
       TypeOK, IInv, HearsAnyLength, hold, loops, chip, past
  <2> QED BY <2>1, <2>2, PlainIInv
<1>13. CASE Cad(c)
  <2>1. Work(c, <<"transmit", "listen", "show">>) \/ Work(c, <<"standby">>) \/ Work(c, <<>>)
    BY <1>13, InHold DEF Work, Cad, At, OutOps, Ops
  <2>2. tries' \in [Contexts -> 0..Tries]
    <3>1. \A n \in 0..Tries : n > 1 => n - 1 \in 0..Tries
      OBVIOUS
    <3>2. tries[c] \in 0..Tries /\ 0 \in 0..Tries
      BY <1>t DEF TypeOK
    <3>3. \/ tries' = Set(tries, c, 0)
          \/ tries[c] > 1 /\ tries' = Set(tries, c, tries[c] - 1)
      BY <1>13 DEF Cad
    <3> QED BY <3>1, <3>2, <3>3, <1>t DEF Set, TypeOK
  <2>3. pending' \in BOOLEAN /\ resume' \in [Contexts -> BOOLEAN]
    BY <1>13, <1>t DEF Cad, Edge, Set, TypeOK
  <2>4. UNCHANGED <<busy, where, outer, frame, landed, filed, quota, watched, waived>>
    BY <1>13 DEF Cad, hold
  <2>5. Restore(c)
    BY <1>13 DEF Cad
  <2>6. Quiet
    BY <2>2, <2>3, <2>4, <2>5, ReceiveSide, <1>t, <1>m DEF Quiet, Tuned, TypeOK
  <2> QED BY <2>1, <2>6, PlainIInv
<1>14. CASE Transmit(c)
  <2>1. Work(c, <<>>)
    BY <1>14, InHold DEF Work, Transmit, At, OutOps, Ops
  <2>2. Quiet
    BY <1>14, <1>t, <1>m DEF Quiet, Transmit, Set, Edge,
       TypeOK, IInv, HearsAnyLength, hold, loops, chip, past
  <2> QED BY <2>1, <2>2, PlainIInv
<1>15. CASE Listen(c)
  <2>1. Work(c, <<>>)
    BY <1>15, InHold DEF Work, Listen, At, OutOps, Ops
  <2>2. Quiet
    BY <1>15, <1>t, <1>m DEF Quiet, Listen, Set, Wipe, Nothing, StartReceive,
       TypeOK, IInv, HearsAnyLength, hold, loops, chip, past
  <2> QED BY <2>1, <2>2, PlainIInv
<1>16. CASE Watch(c)
  <2>1. Work(c, <<>>)
    BY <1>16, InHold DEF Work, Watch, At, OutOps, Ops
  <2>2. Quiet
    BY <1>16, <1>t, <1>m DEF Quiet, Watch, Set,
       TypeOK, IInv, HearsAnyLength, hold, loops, chip, past
  <2> QED BY <2>1, <2>2, PlainIInv
<1>18. CASE Show(c)
  <2>1. Work(c, <<>>)
    BY <1>18, InHold DEF Work, Show, At, OutOps, Ops
  <2>2. Quiet
    BY <1>18, <1>t, <1>m DEF Quiet, Show, TypeOK, IInv, HearsAnyLength, hold, loops, chip, past
  <2> QED BY <2>1, <2>2, PlainIInv
<1>17. CASE Sleep(c)
  <2>1. Work(c, <<>>)
    BY <1>17, InHold DEF Work, Sleep, At, OutOps, Ops
  <2>2. Quiet
    BY <1>17, <1>t, <1>m DEF Quiet, Sleep, Set,
       TypeOK, IInv, HearsAnyLength, hold, loops, chip, past
  <2> QED BY <2>1, <2>2, PlainIInv
<1> QED BY <1>1, <1>2, <1>3, <1>4, <1>5, <1>6, <1>7, <1>8, <1>9, <1>10, <1>11,
           <1>12, <1>13, <1>14, <1>15, <1>16, <1>17, <1>18 DEF Step

(* A failed driver call that its caller catches.                           *)
LEMMA FailIInv ==
  ASSUME IInv, NEW c \in Contexts, CollectFails(c) \/ BusyFails(c) PROVE IInv'
<1> USE ConstantsOK
<1>t. TypeOK
  BY DEF IInv
<1>f. ASSUME faults < MaxFaults, faults' = faults + 1 PROVE faults' \in 0..MaxFaults
  BY <1>f, <1>t DEF TypeOK
<1>1. CASE CollectFails(c)
  <2>1. Work(c, <<"rearm", "collect">>)
    BY <1>1, InHold DEF Work, CollectFails, At, OutOps, Ops
  <2>2. quota' \in [Contexts -> 0..Limit]
    <3>1. quota[c] \in 0..Limit
      BY <1>t DEF TypeOK
    <3>2. quota[c] > 0 => quota[c] - 1 \in 0..Limit
      BY <3>1
    <3>3. quota' = quota \/ (quota[c] > 0 /\ quota' = Set(quota, c, quota[c] - 1))
      BY <1>1 DEF CollectFails
    <3> QED BY <3>2, <3>3, <1>t DEF Set, TypeOK
  <2>3. /\ held' \in {held, Nothing} /\ wiped' \in 0..MaxPackets
        /\ flags' \in SUBSET {"done", "error"}
    BY <1>1, <1>t DEF CollectFails, Wipe, TypeOK
  <2>4. UNCHANGED <<busy, where, outer, frame, landed, filed, tries, resume, pending, serving,
                    listening, watched, mode, anyLength, cut, waived>>
        /\ faults' \in 0..MaxFaults
    BY <1>1, <1>f DEF CollectFails, hold
  <2>5. Quiet
    BY <2>2, <2>3, <2>4, <1>t DEF Quiet, TypeOK, IInv, HearsAnyLength
  <2> QED BY <2>1, <2>5, PlainIInv
<1>2. CASE BusyFails(c)
  <2>1. Work(c, <<>>)
    BY <1>2, InHold DEF Work, BusyFails, At, OutOps, Ops
  <2>2. Tuned /\ pending' \in BOOLEAN
    <3>1. CutStandby \/ CutListen \/ (Restore(c) /\ UNCHANGED pending)
      BY <1>2 DEF BusyFails
    <3> QED BY <3>1, CutSide, ReceiveSide, <1>t DEF TypeOK
  <2>3. tries' \in [Contexts -> 0..Tries] /\ resume' \in [Contexts -> BOOLEAN]
    BY <1>2, <1>t DEF BusyFails, Set, TypeOK
  <2>4. UNCHANGED <<busy, where, outer, quota, frame, serving, watched, landed, filed, waived>>
        /\ faults' \in 0..MaxFaults
    BY <1>2, <1>f DEF BusyFails, hold
  <2>5. Quiet
    BY <2>2, <2>3, <2>4, <1>t DEF Quiet, Tuned, TypeOK
  <2> QED BY <2>1, <2>5, PlainIInv
<1> QED BY <1>1, <1>2

(* A context starting a hold, when no other is in one.                     *)
LEMMA EnterIInv ==
  ASSUME IInv, NEW c \in Contexts, NEW call, todo[c] = <<>>,
         \A d \in Contexts : where[d] = "out",
         Enter(c, Body(call)),
         UNCHANGED <<loops, frame, listening, resume, watched, chip, landed, filed, wiped>>,
         pending' \in BOOLEAN, waived' \in 0..MaxPackets, faults' = faults,
         serving' \in {"off", "on", "ending", "broken"}
  PROVE  IInv'
<1>t. TypeOK
  BY DEF IInv
<1> DEFINE w == Body(call) \o <<"finally">>
<1>1. /\ where' = [where EXCEPT ![c] = "body"] /\ todo' = [todo EXCEPT ![c] = w]
      /\ busy' = TRUE /\ outer' = [outer EXCEPT ![c] = busy]
      /\ UNCHANGED <<frame, quota, tries, listening, resume, watched, mode, anyLength,
                     cut, flags, held, landed, filed, wiped>>
  BY DEF Enter, Set, loops, chip
<1>2. /\ Body(call) \in Seq(Ops)
      /\ \A i \in 1..Len(Body(call)) : Body(call)[i] # "file"
  <2> DEFINE b == Body(call)
  <2>1. b \in {<<"poll">>, <<"guard">>, <<"pump", "service">>,
               <<"listen", "again", "settle">>, <<"glance">>, <<>>}
    BY DEF Body
  <2> HIDE DEF b
  <2>2. b \in Seq(Ops) /\ \A i \in 1..Len(b) : b[i] # "file"
    <3>1. CASE b = <<"poll">>
      BY <3>1 DEF Ops
    <3>2. CASE b = <<"guard">>
      BY <3>2 DEF Ops
    <3>3. CASE b = <<"pump", "service">>
      BY <3>3 DEF Ops
    <3>4. CASE b = <<"listen", "again", "settle">>
      BY <3>4 DEF Ops
    <3>6. CASE b = <<"glance">>
      BY <3>6 DEF Ops
    <3>5. CASE b = <<>>
      BY <3>5
    <3> QED BY <2>1, <3>1, <3>2, <3>3, <3>4, <3>5, <3>6
  <2> QED BY <2>2 DEF b
<1>3. <<"finally">> \in Seq(Ops) /\ Len(<<"finally">>) = 1 /\ <<"finally">>[1] = "finally"
  BY DEF Ops
<1>4. /\ w \in Seq(Ops) /\ Len(w) = Len(Body(call)) + 1
      /\ w[Len(w)] = "finally" /\ w # <<>>
      /\ \A i \in 1..Len(w) : w[i] # "file"
  BY <1>2, <1>3
<1> HIDE DEF w
<1>5. TypeOK'
  BY <1>t, <1>1, <1>4 DEF TypeOK
<1>6. \A d \in Contexts : frame[d] = Nothing
  BY DEF IInv, Shape
<1>7. HoldExcludes' /\ HearsAnyLength' /\ Owned' /\ Ordered'
  BY <1>t, <1>1, <1>6 DEF TypeOK, IInv, HoldExcludes, HearsAnyLength, Owned, Ordered, Contexts
<1>8. ASSUME NEW d \in Contexts PROVE Shape(d)' /\ FileFirst(d)'
  <2>1. CASE d = c
    BY <2>1, <1>t, <1>1, <1>4, <1>6 DEF TypeOK, Shape, FileFirst
  <2>2. CASE d # c
    <3>1. todo'[d] = todo[d] /\ where'[d] = where[d] /\ frame'[d] = frame[d]
      BY <2>2, <1>t, <1>1 DEF TypeOK
    <3>2. Shape(d) /\ FileFirst(d)
      BY DEF IInv
    <3> QED BY <3>1, <3>2 DEF Shape, FileFirst
  <2> QED BY <2>1, <2>2
<1> QED BY <1>5, <1>7, <1>8 DEF IInv

(* A context with no work left holds nothing.                              *)
LEMMA IdleIsOut ==
  ASSUME IInv, NEW c \in Contexts, todo[c] = <<>> PROVE where[c] = "out"
BY DEF IInv, Shape, TypeOK

(* An exception keeps the invariant: what it unwinds to is in shape.       *)
LEMMA InterruptIInv ==
  ASSUME IInv, NEW c \in Contexts, NEW kind, Interrupt(c, kind) PROVE IInv'
<1> USE ConstantsOK
<1>t. TypeOK
  BY DEF IInv
<1>1. /\ todo[c] # <<>> /\ todo' = [todo EXCEPT ![c] = Unwound(c)]
      /\ where' = [where EXCEPT ![c] = IF where[c] = "body" THEN "body" ELSE "out"]
      /\ frame' = [frame EXCEPT ![c] = Nothing]
      /\ UNCHANGED <<busy, watched, landed, filed, waived>>
  BY DEF Interrupt, Set
<1>2. /\ outer' \in [Contexts -> BOOLEAN] /\ quota' \in [Contexts -> 0..Limit]
      /\ tries' \in [Contexts -> 0..Tries] /\ resume' \in [Contexts -> BOOLEAN]
  BY <1>t DEF Interrupt, Set, TypeOK
<1>3. Tuned /\ pending' \in BOOLEAN
  BY CutSide DEF Interrupt
<1>f. /\ faults' \in 0..MaxFaults
      /\ serving' \in {"off", "on", "ending", "broken"}
  BY <1>t DEF Interrupt, TypeOK
<1> DEFINE u == Unwound(c)
<1>4. /\ u \in Seq(Ops) /\ \A i \in 1..Len(u) : u[i] # "file"
      /\ where[c] = "body" => u # <<>> /\ u[Len(u)] = "finally"
      /\ where[c] # "body" => u = <<>>
  <2>1. IF where[c] = "body" THEN u \in {<<"settle", "finally">>, <<"finally">>}
                             ELSE u = <<>>
    BY DEF Unwound
  <2> HIDE DEF u
  <2>2. CASE u = <<"settle", "finally">>
    <3>1. Len(u) = 2 /\ u[1] = "settle" /\ u[2] = "finally" /\ u \in Seq(Ops)
      BY <2>2 DEF Ops
    <3> QED BY <3>1, <2>1, <2>2
  <2>3. CASE u = <<"finally">>
    <3>1. Len(u) = 1 /\ u[1] = "finally" /\ u \in Seq(Ops)
      BY <2>3 DEF Ops
    <3> QED BY <3>1, <2>1, <2>3
  <2>4. CASE u = <<>>
    BY <2>4, <2>1
  <2> QED BY <2>1, <2>2, <2>3, <2>4
<1>5. todo' = [todo EXCEPT ![c] = u]
  BY <1>1
<1> HIDE DEF u
<1>6. /\ todo' \in [Contexts -> Seq(Ops)]
      /\ where' \in [Contexts -> {"out", "body", "exit"}]
      /\ frame' \in [Contexts -> 0..MaxPackets]
  BY <1>t, <1>1, <1>4, <1>5 DEF TypeOK, Nothing
<1>7. TypeOK'
  BY <1>t, <1>1, <1>2, <1>3, <1>f, <1>6 DEF TypeOK, Tuned, Nothing
<1>8. /\ \A d \in Contexts : where'[d] # "out" => where[d] # "out"
      /\ \A d \in Contexts : frame'[d] \in {frame[d], Nothing}
      /\ c \in Contexts /\ (where'[c] = "body" <=> where[c] = "body")
      /\ where'[c] \in {"body", "out"} /\ frame'[c] = Nothing
  BY <1>t, <1>1 DEF TypeOK
<1>9. HoldExcludes' /\ Owned'
  BY <1>1, <1>8 DEF IInv, HoldExcludes, Owned, Contexts
<1>10. Ordered'
  BY <1>1, <1>3, <1>8 DEF IInv, Ordered, Tuned
<1>11. Shape(c)' /\ FileFirst(c)'
  <2>1. todo'[c] = u
    BY <1>t, <1>5 DEF TypeOK
  <2>2. where'[c] = "body" \/ u = <<>>
    BY <1>4, <1>8
  <2> QED BY <2>1, <2>2, <1>4, <1>8 DEF Shape, FileFirst
<1>12. ASSUME NEW d \in Contexts, d # c PROVE Shape(d)' /\ FileFirst(d)'
  <2>1. todo'[d] = todo[d] /\ where'[d] = where[d] /\ frame'[d] = frame[d]
    BY <1>12, <1>t, <1>1 DEF TypeOK
  <2>2. Shape(d) /\ FileFirst(d)
    BY DEF IInv
  <2> QED BY <2>1, <2>2 DEF Shape, FileFirst
<1> QED BY <1>3, <1>7, <1>9, <1>10, <1>11, <1>12 DEF IInv, Tuned

LEMMA NextIInv == IInv /\ [Next]_vars => IInv'
<1> SUFFICES ASSUME IInv, [Next]_vars PROVE IInv'
  OBVIOUS
<1> USE ConstantsOK
<1>t. TypeOK
  BY DEF IInv
<1>1. ASSUME NEW entry \in Commands, Command(entry) PROVE IInv'
  <2>1. todo["fg"] = <<>> /\ todo["cb"] = <<>> /\ Enter("fg", Body(entry))
        /\ entry \in Entries /\ UNCHANGED <<pending, waived>>
        /\ UNCHANGED <<loops, frame, listening, resume, watched, chip, landed, filed, wiped>>
    BY <1>1 DEF Command, AtPrompt, Idle, Running, past
  <2>0. faults' = faults /\ serving' \in {"off", "on", "ending", "broken"}
    BY <1>1 DEF Command
  <2>2. \A d \in Contexts : where[d] = "out"
    BY <2>1, IdleIsOut DEF Contexts
  <2>3. pending' \in BOOLEAN /\ waived' \in 0..MaxPackets
    BY <2>1, <1>t DEF TypeOK
  <2> QED BY <2>0, <2>1, <2>2, <2>3, EnterIInv DEF Contexts
<1>9. CASE Turn \/ LastSave
  <2>1. PICK call \in {"turn", "silence", "save"} :
          /\ todo["fg"] = <<>> /\ todo["cb"] = <<>> /\ Enter("fg", Body(call))
          /\ UNCHANGED <<pending, waived, faults>>
          /\ UNCHANGED <<loops, frame, listening, resume, watched, chip, landed, filed, wiped>>
    BY <1>9 DEF Turn, LastSave, Idle, Running, Body, past, marks
  <2>2. \A d \in Contexts : where[d] = "out"
    BY <2>1, IdleIsOut DEF Contexts
  <2>3. /\ pending' \in BOOLEAN /\ waived' \in 0..MaxPackets
        /\ serving' \in {"off", "on", "ending", "broken"}
    BY <1>9, <2>1, <1>t DEF TypeOK, Turn, LastSave, marks
  <2> QED BY <2>1, <2>2, <2>3, EnterIInv DEF Contexts
<1>10. CASE Serve \/ TimeUp
  <2>1. /\ UNCHANGED <<busy, where, outer, todo, quota, tries, frame, pending, listening,
                       resume, watched, mode, anyLength, cut, flags, held, landed, filed,
                       waived, wiped>>
        /\ serving' \in {"off", "on", "ending", "broken"}
    BY <1>10 DEF Serve, TimeUp, hold, loops, chip, past
  <2>2. faults' \in 0..MaxFaults
    BY <1>10, <1>t DEF Serve, TimeUp, TypeOK
  <2>3. TypeOK'
    BY <1>t, <2>1, <2>2 DEF TypeOK
  <2> QED BY <2>1, <2>3 DEF IInv, HoldExcludes, HearsAnyLength, Owned, Ordered, Shape, FileFirst
<1>11. CASE \E c \in Contexts : CollectFails(c) \/ BusyFails(c)
  BY <1>11, FailIInv
<1>2. CASE Stop
  <2>1. /\ todo["fg"] = <<>> /\ todo' = [todo EXCEPT !["fg"] = <<"unwatch", "sleep">>]
        /\ UNCHANGED <<busy, where, outer, quota, tries, frame, pending, listening,
                       resume, watched, mode, anyLength, cut, flags, held, landed, filed,
                       waived, wiped, faults>>
        /\ serving' = "off"
    BY <1>2 DEF Stop, AtPrompt, Idle, Set, hold, loops, chip, past
  <2>2. <<"unwatch", "sleep">> \in Seq(Ops)
    BY DEF Ops
  <2>3. TypeOK'
    BY <1>t, <2>1, <2>2 DEF TypeOK
  <2>4. HoldExcludes' /\ HearsAnyLength' /\ Owned' /\ Ordered'
    BY <2>1 DEF IInv, HoldExcludes, HearsAnyLength, Owned, Ordered
  <2>5. where["fg"] = "out" /\ frame["fg"] = Nothing
    BY <2>1, IdleIsOut DEF Contexts, IInv, Shape
  <2>6. Shape("fg")' /\ FileFirst("fg")'
    <3>1. todo'["fg"] = <<"unwatch", "sleep">> /\ where'["fg"] = "out"
          /\ frame'["fg"] = Nothing
      BY <1>t, <2>1, <2>5 DEF TypeOK, Contexts
    <3>2. \A i \in 1..Len(<<"unwatch", "sleep">>) :
            <<"unwatch", "sleep">>[i] \in OutOps /\ <<"unwatch", "sleep">>[i] # "file"
      BY DEF OutOps
    <3> QED BY <3>1, <3>2 DEF Shape, FileFirst
  <2>7. Shape("cb")' /\ FileFirst("cb")'
    BY <1>t, <2>1 DEF IInv, TypeOK, Shape, FileFirst, Contexts
  <2> QED BY <2>3, <2>4, <2>6, <2>7 DEF IInv, Contexts
<1>3. CASE Collect_
  <2>1. CASE busy /\ waived' = held /\ UNCHANGED <<hold, todo>>
    <3>1. UNCHANGED <<busy, where, outer, todo, quota, tries, frame, listening, resume,
                      watched, mode, anyLength, cut, flags, held, landed, filed, wiped,
                      serving, faults>>
          /\ pending' = FALSE
      BY <1>3, <2>1 DEF Collect_, hold, loops, chip, marks
    <3>2. TypeOK'
      BY <1>t, <2>1, <3>1 DEF TypeOK
    <3> QED BY <3>1, <3>2 DEF IInv, HoldExcludes, HearsAnyLength, Owned, Ordered, Shape, FileFirst
  <2>2. CASE ~busy /\ Enter("cb", Body("poll")) /\ UNCHANGED waived
    <3>1. \A d \in Contexts : where[d] = "out"
      BY <2>2 DEF IInv, Owned
    <3>2. todo["cb"] = <<>> /\ pending' \in BOOLEAN /\ waived' \in 0..MaxPackets
          /\ UNCHANGED <<loops, frame, listening, resume, watched, chip, landed, filed, wiped>>
          /\ faults' = faults /\ serving' \in {"off", "on", "ending", "broken"}
      BY <1>3, <2>2, <1>t DEF Collect_, TypeOK, marks
    <3> QED BY <2>2, <3>1, <3>2, EnterIInv DEF Contexts
  <2> QED BY <1>3, <2>1, <2>2 DEF Collect_
<1>4. CASE \E c \in Contexts : Step(c)
  BY <1>4, StepIInv
<1>5. CASE \E c \in Contexts, kind \in Exceptions : Interrupt(c, kind)
  BY <1>5, InterruptIInv
<1>6. CASE Land
  <2>1. /\ landed' = landed + 1 /\ landed < MaxPackets /\ held' = landed'
        /\ flags' = flags \cup {"done"} /\ pending' \in BOOLEAN
        /\ UNCHANGED <<busy, where, outer, todo, quota, tries, frame, listening, resume,
                       watched, mode, anyLength, cut, filed, waived, wiped, serving, faults>>
    BY <1>6, <1>t DEF Land, Edge, hold, loops, marks, TypeOK
  <2>2. TypeOK'
    BY <1>t, <2>1 DEF TypeOK
  <2>3. Ordered'
    BY <1>t, <2>1 DEF IInv, Ordered, TypeOK, Nothing
  <2> QED BY <2>1, <2>2, <2>3 DEF IInv, HoldExcludes, HearsAnyLength, Owned, Shape, FileFirst
<1>7. CASE Garble
  <2>1. /\ flags' = flags \cup {"error"} /\ pending' \in BOOLEAN
        /\ UNCHANGED <<busy, where, outer, todo, quota, tries, frame, listening, resume,
                       watched, mode, anyLength, cut, held, landed, filed, waived, wiped,
                       serving, faults>>
    BY <1>7, <1>t DEF Garble, Edge, hold, loops, past, marks, TypeOK
  <2>2. TypeOK'
    BY <1>t, <2>1 DEF TypeOK
  <2> QED BY <2>1, <2>2 DEF IInv, HoldExcludes, HearsAnyLength, Owned, Ordered, Shape, FileFirst
<1>8. CASE UNCHANGED vars
  BY <1>8 DEF vars, IInv, TypeOK, HoldExcludes, HearsAnyLength, Owned, Ordered, Shape,
              FileFirst
<1> QED BY <1>1, <1>2, <1>3, <1>4, <1>5, <1>6, <1>7, <1>8, <1>9, <1>10, <1>11
       DEF Next, Loop

-----------------------------------------------------------------------------
(* Filing is in order because the frame in hand is newer than any filed.   *)
LEMMA StepInOrder == IInv /\ [Next]_vars => (filed' = filed \/ filed' > filed)
<1> SUFFICES ASSUME IInv, [Next]_vars, filed' # filed PROVE filed' > filed
  OBVIOUS
<1>1. PICK c \in Contexts : File(c)
  BY DEF Next, Loop, Serve, Turn, TimeUp, LastSave, Step, CollectFails, BusyFails, Show,
         Command, Stop, Collect_, Interrupt, Land, Garble, Poll, Service,
         Pump, Again, Collect, Read, Rearm, Guard, Standby, Cad, Transmit, Listen, Watch,
         Sleep, Finally, Free, vars, past
<1>2. filed' = frame[c] /\ todo[c] # <<>> /\ Head(todo[c]) = "file" /\ todo[c] \in Seq(Ops)
  BY <1>1 DEF File, At, IInv, TypeOK
<1>3. 1 \in 1..Len(todo[c]) /\ todo[c][1] = "file"
  BY <1>2
<1>4. frame[c] # Nothing
  BY <1>3 DEF IInv, FileFirst
<1>5. filed < frame[c]
  BY <1>4 DEF IInv, Ordered
<1>6. filed \in Int /\ frame[c] \in Int
  BY ConstantsOK DEF IInv, TypeOK
<1> QED BY <1>2, <1>5, <1>6

(* Every variable keeps its type, however packets, commands and            *)
(* exceptions interleave.                                                  *)
THEOREM TypeCorrect == Spec => []TypeOK
<1>1. IInv => TypeOK
  BY DEF IInv
<1> QED BY InitIInv, NextIInv, <1>1, PTL DEF Spec

(* The callback and a foreground call never own the radio at once:         *)
(* `_collect` tests `_busy`, and `_hold` keeps it up to its very end.      *)
THEOREM Exclusion == Spec => []HoldExcludes
<1>1. IInv => HoldExcludes
  BY DEF IInv
<1> QED BY InitIInv, NextIInv, <1>1, PTL DEF Spec

(* The receiver always accepts a packet of any length, whatever was sent   *)
(* before: every way into receive goes through `listen`.                   *)
THEOREM AnyLengthHeard == Spec => []HearsAnyLength
<1>1. IInv => HearsAnyLength
  BY DEF IInv
<1> QED BY InitIInv, NextIInv, <1>1, PTL DEF Spec

(* Packets are filed at most once each, in the order they were received.   *)
THEOREM InOrder == Spec => FiledInOrder
<1>1. IInv /\ [Next]_vars => [filed' > filed]_filed
  BY StepInOrder
<1> QED BY InitIInv, NextIInv, <1>1, PTL DEF Spec, FiledInOrder

-----------------------------------------------------------------------------
(* Until an exception leaves a hold's finally clause, and until ctrl-C, a   *)
(* failed driver call or stop() leaves the radio where it was.             *)

(* Nobody holds inside a hold of its own, so that leaving one is the end.  *)
Outermost == \A c \in Contexts : where[c] # "out" => ~outer[c]

Flagged == busy <=> \E c \in Contexts : where[c] # "out"

HeldInv == Outermost /\ Flagged

(* A CAD that will restore receive, and a transmission that listen follows, *)
(* are the next thing to do or not in the work at all.                     *)
Ready(c) ==
  \A i \in 1..Len(todo[c]) :
    /\ todo[c][i] # "sleep"
    /\ todo[c][i] = "transmit" => i = 1 /\ Len(todo[c]) >= 2 /\ todo[c][2] = "listen"
    /\ todo[c][i] = "cad" => i = 1 /\ resume[c]

(* start(), until it is done.                                              *)
Starting ==
  where["fg"] = "out" /\ todo["fg"] # <<>> =>
    /\ todo["fg"] \in {<<"listen", "watch">>, <<"watch">>}
    /\ ~watched /\ ~pending /\ todo["cb"] = <<>>

Receiving == mode = "rx" /\ listening

(* Coming back to receive.                                                 *)
Back(c) == todo[c] # <<>> /\ Head(todo[c]) \in {"listen", "cad"}

CalmInv ==
  /\ \A c \in Contexts : Ready(c)
  /\ Starting
  /\ Receiving \/ \E c \in Contexts : Back(c)

(* What may come before the rest of the work.                              *)
Fit(next, restores) ==
  \A i \in 1..Len(next) :
    /\ next[i] # "sleep"
    /\ next[i] = "transmit" => i = 1 /\ Len(next) >= 2 /\ next[2] = "listen"
    /\ next[i] = "cad" => i = 1 /\ restores

LEMMA ReadyThen ==
  ASSUME TypeOK, NEW c \in Contexts, todo[c] # <<>>, \A d \in Contexts : Ready(d),
         NEW next \in Seq(Ops), Then(c, next), Fit(next, resume'[c]),
         \A d \in Contexts \ {c} : resume'[d] = resume[d]
  PROVE  \A d \in Contexts : Ready(d)'
<1>1. /\ \A d \in Contexts \ {c} : todo'[d] = todo[d]
      /\ Len(todo'[c]) = Len(next) + Len(todo[c]) - 1
      /\ \A i \in 1..Len(todo'[c]) :
           todo'[c][i] = IF i <= Len(next) THEN next[i]
                         ELSE todo[c][i - Len(next) + 1]
  BY ThenWork
<1>2. ASSUME NEW d \in Contexts \ {c} PROVE Ready(d)'
  <2>1. todo'[d] = todo[d] /\ resume'[d] = resume[d] /\ Ready(d)
    BY <1>1
  <2> QED BY <2>1 DEF Ready
<1>3. Ready(c)'
  <2>1. Len(next) \in Nat /\ Len(todo[c]) \in Nat /\ Len(todo[c]) >= 1
    BY DEF TypeOK
  <2>2. SUFFICES ASSUME NEW i \in 1..Len(todo'[c])
                 PROVE /\ todo'[c][i] # "sleep"
                       /\ todo'[c][i] = "transmit" =>
                            i = 1 /\ Len(todo'[c]) >= 2 /\ todo'[c][2] = "listen"
                       /\ todo'[c][i] = "cad" => i = 1 /\ resume'[c]
    BY DEF Ready
  <2>3. CASE i <= Len(next)
    <3>1. i \in 1..Len(next) /\ todo'[c][i] = next[i]
      BY <1>1, <2>1, <2>3
    <3>2. CASE next[i] = "transmit"
      <4>1. i = 1 /\ Len(next) >= 2 /\ next[2] = "listen"
        BY <3>1, <3>2 DEF Fit
      <4>2. Len(todo'[c]) >= 2 /\ 2 \in 1..Len(todo'[c]) /\ 2 <= Len(next)
        BY <1>1, <2>1, <4>1
      <4>3. todo'[c][2] = next[2]
        BY <1>1, <4>2
      <4> QED BY <3>1, <3>2, <4>1, <4>2, <4>3
    <3>3. CASE next[i] # "transmit"
      BY <3>1, <3>3 DEF Fit
    <3> QED BY <3>2, <3>3
  <2>4. CASE i > Len(next)
    <3>1. i - Len(next) + 1 \in 2..Len(todo[c])
      BY <1>1, <2>1, <2>4
    <3>2. todo'[c][i] = todo[c][i - Len(next) + 1]
      BY <1>1, <2>1, <2>4
    <3> DEFINE j == i - Len(next) + 1
    <3>3. j \in 1..Len(todo[c]) /\ j # 1
      BY <2>1, <3>1
    <3> HIDE DEF j
    <3>4. todo[c][j] \notin {"sleep", "transmit", "cad"}
      BY <3>3 DEF Ready
    <3> QED BY <3>2, <3>4 DEF j
  <2> QED BY <2>1, <2>3, <2>4
<1> QED BY <1>2, <1>3

(* The other context has no work while one works in a hold.                *)
LEMMA Alone ==
  ASSUME IInv, Starting, NEW c \in Contexts, NEW d \in Contexts \ {c}, Running(c), todo[c] # <<>>,
         where[c] # "out"
  PROVE  todo[d] = <<>>
<1>1. CASE c = "fg"
  BY <1>1 DEF Running, Contexts
<1>2. CASE c = "cb"
  <2>1. where["fg"] = "out"
    BY <1>2 DEF IInv, HoldExcludes
  <2> QED BY <1>2, <2>1 DEF Starting, Contexts
<1> QED BY <1>1, <1>2 DEF Contexts

(* start() is over once anything else runs.                                *)
LEMMA Started ==
  ASSUME IInv, Starting, NEW c \in Contexts, Running(c), todo[c] # <<>>, where[c] # "out",
         NEW w \in {"body", "exit", "out"}, where' = [where EXCEPT ![c] = w],
         \A d \in Contexts \ {c} : todo'[d] = todo[d],
         w = "out" => todo'[c] = <<>>
  PROVE  Starting'
<1>1. CASE c = "fg"
  BY <1>1 DEF Starting, IInv, TypeOK, Contexts
<1>2. CASE c = "cb"
  <2>1. todo["fg"] = <<>> /\ todo'["fg"] = todo["fg"]
    BY <1>2, Alone DEF Contexts
  <2> QED BY <2>1 DEF Starting
<1> QED BY <1>1, <1>2 DEF Contexts

(* An operation in a hold that leaves the hold, the receiver and what it    *)
(* would restore alone.                                                    *)
LEMMA PlainCalm ==
  ASSUME IInv, CalmInv, NEW c \in Contexts, NEW op, At(c, op),
         op \notin {"listen", "cad", "watch", "unwatch", "sleep"},
         NEW next \in Seq(Ops), Then(c, next), Fit(next, resume[c]),
         UNCHANGED <<hold, mode, listening, resume>>
  PROVE  CalmInv'
<1>1. todo[c] # <<>> /\ Head(todo[c]) = op /\ Running(c) /\ where[c] # "out"
  BY InHold DEF At, OutOps
<1>2. \A d \in Contexts : Ready(d)'
  BY <1>1, ReadyThen DEF IInv, CalmInv
<1>3. \A d \in Contexts \ {c} : todo'[d] = todo[d]
  BY DEF Then, IInv, TypeOK
<1>4. Starting'
  <2>1. where' = [where EXCEPT ![c] = where[c]] /\ where[c] \in {"body", "exit", "out"}
    BY DEF hold, IInv, TypeOK
  <2> QED BY <1>1, <1>3, <2>1, Started DEF CalmInv
<1>5. Receiving' \/ \E d \in Contexts : Back(d)'
  <2>1. CASE Receiving
    BY <2>1 DEF Receiving
  <2>2. ASSUME NEW d \in Contexts, Back(d) PROVE Back(d)'
    <3>1. d # c  BY <1>1, <2>2 DEF Back
    <3> QED BY <1>3, <2>2, <3>1 DEF Back
  <2> QED BY <2>1, <2>2 DEF CalmInv
<1> QED BY <1>2, <1>4, <1>5 DEF CalmInv

(* An operation of a hold that touches the receiver.                       *)
LEMMA RadioCalm ==
  ASSUME IInv, CalmInv, NEW c \in Contexts, NEW op, At(c, op), op \notin OutOps,
         NEW next \in Seq(Ops), Then(c, next), Fit(next, resume'[c]),
         \A d \in Contexts \ {c} : resume'[d] = resume[d],
         UNCHANGED hold, Receiving' \/ Back(c)'
  PROVE  CalmInv'
<1>1. todo[c] # <<>> /\ Running(c) /\ where[c] # "out"
  BY InHold DEF At
<1>2. \A d \in Contexts : Ready(d)'
  BY <1>1, ReadyThen DEF IInv, CalmInv
<1>3. Starting'
  <2>1. where' = [where EXCEPT ![c] = where[c]] /\ where[c] \in {"body", "exit", "out"}
    BY DEF hold, IInv, TypeOK
  <2>2. \A d \in Contexts \ {c} : todo'[d] = todo[d]
    BY DEF Then, IInv, TypeOK
  <2> QED BY <1>1, <2>1, <2>2, Started DEF CalmInv
<1> QED BY <1>2, <1>3 DEF CalmInv

(* What precedes the rest of the work, by its length.                      *)
LEMMA FitShort ==
  ASSUME NEW next, NEW restores, NEW a \in Ops \ {"sleep", "transmit", "cad"},
         NEW b \in Ops \ {"sleep", "transmit", "cad"}, NEW e \in Ops \ {"sleep", "transmit", "cad"},
         next \in {<<>>, <<a>>, <<a, b>>, <<a, b, e>>}
  PROVE  next \in Seq(Ops) /\ Fit(next, restores)
<1>1. CASE next = <<>>
  BY <1>1 DEF Fit
<1>2. CASE next = <<a>>
  <2>1. Len(next) = 1 /\ next[1] = a  BY <1>2
  <2>2. next \in Seq(Ops)  BY <1>2
  <2> QED BY <2>1, <2>2 DEF Fit
<1>3. CASE next = <<a, b>>
  <2>1. Len(next) = 2 /\ next[1] = a /\ next[2] = b  BY <1>3
  <2>2. next \in Seq(Ops)  BY <1>3
  <2> QED BY <2>1, <2>2 DEF Fit
<1>4. CASE next = <<a, b, e>>
  <2>1. Len(next) = 3 /\ next[1] = a /\ next[2] = b /\ next[3] = e  BY <1>4
  <2>2. next \in Seq(Ops)  BY <1>4
  <2> QED BY <2>1, <2>2 DEF Fit
<1> QED BY <1>1, <1>2, <1>3, <1>4

(* What is left of two or more begins with the second.                     *)
LEMMA SecondNext ==
  ASSUME NEW s \in Seq(Ops), Len(s) >= 2
  PROVE  Tail(s) # <<>> /\ Head(Tail(s)) = s[2]
<1> DEFINE t == Tail(s)
<1>1. t \in Seq(Ops) /\ Len(t) = Len(s) - 1 /\ Len(s) \in Nat /\ t[1] = s[2]
  OBVIOUS
<1> HIDE DEF t
<1>2. t # <<>> /\ Len(t) >= 1
  BY <1>1
<1>3. Head(t) = t[1]
  BY <1>1, <1>2
<1> QED BY <1>1, <1>2, <1>3 DEF t

LEMMA StepCalm ==
  ASSUME IInv, CalmInv, NEW c \in Contexts, Step(c)
  PROVE  CalmInv'
<1>t. TypeOK
  BY DEF IInv
<1> DEFINE Plain(op, next) ==
             /\ At(c, op) /\ op \notin {"listen", "cad", "watch", "unwatch", "sleep"}
             /\ next \in Seq(Ops) /\ Then(c, next) /\ Fit(next, resume[c])
             /\ UNCHANGED <<hold, mode, listening, resume>>
<1>p. ASSUME NEW op, NEW next, Plain(op, next) PROVE CalmInv'
  BY <1>p, PlainCalm
<1>1. CASE Finally(c)
  <2>1. /\ At(c, "finally") /\ where' = [where EXCEPT ![c] = "exit"]
        /\ UNCHANGED <<busy, outer, listening, resume, mode>>
    BY <1>1 DEF Finally, Set, chip
  <2>2. todo[c] # <<>> /\ Running(c) /\ where[c] # "out"
    BY <2>1, InHold DEF At, OutOps
  <2> DEFINE w == IF outer[c] THEN <<"free">> ELSE Drain
  <2>3. w \in Seq(Ops) /\ Fit(w, resume[c])
    <3>1. w = <<"free">> \/ w = <<"poll", "free">> \/ w = <<"poll", "pump", "free">>
      BY DEF Drain
    <3> HIDE DEF w
    <3>2. {"free", "poll", "pump"} \subseteq Ops \ {"sleep", "transmit", "cad"}
      BY DEF Ops
    <3> QED BY <3>1, <3>2, FitShort
  <2>4. todo' = [todo EXCEPT ![c] = w]
    BY <1>1 DEF Finally, Set
  <2> HIDE DEF w
  <2>5. todo'[c] = w /\ \A d \in Contexts \ {c} : todo'[d] = todo[d]
    BY <1>t, <2>4 DEF TypeOK
  <2>6. \A d \in Contexts : Ready(d)'
    <3>1. Ready(c)'
      BY <2>1, <2>3, <2>5 DEF Ready, Fit
    <3>2. ASSUME NEW d \in Contexts \ {c} PROVE Ready(d)'
      BY <2>1, <2>5 DEF Ready, CalmInv
    <3> QED BY <3>1, <3>2
  <2>7. Starting'
    BY <2>1, <2>2, <2>5, Started DEF CalmInv
  <2>8. Receiving' \/ \E d \in Contexts : Back(d)'
    <3>1. ~Back(c)  BY <2>1 DEF Back, At
    <3> QED BY <2>1, <2>5, <3>1 DEF CalmInv, Receiving, Back
  <2> QED BY <2>6, <2>7, <2>8 DEF CalmInv
<1>2. CASE Free(c)
  <2>1. /\ At(c, "free") /\ busy' = outer[c]
        /\ where' = [where EXCEPT ![c] = "out"] /\ outer' = [outer EXCEPT ![c] = FALSE]
        /\ todo' = [todo EXCEPT ![c] = <<>>]
        /\ UNCHANGED <<listening, resume, mode>>
    BY <1>2 DEF Free, Set, chip
  <2>2. todo[c] # <<>> /\ Running(c) /\ where[c] # "out"
    BY <2>1, InHold DEF At, OutOps
  <2>3. todo'[c] = <<>> /\ \A d \in Contexts \ {c} : todo'[d] = todo[d]
    BY <1>t, <2>1 DEF TypeOK
  <2>4. \A d \in Contexts : Ready(d)'
    BY <2>1, <2>3 DEF CalmInv, Ready
  <2>5. Starting'
    BY <2>1, <2>2, <2>3, Started DEF CalmInv
  <2>6. Receiving' \/ \E d \in Contexts : Back(d)'
    <3>1. ~Back(c)  BY <2>1 DEF Back, At
    <3> QED BY <2>1, <2>3, <3>1 DEF CalmInv, Receiving, Back
  <2> QED BY <2>4, <2>5, <2>6 DEF CalmInv
<1> USE FitShort, <1>t DEF Ops
<1>3. CASE Poll(c)
  <2>1. Plain("poll", <<"service", "collect">>)
    BY <1>3 DEF Poll, chip
  <2> QED BY <2>1, <1>p
<1>4. CASE Service(c)
  <2>1. PICK due \in BOOLEAN : Then(c, IF due THEN <<"guard">> ELSE <<>>)
    BY <1>4 DEF Service
  <2>2. Plain("service", IF due THEN <<"guard">> ELSE <<>>)
    BY <1>4, <2>1 DEF Service, chip
  <2> QED BY <2>2, <1>p
<1>5. CASE Pump(c)
  <2>1. PICK asked \in BOOLEAN : Then(c, IF asked THEN <<"guard">> ELSE <<>>)
    BY <1>5 DEF Pump
  <2>2. Plain("pump", IF asked THEN <<"guard">> ELSE <<>>)
    BY <1>5, <2>1 DEF Pump, chip
  <2> QED BY <2>2, <1>p
<1>6. CASE Again(c)
  <2>1. PICK more \in BOOLEAN : Then(c, IF more THEN <<"poll", "again">> ELSE <<>>)
    BY <1>6 DEF Again
  <2>2. Plain("again", IF more THEN <<"poll", "again">> ELSE <<>>)
    BY <1>6, <2>1 DEF Again, chip
  <2> QED BY <2>2, <1>p
<1>7. CASE Collect(c)
  <2>1. PICK next \in {<<>>, <<"read">>} : Then(c, next)
    BY <1>7 DEF Collect
  <2>2. Plain("collect", next)
    BY <1>7, <2>1 DEF Collect
  <2> QED BY <2>2, <1>p
<1>8. CASE Read(c)
  <2>1. PICK next \in {<<>>, <<"file", "rearm", "collect">>} : Then(c, next)
    BY <1>8 DEF Read
  <2>2. Plain("read", next)
    BY <1>8, <2>1 DEF Read
  <2> QED BY <2>2, <1>p
<1>9. CASE File(c)
  <2>1. Plain("file", <<>>)
    BY <1>9 DEF File, chip
  <2> QED BY <2>1, <1>p
<1>10. CASE Rearm(c)
  <2>1. Plain("rearm", IF listening THEN <<>> ELSE <<"listen">>)
    BY <1>10 DEF Rearm, chip
  <2> QED BY <2>1, <1>p
<1>11. CASE Guard(c)
  <2>1. PICK allowed \in BOOLEAN : Then(c, IF allowed THEN <<"standby">> ELSE <<>>)
    BY <1>11 DEF Guard
  <2>2. Plain("guard", IF allowed THEN <<"standby">> ELSE <<>>)
    BY <1>11, <2>1 DEF Guard, chip
  <2> QED BY <2>2, <1>p
<1>12. CASE Standby(c)
  <2>1. /\ At(c, "standby") /\ Then(c, <<"cad">>) /\ resume' = [resume EXCEPT ![c] = listening]
        /\ UNCHANGED hold
    BY <1>12 DEF Standby, Set
  <2>2. todo[c] # <<>> /\ Running(c) /\ where[c] # "out" /\ Head(todo[c]) = "standby"
    BY <2>1, InHold DEF At, OutOps
  <2>3. \A d \in Contexts : ~Back(d)
    BY <2>2, Alone DEF CalmInv, Back
  <2>4. resume'[c] /\ \A d \in Contexts \ {c} : resume'[d] = resume[d]
    BY <2>1, <2>3 DEF CalmInv, Receiving, TypeOK
  <2>5. <<"cad">> \in Seq(Ops) /\ Fit(<<"cad">>, resume'[c])
    <3>1. Len(<<"cad">>) = 1 /\ <<"cad">>[1] = "cad"  OBVIOUS
    <3> QED BY <2>4, <3>1 DEF Fit
  <2>6. Back(c)'
    <3>1. todo'[c] = <<"cad">> \o Tail(todo[c])
      BY <2>1 DEF Then, TypeOK
    <3>2. Tail(todo[c]) \in Seq(Ops)
      BY <2>2 DEF TypeOK
    <3> QED BY <3>1, <3>2 DEF Back
  <2> QED BY <2>1, <2>4, <2>5, <2>6, RadioCalm DEF OutOps
<1>13. CASE Cad(c)
  <2>1. /\ At(c, "cad") /\ Restore(c) /\ resume' = [resume EXCEPT ![c] = FALSE]
        /\ UNCHANGED hold
    BY <1>13 DEF Cad, Set
  <2>2. resume[c]
    <3>1. 1 \in 1..Len(todo[c]) /\ todo[c][1] = "cad"
      BY <2>1 DEF At, TypeOK
    <3> QED BY <3>1 DEF CalmInv, Ready
  <2>3. Receiving'
    BY <2>1, <2>2 DEF Restore, StartReceive, Receiving
  <2>4. \A d \in Contexts \ {c} : resume'[d] = resume[d]
    BY <2>1 DEF TypeOK
  <2>5. PICK next \in {<<>>, <<"standby">>, <<"transmit", "listen", "show">>} : Then(c, next)
    BY <1>13 DEF Cad
  <2>6. next \in Seq(Ops) /\ Fit(next, resume'[c])
    <3>1. CASE next = <<"transmit", "listen", "show">>
      <4>1. Len(next) = 3 /\ next[1] = "transmit" /\ next[2] = "listen" /\ next[3] = "show"
            /\ next \in Seq(Ops)
        BY <3>1
      <4> QED BY <4>1 DEF Fit
    <3>2. CASE next \in {<<>>, <<"standby">>}
      BY <3>2
    <3> QED BY <3>1, <3>2
  <2> QED BY <2>1, <2>3, <2>4, <2>5, <2>6, RadioCalm DEF OutOps
<1>14. CASE Transmit(c)
  <2>1. At(c, "transmit") /\ Then(c, <<>>) /\ UNCHANGED <<hold, resume>>
    BY <1>14 DEF Transmit
  <2>2. Back(c)'
    <3>1. todo[c] \in Seq(Ops) /\ 1 \in 1..Len(todo[c]) /\ todo[c][1] = "transmit"
      BY <2>1 DEF At, TypeOK
    <3>2. Len(todo[c]) >= 2 /\ todo[c][2] = "listen"
      BY <3>1 DEF CalmInv, Ready
    <3>3. todo'[c] = Tail(todo[c])
      BY <2>1 DEF Then, TypeOK
    <3>4. Tail(todo[c]) # <<>> /\ Head(Tail(todo[c])) = todo[c][2]
      BY <3>1, <3>2, SecondNext
    <3> QED BY <3>2, <3>3, <3>4 DEF Back
  <2> QED BY <2>1, <2>2, RadioCalm DEF OutOps
<1>15. CASE Listen(c)
  <2>1. PICK op \in {"listen", "settle"} : At(c, op)
    BY <1>15 DEF Listen
  <2>2. Then(c, <<>>) /\ Receiving' /\ UNCHANGED <<hold, resume, pending, watched>>
    BY <1>15 DEF Listen, StartReceive, Receiving
  <2>3. todo[c] # <<>> /\ Running(c) /\ Head(todo[c]) = op
    BY <2>1 DEF At
  <2>4. todo'[c] = Tail(todo[c]) /\ \A d \in Contexts \ {c} : todo'[d] = todo[d]
    BY <2>2 DEF Then, TypeOK
  <2>5. \A d \in Contexts : Ready(d)'
    <3>1. <<>> \in Seq(Ops) /\ Fit(<<>>, resume'[c])
      OBVIOUS
    <3> QED BY <2>2, <2>3, <3>1, ReadyThen DEF CalmInv
  <2>6. Starting'
    <3>1. CASE where[c] # "out"
      <4>1. where' = [where EXCEPT ![c] = where[c]] /\ where[c] \in {"body", "exit", "out"}
        BY <2>2 DEF hold, TypeOK
      <4> QED BY <2>3, <2>4, <3>1, <4>1, Started DEF CalmInv
    <3>2. CASE where[c] = "out"
      <4>1. c = "fg"
        BY <2>3, <3>2 DEF IInv, Shape, Contexts
      <4>2. todo["fg"] \in {<<"listen", "watch">>, <<"watch">>} /\ ~watched /\ ~pending
            /\ todo["cb"] = <<>>
        BY <2>3, <3>2, <4>1 DEF CalmInv, Starting
      <4>3. Tail(<<"listen", "watch">>) = <<"watch">> /\ Tail(<<"watch">>) = <<>>
        OBVIOUS
      <4>4. todo'["fg"] \in {<<"watch">>, <<>>} /\ todo'["cb"] = <<>>
        BY <2>4, <4>1, <4>2, <4>3 DEF Contexts
      <4> QED BY <2>2, <4>2, <4>4 DEF Starting
    <3> QED BY <3>1, <3>2
  <2> QED BY <2>2, <2>5, <2>6 DEF CalmInv
<1>16. CASE Watch(c)
  <2>1. PICK op \in {"watch", "unwatch"} : At(c, op)
    BY <1>16 DEF Watch
  <2>2. Then(c, <<>>) /\ UNCHANGED <<hold, resume, pending, mode, listening>>
    BY <1>16 DEF Watch, chip
  <2>3. todo[c] # <<>> /\ Running(c) /\ Head(todo[c]) = op
    BY <2>1 DEF At
  <2>4. todo'[c] = Tail(todo[c]) /\ \A d \in Contexts \ {c} : todo'[d] = todo[d]
    BY <2>2 DEF Then, TypeOK
  <2>5. \A d \in Contexts : Ready(d)'
    <3>1. <<>> \in Seq(Ops) /\ Fit(<<>>, resume'[c])
      OBVIOUS
    <3> QED BY <2>2, <2>3, <3>1, ReadyThen DEF CalmInv
  <2>6. Starting'
    <3>1. CASE where[c] # "out"
      <4>1. where' = [where EXCEPT ![c] = where[c]] /\ where[c] \in {"body", "exit", "out"}
        BY <2>2 DEF hold, TypeOK
      <4> QED BY <2>3, <2>4, <3>1, <4>1, Started DEF CalmInv
    <3>2. CASE where[c] = "out"
      <4>1. c = "fg"
        BY <2>3, <3>2 DEF IInv, Shape, Contexts
      <4>2. todo["fg"] \in {<<"listen", "watch">>, <<"watch">>}
        BY <2>3, <3>2, <4>1 DEF CalmInv, Starting
      <4>3. Head(<<"listen", "watch">>) = "listen" /\ Tail(<<"watch">>) = <<>>
        OBVIOUS
      <4>4. todo'["fg"] = <<>>
        BY <2>1, <2>3, <2>4, <4>1, <4>2, <4>3
      <4> QED BY <4>4 DEF Starting
    <3> QED BY <3>1, <3>2
  <2>7. Receiving' \/ \E d \in Contexts : Back(d)'
    <3>1. ~Back(c)  BY <2>1, <2>3 DEF Back
    <3> QED BY <2>2, <2>4, <3>1 DEF CalmInv, Receiving, Back
  <2> QED BY <2>2, <2>5, <2>6, <2>7 DEF CalmInv
<1>18. CASE Show(c)
  <2>1. PICK op \in {"show", "glance"} : At(c, op)
    BY <1>18 DEF Show
  <2>2. Plain(op, <<>>)
    BY <1>18, <2>1 DEF Show, chip
  <2> QED BY <2>2, <1>p
<1>17. CASE Sleep(c)
  <2>1. todo[c] \in Seq(Ops) /\ 1 \in 1..Len(todo[c]) /\ todo[c][1] = "sleep"
    BY <1>17 DEF Sleep, At, TypeOK
  <2> QED BY <2>1 DEF CalmInv, Ready
<1> QED BY <1>1, <1>2, <1>3, <1>4, <1>5, <1>6, <1>7, <1>8, <1>9, <1>10, <1>11,
           <1>12, <1>13, <1>14, <1>15, <1>16, <1>17, <1>18 DEF Step

(* Taking a hold moves no receiver.                                        *)
LEMMA EnterCalm ==
  ASSUME IInv, CalmInv, NEW c \in Contexts, NEW call, todo[c] = <<>>,
         Enter(c, Body(call)), UNCHANGED <<mode, listening, resume>>, Starting'
  PROVE  CalmInv'
<1>t. TypeOK
  BY DEF IInv
<1> DEFINE w == Body(call) \o <<"finally">>
<1>1. /\ where' = [where EXCEPT ![c] = "body"] /\ todo' = [todo EXCEPT ![c] = w]
      /\ busy' /\ outer' = [outer EXCEPT ![c] = busy]
  BY DEF Enter, Set
<1>2. \A i \in 1..Len(w) : w[i] \notin {"sleep", "transmit", "cad"}
  <2>1. Body(call) \in {<<"poll">>, <<"guard">>, <<"pump", "service">>,
                         <<"listen", "again", "settle">>, <<"glance">>, <<>>}
    BY DEF Body
  <2> DEFINE b == Body(call)
  <2>2. b \in Seq(Ops) /\ \A i \in 1..Len(b) : b[i] \notin {"sleep", "transmit", "cad"}
    <3> HIDE DEF b
    <3>1. CASE b = <<"poll">>
      <4>1. Len(b) = 1 /\ b[1] = "poll" /\ b \in Seq(Ops)  BY <3>1 DEF Ops
      <4> QED BY <4>1
    <3>5. CASE b = <<"guard">>
      <4>1. Len(b) = 1 /\ b[1] = "guard" /\ b \in Seq(Ops)  BY <3>5 DEF Ops
      <4> QED BY <4>1
    <3>2. CASE b = <<"pump", "service">>
      <4>1. Len(b) = 2 /\ b[1] = "pump" /\ b[2] = "service" /\ b \in Seq(Ops)  BY <3>2 DEF Ops
      <4> QED BY <4>1
    <3>3. CASE b = <<"listen", "again", "settle">>
      <4>1. Len(b) = 3 /\ b[1] = "listen" /\ b[2] = "again" /\ b[3] = "settle" /\ b \in Seq(Ops)
        BY <3>3 DEF Ops
      <4> QED BY <4>1
    <3>6. CASE b = <<"glance">>
      <4>1. Len(b) = 1 /\ b[1] = "glance" /\ b \in Seq(Ops)  BY <3>6 DEF Ops
      <4> QED BY <4>1
    <3>4. CASE b = <<>>
      BY <3>4
    <3> QED BY <2>1, <3>1, <3>2, <3>3, <3>4, <3>5, <3>6 DEF b
  <2>3. <<"finally">> \in Seq(Ops) /\ Len(<<"finally">>) = 1 /\ <<"finally">>[1] = "finally"
    BY DEF Ops
  <2> HIDE DEF b
  <2>4. \A i \in 1..Len(b \o <<"finally">>) :
          (b \o <<"finally">>)[i] \notin {"sleep", "transmit", "cad"}
    BY <2>2, <2>3
  <2> QED BY <2>4 DEF b
<1> HIDE DEF w
<1>3. todo'[c] = w /\ \A d \in Contexts \ {c} : todo'[d] = todo[d]
  BY <1>t, <1>1 DEF TypeOK
<1>4. \A d \in Contexts : Ready(d)'
  <2>1. Ready(c)'
    BY <1>2, <1>3 DEF Ready
  <2>2. ASSUME NEW d \in Contexts \ {c} PROVE Ready(d)'
    BY <1>3 DEF CalmInv, Ready
  <2> QED BY <2>1, <2>2
<1>5. Receiving' \/ \E d \in Contexts : Back(d)'
  <2>1. ~Back(c)  BY DEF Back
  <2> QED BY <1>3, <2>1 DEF CalmInv, Receiving, Back
<1> QED BY <1>4, <1>5 DEF CalmInv

(* Nothing else moves what is yet to do.                                   *)
LEMMA StillCalm ==
  ASSUME CalmInv, UNCHANGED <<hold, todo, resume, watched, mode, listening>>,
         pending' => pending \/ watched
  PROVE  CalmInv'
<1>1. \A c \in Contexts : Ready(c)'
  BY DEF CalmInv, Ready
<1>2. Starting'
  BY DEF CalmInv, Starting, hold
<1> QED BY <1>1, <1>2 DEF CalmInv, Receiving, Back

(* A body nothing can decode unwinds the work and leaves the radio alone.  *)
LEMMA UnreadableCalm ==
  ASSUME IInv, CalmInv, NEW c \in Contexts, Interrupt(c, "unreadable") PROVE CalmInv'
<1>t. TypeOK
  BY DEF IInv
<1>1. /\ Running(c) /\ todo[c] # <<>> /\ todo' = [todo EXCEPT ![c] = Unwound(c)]
      /\ Head(todo[c]) \in {"file", "pump", "guard", "show"}
      /\ where' = [where EXCEPT ![c] = IF where[c] = "body" THEN "body" ELSE "out"]
      /\ resume' = [resume EXCEPT ![c] = FALSE]
      /\ UNCHANGED <<mode, listening>>
  BY DEF Interrupt, Strikes, Set, Cut
<1>2. where[c] # "out"
  BY <1>1, InHold DEF At, OutOps
<1>3. /\ todo'[c] = Unwound(c)
      /\ \A d \in Contexts \ {c} : todo'[d] = todo[d] /\ resume'[d] = resume[d]
  BY <1>t, <1>1 DEF TypeOK
<1>4. \A d \in Contexts : Ready(d)'
  <2>1. Ready(c)'
    <3> DEFINE u == Unwound(c)
    <3>1. u \in {<<>>, <<"settle", "finally">>, <<"finally">>}
      BY DEF Unwound
    <3>2. todo'[c] = u
      BY <1>3
    <3> HIDE DEF u
    <3>3. u \in Seq(Ops) /\ Fit(u, FALSE)
      <4>1. {"settle", "finally"} \subseteq Ops \ {"sleep", "transmit", "cad"}
        BY DEF Ops
      <4> QED BY <3>1, <4>1, FitShort
    <3> QED BY <3>2, <3>3 DEF Ready, Fit
  <2>2. ASSUME NEW d \in Contexts \ {c} PROVE Ready(d)'
    BY <1>3 DEF CalmInv, Ready
  <2> QED BY <2>1, <2>2
<1>5. Starting'
  <2> DEFINE w == IF where[c] = "body" THEN "body" ELSE "out"
  <2>1. w \in {"body", "exit", "out"} /\ where' = [where EXCEPT ![c] = w]
    BY <1>1
  <2>2. w = "out" => todo'[c] = <<>>
    BY <1>3 DEF Unwound
  <2> HIDE DEF w
  <2> QED BY <1>1, <1>2, <1>3, <2>1, <2>2, Started DEF CalmInv
<1>6. Receiving' \/ \E d \in Contexts : Back(d)'
  <2>1. ~Back(c)  BY <1>1 DEF Back
  <2> QED BY <1>1, <1>3, <2>1 DEF CalmInv, Receiving, Back
<1> QED BY <1>4, <1>5, <1>6 DEF CalmInv

(* Holds are taken when nobody has one, and give the flag back as it was,  *)
(* over any exception in a hold's body.                                    *)
Unslipped ==
  \/ \E entry \in Commands : Command(entry)
  \/ Loop \/ Stop \/ Collect_ \/ Land \/ Garble
  \/ \E c \in Contexts : Step(c) \/ CollectFails(c) \/ BusyFails(c)
  \/ \E c \in Contexts, kind \in Exceptions : Interrupt(c, kind) /\ where[c] # "exit"

LEMMA NextHeld == IInv /\ HeldInv /\ Unslipped => HeldInv'
<1> SUFFICES ASSUME IInv, HeldInv, Unslipped PROVE HeldInv'
  OBVIOUS
<1>t. TypeOK
  BY DEF IInv
<1> USE DEF HeldInv
<1>u. CASE UNCHANGED hold
  BY <1>u DEF Outermost, Flagged, hold
<1>e. ASSUME NEW c \in Contexts, NEW body, Enter(c, body), ~busy PROVE HeldInv'
  <2>1. /\ where' = [where EXCEPT ![c] = "body"]
        /\ busy' = TRUE /\ outer' = [outer EXCEPT ![c] = busy]
    BY <1>e DEF Enter, Set
  <2>2. \A d \in Contexts : where[d] = "out"
    BY <1>e DEF Flagged
  <2> QED BY <1>t, <1>e, <2>1, <2>2 DEF Outermost, Flagged, TypeOK
<1>i. ASSUME Idle PROVE ~busy
  <2>1. \A d \in Contexts : where[d] = "out"
    BY <1>i, IdleIsOut DEF Idle, Running, Contexts
  <2> QED BY <2>1 DEF Flagged
<1>1. ASSUME NEW entry \in Commands, Command(entry) PROVE HeldInv'
  BY <1>1, <1>e, <1>i DEF Command, AtPrompt, Contexts
<1>2. CASE Turn
  BY <1>2, <1>e, <1>i DEF Turn, Contexts
<1>3. CASE LastSave
  BY <1>3, <1>e, <1>i DEF LastSave, Contexts
<1>4. CASE Collect_
  BY <1>4, <1>u, <1>e DEF Collect_, Contexts
<1>5. ASSUME NEW c \in Contexts, Finally(c) PROVE HeldInv'
  <2>1. where[c] # "out" /\ where' = [where EXCEPT ![c] = "exit"] /\ UNCHANGED <<busy, outer>>
    BY <1>5, InHold DEF Finally, Set, OutOps
  <2> QED BY <1>t, <2>1 DEF Outermost, Flagged, TypeOK
<1>6. ASSUME NEW c \in Contexts, Free(c) PROVE HeldInv'
  <2>1. /\ where[c] # "out" /\ where' = [where EXCEPT ![c] = "out"]
        /\ busy' = outer[c] /\ outer' = [outer EXCEPT ![c] = FALSE]
    BY <1>6, InHold DEF Free, Set, OutOps
  <2>2. \A d \in Contexts : where'[d] = "out"
    BY <1>t, <2>1 DEF TypeOK, IInv, HoldExcludes, Contexts
  <2>3. ~busy'
    BY <2>1 DEF Outermost
  <2> QED BY <2>2, <2>3 DEF Outermost, Flagged
<1>7. ASSUME NEW c \in Contexts, NEW kind \in Exceptions, Interrupt(c, kind), where[c] # "exit"
      PROVE  HeldInv'
  <2>1. /\ where' = [where EXCEPT ![c] = IF where[c] = "body" THEN "body" ELSE "out"]
        /\ outer' = IF where[c] = "body" THEN outer ELSE [outer EXCEPT ![c] = FALSE]
        /\ busy' = busy /\ where[c] # "exit"
    BY <1>7 DEF Interrupt, Set
  <2>2. where[c] \in {"out", "body"}
    BY <1>t, <2>1 DEF TypeOK
  <2>3. \A d \in Contexts : where'[d] = where[d]
    BY <1>t, <2>1, <2>2 DEF TypeOK
  <2>4. \A d \in Contexts : where[d] # "out" => outer'[d] = outer[d]
    BY <1>t, <2>1, <2>2 DEF TypeOK
  <2> QED BY <2>1, <2>3, <2>4 DEF Outermost, Flagged
<1>8. ASSUME NEW c \in Contexts, Step(c), ~Finally(c), ~Free(c) PROVE UNCHANGED hold
  BY <1>8 DEF Step, Poll, Service, Pump, Again, Collect, Read, File, Rearm, Guard, Standby,
              Cad, Transmit, Listen, Show, Watch, Sleep
<1>9. ASSUME NEW c \in Contexts, CollectFails(c) \/ BusyFails(c) PROVE UNCHANGED hold
  BY <1>9 DEF CollectFails, BusyFails
<1>10. CASE Serve \/ TimeUp \/ Stop \/ Land \/ Garble
  BY <1>10, <1>u DEF Serve, TimeUp, Stop, Land, Garble
<1> QED BY <1>1, <1>2, <1>3, <1>4, <1>5, <1>6, <1>7, <1>8, <1>9, <1>10, <1>u
       DEF Unslipped, Loop

CalmIInv ==
  /\ IInv
  /\ ~slipped => HeldInv
  /\ calm => CalmInv

LEMMA InitCalm == CalmInit => CalmIInv
<1> SUFFICES ASSUME CalmInit PROVE CalmIInv
  OBVIOUS
<1>1. Init
  BY DEF CalmInit
<1>2. todo["fg"] = <<"listen", "watch">> /\ todo["cb"] = <<>>
  BY <1>1 DEF Init, Contexts
<1>3. \A c \in Contexts : Ready(c)
  <2>1. Ready("fg")
    <3>1. Len(todo["fg"]) = 2 /\ todo["fg"][1] = "listen" /\ todo["fg"][2] = "watch"
      BY <1>2
    <3> QED BY <3>1 DEF Ready
  <2>2. Ready("cb")
    BY <1>2 DEF Ready
  <2> QED BY <2>1, <2>2 DEF Contexts
<1>4. Starting
  BY <1>1, <1>2 DEF Init, Starting
<1>5. Back("fg")
  BY <1>2 DEF Back
<1>6. Outermost /\ Flagged
  BY <1>1 DEF Init, Outermost, Flagged
<1> QED BY <1>1, <1>3, <1>4, <1>5, <1>6, InitIInv DEF CalmIInv, CalmInv, HeldInv, Contexts

LEMMA NextCalm == CalmIInv /\ [CalmNext]_<<vars, slipped, calm>> => CalmIInv'
<1> SUFFICES ASSUME CalmIInv, [CalmNext]_<<vars, slipped, calm>> PROVE CalmIInv'
  OBVIOUS
<1>1. [Next]_vars
  BY DEF CalmNext, Next, Exceptions
<1>2. IInv /\ IInv'
  BY <1>1, NextIInv DEF CalmIInv
<1>3. CASE UNCHANGED <<vars, slipped, calm>>
  <2>1. calm => CalmInv'
    BY <1>3, StillCalm DEF vars, CalmIInv, hold
  <2>2. ~slipped => HeldInv'
    BY <1>3 DEF vars, CalmIInv, HeldInv, Outermost, Flagged
  <2> QED BY <1>2, <1>3, <2>1, <2>2 DEF CalmIInv
<1>4. CASE CalmNext
  <2>1. ASSUME ~slipped' PROVE HeldInv'
    <3>1. ~slipped /\ Unslipped
      <4>1. CASE \E c \in Contexts, kind \in Exceptions :
                   /\ Interrupt(c, kind)
                   /\ slipped' = (slipped \/ where[c] = "exit")
        <5>1. PICK c \in Contexts, kind \in Exceptions :
                     Interrupt(c, kind) /\ slipped' = (slipped \/ where[c] = "exit")
          BY <4>1
        <5>2. ~slipped /\ where[c] # "exit"
          BY <2>1, <5>1, Zenon
        <5> QED BY <5>1, <5>2 DEF Unslipped
      <4>2. CASE /\ \/ \E entry \in Commands : Command(entry)
                    \/ Loop \/ Stop \/ Collect_ \/ Land \/ Garble
                    \/ \E c \in Contexts : Step(c) \/ CollectFails(c) \/ BusyFails(c)
                 /\ slipped' = slipped
        BY <2>1, <4>2 DEF Unslipped
      <4> QED BY <1>4, <4>1, <4>2 DEF CalmNext
    <3> QED BY <1>2, <3>1, NextHeld DEF CalmIInv
  <2>2. ASSUME calm' PROVE CalmInv'
    <3>1. calm /\ CalmInv
      BY <1>4, <2>2 DEF CalmNext, CalmIInv
    <3>2. ASSUME NEW c \in Contexts, NEW call, todo[c] = <<>>, Enter(c, Body(call)),
                 UNCHANGED <<mode, listening, resume>>, c = "fg" \/ Starting'
          PROVE  CalmInv'
      <4>1. CASE c = "fg"
        <5>1. where'["fg"] = "body"
          BY <1>2, <3>2, <4>1 DEF Enter, Set, IInv, TypeOK, Contexts
        <5> QED BY <1>2, <3>1, <3>2, <5>1, EnterCalm DEF Starting
      <4> QED BY <1>2, <3>1, <3>2, <4>1, EnterCalm
    <3>3. CASE \E entry \in Commands : Command(entry)
      BY <3>2, <3>3 DEF Command, AtPrompt, Idle, chip, Contexts
    <3>4. CASE Turn
      BY <3>2, <3>4 DEF Turn, Idle, chip, Contexts
    <3>5. CASE LastSave
      <4>1. Body("save") = <<>>
        BY DEF Body
      <4> QED BY <3>2, <3>5, <4>1 DEF LastSave, Idle, chip, Contexts
    <3>6. CASE Serve \/ TimeUp
      <4>1. UNCHANGED <<hold, todo, resume, watched, mode, listening, pending>>
        BY <3>6 DEF Serve, TimeUp, chip
      <4> QED BY <3>1, <4>1, StillCalm
    <3>7. CASE Collect_
      <4>1. /\ pending /\ todo["cb"] = <<>> /\ ~pending'
            /\ UNCHANGED <<mode, listening, resume, watched>>
        BY <3>7 DEF Collect_, chip
      <4>2. CASE UNCHANGED <<hold, todo>>
        BY <3>1, <4>1, <4>2, StillCalm
      <4>3. CASE Enter("cb", Body("poll"))
        <5>1. where'["fg"] = where["fg"] /\ todo'["fg"] = todo["fg"]
          BY <1>2, <4>3 DEF Enter, Set, IInv, TypeOK, Contexts
        <5>2. Starting'
          BY <3>1, <4>1, <5>1 DEF CalmInv, Starting
        <5> QED BY <3>2, <4>1, <4>3, <5>2 DEF Contexts
      <4> QED BY <3>7, <4>2, <4>3 DEF Collect_
    <3>8. ASSUME NEW c \in Contexts, Step(c) PROVE CalmInv'
      BY <1>2, <3>1, <3>8, StepCalm
    <3>9. ASSUME NEW c \in Contexts, CollectFails(c) PROVE CalmInv'
      <4>1. PICK op \in {"collect", "read"} : At(c, op)
        BY <3>9 DEF CollectFails
      <4>2. <<"rearm", "collect">> \in Seq(Ops) /\ Fit(<<"rearm", "collect">>, resume[c])
        BY FitShort DEF Ops
      <4>3. Then(c, <<"rearm", "collect">>) /\ UNCHANGED <<hold, mode, listening, resume>>
        BY <3>9 DEF CollectFails
      <4> QED BY <1>2, <3>1, <4>1, <4>2, <4>3, PlainCalm
    <3>10. CASE Land \/ Garble
      <4>1. /\ UNCHANGED <<hold, todo, resume, watched, mode, listening>>
            /\ pending' => pending \/ watched
        BY <3>10 DEF Land, Garble, Edge
      <4> QED BY <3>1, <4>1, StillCalm
    <3>11. ASSUME NEW c \in Contexts, Interrupt(c, "unreadable") PROVE CalmInv'
      BY <1>2, <3>1, <3>11, UnreadableCalm
    <3> QED BY <1>4, <2>2, <3>3, <3>4, <3>5, <3>6, <3>7, <3>8, <3>9, <3>10, <3>11
            DEF CalmNext, Loop
  <2> QED BY <1>2, <2>1, <2>2 DEF CalmIInv
<1> QED BY <1>3, <1>4

(* The flag is up exactly while somebody holds the radio, until an exception *)
(* leaves a hold's own finally clause.                                       *)
THEOREM FlagIsTrue == CalmSpec => []BusyMeansHeld
<1>1. CalmIInv => BusyMeansHeld
  BY DEF CalmIInv, HeldInv, Flagged, BusyMeansHeld
<1> QED BY InitCalm, NextCalm, <1>1, PTL DEF CalmSpec

(* Until ctrl-C, a failed driver call or stop(), a node with nothing to run  *)
(* is in receive, and knows it: a CAD restores it, a transmission is         *)
(* followed by listen, and a body nothing can decode leaves it alone.        *)
THEOREM RestIsReceive == CalmSpec => []RestsReceiving
<1>1. CalmIInv => RestsReceiving
  BY DEF CalmIInv, CalmInv, Receiving, Back, AtRest, RestsReceiving
<1> QED BY InitCalm, NextCalm, <1>1, PTL DEF CalmSpec

=============================================================================
