--------------------------- MODULE PhoneLink_proofs ---------------------------
(* The phone's session over BLE, for queues and buffers of any length and    *)
(* any ids, whenever clients come and go.                                    *)
EXTENDS PhoneLink, SequenceTheorems, TLAPS

(* A client connects only while the last one's departure has been noticed,  *)
(* and then finds what that one wrote only in a pump still going on.        *)
Noticed ==
  advertising => ~link /\ ~connected /\ (step # "drain" => inbox = <<>>)

OwnWrites ==
  link /\ (connected \/ step # "drain") => \A i \in 1..Len(inbox) : inbox[i].mine

OwnReply == connected /\ link => \A i \in 1..Len(reply) : reply[i].mine

(* A dump being told ends with its id, and nothing before that is one.      *)
Replying ==
  /\ reply # <<>> => step = "drain"
  /\ ends # NoId => reply # <<>> /\ reply[Len(reply)].what = ends
  /\ \A i \in 1..Len(reply) : /\ reply[i].what # "packet"
                              /\ reply[i].what \in Ids => i = Len(reply) /\ ends # NoId

(* What is still to be told of it, or was told since the last one ended.    *)
Telling ==
  connected /\ link /\ ends # NoId =>
    \A p \in Needs(ends) :
      \/ \E i \in 1..Len(reply) - 1 : reply[i].what = p
      \/ p \in Before(Len(queue) + 1)

(* An id is remembered once its end is in the queue.                        *)
Remembered ==
  connected /\ link /\ ~told /\ config_id # NoId =>
    \E j \in 1..Len(queue) : queue[j].what \in Ids

(* Time without anything to read is no more than time without a word.       *)
Hungry ==
  /\ queue # <<>> => starved = 0
  /\ link /\ ~connected => starved = 0
  /\ connected /\ link => starved <= quiet
  /\ pumped => step = "out" /\ (config_id # NoId => quiet < Keepalive)

SideInv == Noticed /\ OwnWrites /\ OwnReply /\ OwnQueue /\ Replying /\ Hungry

QueueInv == Telling /\ DumpWhole /\ Remembered /\ DumpFirst

IInv == TypeOK /\ SideInv /\ QueueInv

-----------------------------------------------------------------------------
(* Sequences.                                                               *)
LEMMA DisownedIs ==
  ASSUME NEW S, NEW s \in Seq([what : S, mine : BOOLEAN])
  PROVE  /\ Disowned(s) \in Seq([what : S, mine : BOOLEAN])
         /\ Len(Disowned(s)) = Len(s)
         /\ \A i \in 1..Len(s) : Disowned(s)[i].what = s[i].what
<1>1. DOMAIN s = 1..Len(s) /\ Len(s) \in Nat
  OBVIOUS
<1>2. \A i \in 1..Len(s) : [s[i] EXCEPT !.mine = FALSE] \in [what : S, mine : BOOLEAN]
                           /\ [s[i] EXCEPT !.mine = FALSE].what = s[i].what
  <2>1. \A r \in [what : S, mine : BOOLEAN] :
          [r EXCEPT !.mine = FALSE] \in [what : S, mine : BOOLEAN]
          /\ [r EXCEPT !.mine = FALSE].what = r.what
    OBVIOUS
  <2>2. \A i \in 1..Len(s) : s[i] \in [what : S, mine : BOOLEAN]
    BY ElementOfSeq
  <2> QED BY <2>1, <2>2
<1>3. Disowned(s) = [i \in 1..Len(s) |-> [s[i] EXCEPT !.mine = FALSE]]
  BY <1>1 DEF Disowned
<1>4. Disowned(s) \in [1..Len(s) -> [what : S, mine : BOOLEAN]]
  BY <1>2, <1>3
<1>5. Disowned(s) \in Seq([what : S, mine : BOOLEAN]) /\ Len(Disowned(s)) = Len(s)
  BY <1>1, <1>4, SeqDef
<1> QED BY <1>2, <1>3, <1>5

\* Messages made of whats, for one client.
LEMMA MadeFor ==
  ASSUME NEW s \in Seq(Whats), NEW who \in BOOLEAN
  PROVE  LET ms == [i \in DOMAIN s |-> [what |-> s[i], mine |-> who]]
         IN /\ ms \in Seq(Message)
            /\ Len(ms) = Len(s)
            /\ \A i \in 1..Len(s) : ms[i].what = s[i] /\ ms[i].mine = who
<1> DEFINE ms == [i \in DOMAIN s |-> [what |-> s[i], mine |-> who]]
<1>1. DOMAIN s = 1..Len(s) /\ Len(s) \in Nat
  OBVIOUS
<1>2. \A i \in 1..Len(s) : [what |-> s[i], mine |-> who] \in Message
  BY DEF Message
<1>3. ms = [i \in 1..Len(s) |-> [what |-> s[i], mine |-> who]]
  BY <1>1
<1>4. ms \in [1..Len(s) -> Message]
  BY <1>2, <1>3
<1>5. ms \in Seq(Message) /\ Len(ms) = Len(s)
  BY <1>1, <1>4, SeqDef
<1> QED BY <1>3, <1>5

\* One more message at the end, one less at the front.
LEMMA Appended ==
  ASSUME NEW S, NEW s \in Seq(S), NEW m \in S
  PROVE  /\ Append(s, m) \in Seq(S) /\ Len(Append(s, m)) = Len(s) + 1
         /\ \A i \in 1..Len(s) : Append(s, m)[i] = s[i]
         /\ Append(s, m)[Len(s) + 1] = m
         /\ Append(s, m) # <<>>
OBVIOUS

LEMMA Popped ==
  ASSUME NEW S, NEW s \in Seq(S), s # <<>>
  PROVE  /\ Len(s) \in Nat \ {0} /\ Head(s) = s[1] /\ Head(s) \in S
         /\ Tail(s) \in Seq(S) /\ Len(Tail(s)) = Len(s) - 1
         /\ \A i \in 1..Len(s) - 1 : Tail(s)[i] = s[i + 1]
OBVIOUS

LEMMA OneMore ==
  ASSUME NEW s \in Seq(Message), NEW what \in Whats, link \in BOOLEAN
  PROVE  s \o For(<<what>>) = Append(s, [what |-> what, mine |-> link])
<1>1. For(<<what>>) = <<[what |-> what, mine |-> link]>>
  BY DEF For
<1>2. [what |-> what, mine |-> link] \in Message
  BY DEF Message
<1> QED BY <1>1, <1>2, AppendIsConcat

LEMMA NoneMore == \A s \in Seq(Message) : s \o <<>> = s
OBVIOUS

-----------------------------------------------------------------------------
(* Dumps.                                                                   *)
LEMMA NamesApart ==
  /\ "device" \notin Ids /\ "roster" \notin Ids /\ "status" \notin Ids /\ "packet" \notin Ids
  /\ "request" \notin Ids /\ "disconnect" \notin Ids
BY PhoneLinkOK DEF PhoneLinkOK

\* A dump is the halves its id asks for, and then the id.
LEMMA DumpIs ==
  ASSUME NEW id \in Ids
  PROVE  /\ Dump(id) \in Seq(Whats) /\ Len(Dump(id)) \in Nat \ {0}
         /\ Dump(id)[Len(Dump(id))] = id
         /\ \A i \in 1..Len(Dump(id)) - 1 : Dump(id)[i] \in {"device", "roster"}
         /\ \A p \in Needs(id) : \E i \in 1..Len(Dump(id)) - 1 : Dump(id)[i] = p
<1> DEFINE one == IF id # NodeNonce THEN <<"device">> ELSE <<>>
           two == IF id # ConfigNonce THEN <<"roster">> ELSE <<>>
           halfs == one \o two
           n1 == IF id # NodeNonce THEN 1 ELSE 0
           n2 == IF id # ConfigNonce THEN 1 ELSE 0
<1>1. one \in Seq(Whats) /\ Len(one) = n1 /\ (id # NodeNonce => one[1] = "device")
  <2>1. CASE id # NodeNonce
    <3>1. one = <<"device">> /\ "device" \in Whats
      BY <2>1 DEF Whats
    <3> QED BY <2>1, <3>1
  <2>2. CASE id = NodeNonce
    BY <2>2
  <2> QED BY <2>1, <2>2
<1>2. two \in Seq(Whats) /\ Len(two) = n2 /\ (id # ConfigNonce => two[1] = "roster")
  <2>1. CASE id # ConfigNonce
    <3>1. two = <<"roster">> /\ "roster" \in Whats
      BY <2>1 DEF Whats
    <3> QED BY <2>1, <3>1
  <2>2. CASE id = ConfigNonce
    BY <2>2
  <2> QED BY <2>1, <2>2
<1>3. <<id>> \in Seq(Whats) /\ Len(<<id>>) = 1 /\ <<id>>[1] = id
  BY DEF Whats
<1>4. Dump(id) = halfs \o <<id>>
  BY DEF Dump
<1> HIDE DEF one, two
<1>5. halfs \in Seq(Whats) /\ Len(halfs) = n1 + n2
      /\ \A i \in 1..n1 + n2 : halfs[i] = IF i <= n1 THEN one[i] ELSE two[i - n1]
  BY <1>1, <1>2, ConcatProperties
<1> HIDE DEF halfs
<1>6. Dump(id) \in Seq(Whats) /\ Len(Dump(id)) = n1 + n2 + 1
      /\ \A i \in 1..n1 + n2 + 1 : Dump(id)[i] = IF i <= n1 + n2 THEN halfs[i] ELSE <<id>>[i - (n1 + n2)]
  <2>1. Len(halfs) + Len(<<id>>) = n1 + n2 + 1
    BY <1>3, <1>5
  <2> QED BY <1>3, <1>4, <1>5, <2>1, ConcatProperties
<1>7. Dump(id)[n1 + n2 + 1] = id
  BY <1>3, <1>6
<1>8. \A i \in 1..n1 + n2 : Dump(id)[i] = IF i <= n1 THEN "device" ELSE "roster"
  BY <1>1, <1>2, <1>5, <1>6
<1>9. \A p \in Needs(id) : \E i \in 1..n1 + n2 : Dump(id)[i] = p
  <2>1. id # NodeNonce => Dump(id)[1] = "device"
    BY <1>8
  <2>2. id # ConfigNonce => Dump(id)[n1 + n2] = "roster"
    BY <1>8
  <2>3. n1 + n2 \in 1..n1 + n2 /\ 1 \in 1..n1 + n2
    BY PhoneLinkOK DEF PhoneLinkOK
  <2> QED BY <2>1, <2>2, <2>3 DEF Needs
<1> QED BY <1>6, <1>7, <1>8, <1>9

LEMMA NeedsHalves == \A id : Needs(id) \subseteq {"device", "roster"}
BY DEF Needs

-----------------------------------------------------------------------------
(* The parts before a place of a queue q, when h was read before it.        *)
Parts(q, h, n) ==
  {q[j].what : j \in {i \in 1..n - 1 : \A k \in i..n - 1 : q[k].what \notin Ids}}
    \cup (IF \A k \in 1..n - 1 : q[k].what \notin Ids THEN h ELSE {})

LEMMA BeforeIs ==
  /\ \A n : Before(n) = Parts(queue, halves, n)
  /\ \A n : Before(n)' = Parts(queue', halves', n)
BY DEF Before, Parts, Open

LEMMA PartOf ==
  ASSUME NEW q, NEW h, NEW n, NEW p
  PROVE  p \in Parts(q, h, n) <=>
           \/ \E j \in 1..n - 1 : q[j].what = p /\ \A k \in j..n - 1 : q[k].what \notin Ids
           \/ p \in h /\ \A k \in 1..n - 1 : q[k].what \notin Ids
BY DEF Parts

LEMMA PartsSame ==
  ASSUME NEW q, NEW r, NEW h, NEW n \in Nat, \A k \in 1..n - 1 : r[k].what = q[k].what
  PROVE  Parts(r, h, n) = Parts(q, h, n)
<1>1. ASSUME NEW p PROVE p \in Parts(r, h, n) <=> p \in Parts(q, h, n)
  BY PartOf
<1> QED BY <1>1

\* One more part.
LEMMA PartsMore ==
  ASSUME NEW q, NEW h, NEW n \in Nat \ {0}, q[n].what \notin Ids
  PROVE  /\ Parts(q, h, n) \subseteq Parts(q, h, n + 1)
         /\ q[n].what \in Parts(q, h, n + 1)
<1>1. \A j \in 1..n : (\A k \in j..n - 1 : q[k].what \notin Ids) => \A k \in j..n : q[k].what \notin Ids
  OBVIOUS
<1>2. ASSUME NEW p \in Parts(q, h, n) PROVE p \in Parts(q, h, n + 1)
  <2>1. CASE \E j \in 1..n - 1 : q[j].what = p /\ \A k \in j..n - 1 : q[k].what \notin Ids
    BY <1>1, <2>1, PartOf
  <2>2. CASE p \in h /\ \A k \in 1..n - 1 : q[k].what \notin Ids
    BY <1>1, <2>2, PartOf
  <2> QED BY <2>1, <2>2, PartOf
<1>3. q[n].what \in Parts(q, h, n + 1)
  <2>1. n \in 1..(n + 1) - 1 /\ \A k \in n..(n + 1) - 1 : q[k].what \notin Ids
    OBVIOUS
  <2> QED BY <2>1, PartOf
<1> QED BY <1>2, <1>3

\* The first place read.
LEMMA PartsRead ==
  ASSUME NEW q, NEW r, NEW h, NEW g, NEW n \in Nat \ {0}, NEW p \in {"device", "roster"},
         \A k \in 1..n - 1 : r[k].what = q[k + 1].what,
         q[1].what \in Ids \/ h \cup ({q[1].what} \cap {"device", "roster"}) \subseteq g,
         p \in Parts(q, h, n + 1)
  PROVE  p \in Parts(r, g, n)
<1>1. CASE \E j \in 1..n : q[j].what = p /\ \A k \in j..n : q[k].what \notin Ids
  <2>1. PICK j \in 1..n : q[j].what = p /\ \A k \in j..n : q[k].what \notin Ids
    BY <1>1
  <2>2. CASE j = 1
    <3>1. q[1].what = p /\ q[1].what \notin Ids
      BY <2>1, <2>2
    <3>2. p \in g
      BY <3>1
    <3>3. \A k \in 1..n - 1 : k + 1 \in 1..n
      OBVIOUS
    <3>4. \A k \in 1..n - 1 : r[k].what \notin Ids
      BY <2>1, <2>2, <3>3
    <3> QED BY <3>2, <3>4, PartOf
  <2>3. CASE j # 1
    <3>1. j - 1 \in 1..n - 1 /\ (j - 1) + 1 = j /\ r[j - 1].what = p
      BY <2>1, <2>3
    <3>2. \A k \in j - 1..n - 1 : r[k].what \notin Ids
      BY <2>1, <2>3
    <3> QED BY <3>1, <3>2, PartOf
  <2> QED BY <2>2, <2>3
<1>2. CASE p \in h /\ \A k \in 1..n : q[k].what \notin Ids
  <2>1. p \in g /\ \A k \in 1..n - 1 : r[k].what \notin Ids
    BY <1>2
  <2> QED BY <2>1, PartOf
<1>3. (n + 1) - 1 = n
  OBVIOUS
<1> QED BY <1>1, <1>2, <1>3, PartOf

-----------------------------------------------------------------------------
(* What a step leaves alone.                                                *)
LEMMA QueueStill ==
  ASSUME QueueInv, UNCHANGED <<link, connected, ends, reply, queue, halves, told, config_id>>
  PROVE  QueueInv'
<1>1. \A n : Before(n)' = Before(n)
  BY DEF Before, Open
<1> QED BY <1>1 DEF QueueInv, Telling, DumpWhole, Remembered, DumpFirst

\* Nothing is said of a queue nobody reads.
LEMMA QueueVoid == ASSUME ~(connected' /\ link') PROVE QueueInv'
BY DEF QueueInv, Telling, DumpWhole, Remembered, DumpFirst

\* One more message changes nothing before it.
LEMMA BeforeKept ==
  ASSUME TypeOK, NEW m \in Message, queue' = Append(queue, m), halves' = halves,
         NEW L \in Nat, L = Len(queue)
  PROVE  /\ L \in Nat /\ Len(queue') = L + 1
         /\ DOMAIN queue' = 1..L + 1 /\ DOMAIN queue = 1..L
         /\ \A j \in 1..L : queue'[j] = queue[j]
         /\ queue'[L + 1] = m
         /\ \A n \in 1..L + 1 : Before(n)' = Before(n)
<1>1. L \in Nat /\ Len(queue') = L + 1 /\ (\A j \in 1..L : queue'[j] = queue[j]) /\ queue'[L + 1] = m
      /\ DOMAIN queue' = 1..L + 1 /\ DOMAIN queue = 1..L
  BY Appended DEF TypeOK
<1> DEFINE q == queue'
<1>2. q = queue'
  OBVIOUS
<1> HIDE DEF q
<1>3. \A n \in 1..L + 1 : Before(n)' = Before(n)
  <2> TAKE n \in 1..L + 1
  <2>1. n \in Nat /\ \A k \in 1..n - 1 : q[k].what = queue[k].what
    BY <1>1, <1>2
  <2>2. Parts(q, halves, n) = Parts(queue, halves, n)
    BY <2>1, PartsSame
  <2> QED BY <1>2, <2>2, BeforeIs
<1> QED BY <1>1, <1>3

\* One more message that no dump ends with.
LEMMA QueueGrows ==
  ASSUME IInv, NEW m \in Message, m.what \notin Ids, queue' = Append(queue, m),
         NEW L \in Nat, L = Len(queue), UNCHANGED <<link, connected, halves, told>>,
         m.what = "packet" /\ connected /\ link /\ ~told => config_id # NoId
  PROVE  /\ DumpWhole' /\ DumpFirst'
         /\ Before(L + 1) \subseteq Before(L + 2)'
         /\ m.what \in Before(L + 2)'
<1>0. halves' = halves /\ TypeOK
  BY DEF IInv
<1>1. L \in Nat /\ Len(queue') = L + 1 /\ (\A j \in 1..L : queue'[j] = queue[j]) /\ queue'[L + 1] = m
      /\ DOMAIN queue' = 1..L + 1 /\ DOMAIN queue = 1..L
  BY <1>0, BeforeKept
<1>2. \A n \in 1..L + 1 : Before(n)' = Before(n)
  BY <1>0, BeforeKept
<1>3. DumpWhole'
  <2> SUFFICES ASSUME connected, link, NEW n \in 1..L + 1, queue'[n].what \in Ids
               PROVE  Needs(queue'[n].what) \subseteq Before(n)'
    BY <1>1 DEF DumpWhole
  <2>1. n \in 1..L /\ queue'[n] = queue[n]
    BY <1>1
  <2> QED BY <1>1, <1>2, <2>1 DEF IInv, QueueInv, DumpWhole
<1>4. DumpFirst'
  <2> SUFFICES ASSUME connected, link, ~told, NEW n \in 1..L + 1, queue'[n].what = "packet"
               PROVE  \E j \in 1..n - 1 : queue'[j].what \in Ids
    BY <1>1 DEF DumpFirst
  <2>1. CASE n = L + 1
    <3>1. \E j \in 1..L : queue[j].what \in Ids
      BY <1>1, <2>1 DEF IInv, QueueInv, Remembered
    <3> QED BY <1>1, <2>1, <3>1
  <2>2. CASE n # L + 1
    <3>1. n \in 1..L /\ queue[n].what = "packet"
      BY <1>1, <2>2
    <3>2. \E j \in 1..n - 1 : queue[j].what \in Ids
      BY <1>1, <3>1 DEF IInv, QueueInv, DumpFirst
    <3> QED BY <1>1, <3>1, <3>2
  <2> QED BY <2>1, <2>2
<1>5. Before(L + 1) \subseteq Before(L + 2)' /\ m.what \in Before(L + 2)'
  <2> DEFINE q == queue'
  <2>0. L + 1 \in Nat \ {0} /\ q[L + 1].what = m.what /\ m.what \notin Ids /\ q = queue'
    BY <1>1
  <2> HIDE DEF q
  <2>1. Parts(q, halves, L + 1) \subseteq Parts(q, halves, (L + 1) + 1)
        /\ m.what \in Parts(q, halves, (L + 1) + 1)
    <3> DEFINE n == L + 1
    <3> HIDE DEF n
    <3>1. n \in Nat \ {0} /\ q[n].what \notin Ids /\ q[n].what = m.what
      BY <2>0 DEF n
    <3>2. Parts(q, halves, n) \subseteq Parts(q, halves, n + 1) /\ q[n].what \in Parts(q, halves, n + 1)
      BY <3>1, PartsMore
    <3> QED BY <3>1, <3>2 DEF n
  <2>2. (L + 1) + 1 = L + 2 /\ L + 1 \in 1..L + 1
    BY <1>1
  <2>3. Before(L + 1) = Parts(q, halves, L + 1) /\ Before(L + 2)' = Parts(q, halves, L + 2)
    BY <1>0, <1>2, <2>0, <2>2, BeforeIs
  <2> QED BY <2>1, <2>2, <2>3
<1> QED BY <1>1, <1>3, <1>4, <1>5

\* The end of a dump that has been told whole.
LEMMA QueueEnds ==
  ASSUME IInv, NEW m \in Message, m.what \in Ids, queue' = Append(queue, m),
         NEW L \in Nat, L = Len(queue), UNCHANGED <<link, connected, halves, told>>,
         connected /\ link => Needs(m.what) \subseteq Before(L + 1), ends' = NoId
  PROVE  QueueInv'
<1>0. halves' = halves /\ TypeOK
  BY DEF IInv
<1>1. L \in Nat /\ Len(queue') = L + 1 /\ (\A j \in 1..L : queue'[j] = queue[j]) /\ queue'[L + 1] = m
      /\ DOMAIN queue' = 1..L + 1 /\ DOMAIN queue = 1..L
  BY <1>0, BeforeKept
<1>2. \A n \in 1..L + 1 : Before(n)' = Before(n)
  BY <1>0, BeforeKept
<1>3. DumpWhole'
  <2> SUFFICES ASSUME connected, link, NEW n \in 1..L + 1, queue'[n].what \in Ids
               PROVE  Needs(queue'[n].what) \subseteq Before(n)'
    BY <1>1 DEF DumpWhole
  <2>1. CASE n = L + 1
    BY <1>1, <1>2, <2>1
  <2>2. CASE n # L + 1
    <3>1. n \in 1..L /\ queue'[n] = queue[n]
      BY <1>1, <2>2
    <3> QED BY <1>1, <1>2, <3>1 DEF IInv, QueueInv, DumpWhole
  <2> QED BY <2>1, <2>2
<1>4. DumpFirst'
  <2> SUFFICES ASSUME connected, link, ~told, NEW n \in 1..L + 1, queue'[n].what = "packet"
               PROVE  \E j \in 1..n - 1 : queue'[j].what \in Ids
    BY <1>1 DEF DumpFirst
  <2>1. n \in 1..L /\ queue[n].what = "packet"
    BY <1>1, NamesApart
  <2>2. \E j \in 1..n - 1 : queue[j].what \in Ids
    BY <1>1, <2>1 DEF IInv, QueueInv, DumpFirst
  <2> QED BY <1>1, <2>1, <2>2
<1>5. Remembered'
  <2>1. L + 1 \in 1..Len(queue') /\ queue'[L + 1].what \in Ids
    BY <1>1
  <2> QED BY <2>1 DEF Remembered
<1>6. Telling'
  BY DEF Telling
<1> QED BY <1>3, <1>4, <1>5, <1>6 DEF QueueInv

-----------------------------------------------------------------------------
(* The SoftDevice and the app.                                              *)
LEMMA InitInv == Init => IInv
<1> SUFFICES ASSUME Init PROVE IInv
  OBVIOUS
<1>1. TypeOK
  <2>1. 0 \in 0..Keepalive /\ 0 <= QueueLen /\ 0 <= InboxLen
    BY PhoneLinkOK DEF PhoneLinkOK
  <2>2. queue \in Seq(Message) /\ Len(queue) <= QueueLen /\ reply \in Seq(Message)
        /\ inbox \in Seq([what : Writes, mine : BOOLEAN]) /\ Len(inbox) <= InboxLen
    BY <2>1 DEF Init
  <2> QED BY <2>1, <2>2 DEF Init, TypeOK
<1>2. SideInv
  BY DEF Init, SideInv, Noticed, OwnWrites, OwnReply, OwnQueue, Replying, Hungry
<1>3. QueueInv
  BY DEF Init, QueueInv, Telling, DumpWhole, Remembered, DumpFirst
<1> QED BY <1>1, <1>2, <1>3 DEF IInv

LEMMA ConnectInv == ASSUME IInv, Connect PROVE IInv'
<1>1. TypeOK /\ SideInv /\ ~connected /\ ~connected'
  BY DEF IInv, Connect, SideInv, Noticed, phone
<1>2. TypeOK'
  BY <1>1 DEF Connect, TypeOK, phone, call
<1>3. SideInv'
  <2>1. Noticed' /\ OwnWrites' /\ OwnReply' /\ OwnQueue'
    BY <1>1 DEF Connect, SideInv, Noticed, OwnWrites, OwnReply, OwnQueue, phone, call
  <2>2. Replying' /\ Hungry'
    BY <1>1 DEF Connect, SideInv, Replying, Hungry, phone, call
  <2> QED BY <2>1, <2>2 DEF SideInv
<1> QED BY <1>1, <1>2, <1>3, QueueVoid DEF IInv

LEMMA DisconnectInv == ASSUME IInv, Disconnect PROVE IInv'
<1>1. TypeOK /\ SideInv /\ link /\ ~link'
  BY DEF IInv, Disconnect
<1>2. /\ queue' \in Seq(Message) /\ Len(queue') = Len(queue)
      /\ inbox' \in Seq([what : Writes, mine : BOOLEAN]) /\ Len(inbox') = Len(inbox)
      /\ reply' \in Seq(Message) /\ Len(reply') = Len(reply)
      /\ \A i \in 1..Len(reply) : reply'[i].what = reply[i].what
  BY <1>1, DisownedIs DEF Disconnect, TypeOK, Message
<1>3. TypeOK'
  BY <1>1, <1>2 DEF Disconnect, TypeOK, phone
<1>4. (reply' # <<>> <=> reply # <<>>) /\ (queue' # <<>> <=> queue # <<>>)
  BY <1>1, <1>2, EmptySeq DEF TypeOK
<1>5. Noticed' /\ OwnWrites' /\ OwnReply' /\ OwnQueue'
  BY <1>1 DEF Disconnect, SideInv, Noticed, OwnWrites, OwnReply, OwnQueue, phone
<1>6. Replying'
  <2>1. reply # <<>> => Len(reply) \in 1..Len(reply)
    BY <1>1 DEF TypeOK
  <2>2. ends' = ends /\ step' = step
    BY DEF Disconnect
  <2> QED BY <1>1, <1>2, <1>4, <2>1, <2>2 DEF SideInv, Replying
<1>7. Hungry'
  BY <1>1, <1>4 DEF Disconnect, SideInv, Hungry, phone
<1> QED BY <1>1, <1>3, <1>5, <1>6, <1>7, QueueVoid DEF IInv, SideInv

LEMMA WriteInv == ASSUME IInv, NEW w \in Writes, Write(w) PROVE IInv'
<1>1. TypeOK /\ SideInv /\ QueueInv /\ link
  BY DEF IInv, Write
<1> DEFINE m == [what |-> w, mine |-> TRUE]
<1>2. /\ inbox' \in Seq([what : Writes, mine : BOOLEAN]) /\ Len(inbox') = Len(inbox) + 1
      /\ \A i \in 1..Len(inbox) : inbox'[i] = inbox[i]
      /\ inbox'[Len(inbox) + 1] = m /\ Len(inbox) \in Nat
  <2>1. inbox \in Seq([what : Writes, mine : BOOLEAN]) /\ m \in [what : Writes, mine : BOOLEAN]
    BY <1>1 DEF TypeOK
  <2>2. inbox' = Append(inbox, m)
    BY DEF Write
  <2> HIDE DEF m
  <2> QED BY <2>1, <2>2, Appended
<1>3. TypeOK'
  BY <1>1, <1>2, PhoneLinkOK DEF Write, TypeOK, phone, call, PhoneLinkOK
<1>4. OwnWrites'
  BY <1>1, <1>2 DEF Write, SideInv, OwnWrites, phone, call
<1>5. Noticed' /\ OwnReply' /\ OwnQueue' /\ Replying' /\ Hungry'
  BY <1>1 DEF Write, SideInv, Noticed, OwnReply, OwnQueue, Replying, Hungry, phone, call
<1>6. QueueInv'
  BY <1>1, QueueStill DEF Write, phone, call
<1> QED BY <1>3, <1>4, <1>5, <1>6 DEF IInv, SideInv

\* The message at the front read by the client it was made for.
LEMMA QueueRead ==
  ASSUME IInv, ReadOne, queue # <<>>, connected, link
  PROVE  QueueInv'
<1> DEFINE m == Head(queue)
           q == queue'
           h == halves'
<1>1. PICK L \in Nat \ {0} : L = Len(queue)
  BY Popped DEF IInv, TypeOK
<1>2. /\ m = queue[1] /\ Len(q) = L - 1
      /\ \A k \in 1..L - 1 : q[k] = queue[k + 1]
      /\ DOMAIN queue = 1..L /\ DOMAIN q = 1..L - 1
  <2>1. queue \in Seq(Message) /\ q = Tail(queue)
    BY DEF IInv, TypeOK, ReadOne
  <2> QED BY <1>1, <2>1, Popped
<1>3. m.mine
  BY <1>1, <1>2 DEF IInv, SideInv, OwnQueue
<1>4. /\ m.what \in Ids \/ halves \cup ({m.what} \cap {"device", "roster"}) \subseteq h
      /\ told' = (told \/ m.what \in Ids)
  BY <1>3 DEF ReadOne
<1>5. /\ link' = link /\ connected' = connected /\ ends' = ends /\ reply' = reply
      /\ config_id' = config_id /\ q = queue' /\ h = halves'
  BY DEF ReadOne, phone, call
<1> HIDE DEF m, q, h
<1>6. ASSUME NEW n \in 1..L, NEW p \in {"device", "roster"}, p \in Before(n + 1)
      PROVE  p \in Before(n)'
  <2>1. p \in Parts(queue, halves, n + 1)
    BY <1>6, BeforeIs
  <2>2. n \in Nat \ {0} /\ \A k \in 1..n - 1 : q[k].what = queue[k + 1].what
    BY <1>2
  <2>3. queue[1].what \in Ids \/ halves \cup ({queue[1].what} \cap {"device", "roster"}) \subseteq h
    BY <1>2, <1>4
  <2>4. p \in Parts(q, h, n)
    BY <1>6, <2>1, <2>2, <2>3, PartsRead
  <2> QED BY <1>5, <2>4, BeforeIs
<1>7. DumpWhole'
  <2> SUFFICES ASSUME NEW n \in 1..L - 1, q[n].what \in Ids, NEW p \in Needs(q[n].what)
               PROVE  p \in Before(n)'
    BY <1>2, <1>5 DEF DumpWhole
  <2>1. n + 1 \in 1..L /\ q[n] = queue[n + 1] /\ n \in 1..L
    BY <1>2
  <2>2. p \in Before(n + 1)
    BY <1>2, <2>1 DEF IInv, QueueInv, DumpWhole
  <2> QED BY <1>6, <2>1, <2>2, NeedsHalves
<1>8. Telling'
  <2> SUFFICES ASSUME ends # NoId, NEW p \in Needs(ends), ~(\E i \in 1..Len(reply) - 1 : reply[i].what = p)
               PROVE  p \in Before(L)'
    <3>1. Len(queue') + 1 = L
      BY <1>2, <1>5
    <3> QED BY <1>5, <3>1 DEF Telling
  <2>1. p \in Before(L + 1) /\ L \in 1..L
    BY <1>1 DEF IInv, QueueInv, Telling
  <2> QED BY <1>6, <2>1, NeedsHalves
<1>9. ASSUME NEW j \in 1..L, queue[j].what \in Ids, ~told'
      PROVE  j - 1 \in 1..L - 1 /\ q[j - 1].what \in Ids
  <2>1. j # 1
    BY <1>2, <1>4, <1>9
  <2> QED BY <1>2, <1>9, <2>1
<1>10. Remembered'
  <2> SUFFICES ASSUME ~told', config_id # NoId PROVE \E j \in 1..L - 1 : q[j].what \in Ids
    BY <1>2, <1>5 DEF Remembered
  <2>1. PICK j \in 1..L : queue[j].what \in Ids
    BY <1>1, <1>4 DEF IInv, QueueInv, Remembered
  <2> QED BY <1>9, <2>1
<1>11. DumpFirst'
  <2> SUFFICES ASSUME ~told', NEW n \in 1..L - 1, q[n].what = "packet"
               PROVE  \E j \in 1..n - 1 : q[j].what \in Ids
    BY <1>2, <1>5 DEF DumpFirst
  <2>1. n + 1 \in 1..L /\ queue[n + 1].what = "packet"
    BY <1>2
  <2>2. PICK j \in 1..(n + 1) - 1 : queue[j].what \in Ids
    BY <1>2, <1>4, <2>1 DEF IInv, QueueInv, DumpFirst
  <2>3. j \in 1..L /\ j - 1 \in 1..L - 1 /\ q[j - 1].what \in Ids
    BY <1>9, <2>2
  <2> QED BY <2>2, <2>3
<1> QED BY <1>7, <1>8, <1>10, <1>11 DEF QueueInv

LEMMA ReadOneInv == ASSUME IInv, ReadOne PROVE IInv'
<1>1. TypeOK /\ SideInv /\ QueueInv /\ link
  BY DEF IInv, ReadOne
<1>2. CASE queue = <<>>
  <2>1. reading' = FALSE /\ UNCHANGED <<queue, waiting, halves, told, link, advertising, inbox, phone, call, starved>>
    BY <1>2 DEF ReadOne
  <2>2. TypeOK'
    BY <1>1, <2>1 DEF TypeOK, phone, call
  <2>3. SideInv'
    BY <1>1, <2>1 DEF SideInv, Noticed, OwnWrites, OwnReply, OwnQueue, Replying, Hungry, phone, call
  <2>4. QueueInv'
    BY <1>1, <2>1, QueueStill DEF phone, call
  <2> QED BY <2>2, <2>3, <2>4 DEF IInv
<1>3. CASE queue # <<>>
  <2>1. /\ queue' = Tail(queue) /\ waiting' = FALSE /\ reading' = reading
        /\ halves' = (IF ~Head(queue).mine THEN halves
                      ELSE IF Head(queue).what \in Ids THEN {}
                      ELSE halves \cup ({Head(queue).what} \cap {"device", "roster"}))
        /\ told' = (told \/ (Head(queue).mine /\ Head(queue).what \in Ids))
        /\ UNCHANGED <<link, advertising, inbox, phone, call, starved>>
    BY <1>3 DEF ReadOne
  <2>2. /\ Len(queue) \in Nat \ {0} /\ queue' \in Seq(Message) /\ Len(queue') = Len(queue) - 1
        /\ \A i \in 1..Len(queue) - 1 : queue'[i] = queue[i + 1]
    BY <1>1, <1>3, <2>1, Popped DEF TypeOK
  <2>3. halves' \subseteq {"device", "roster"}
    BY <1>1, <2>1 DEF TypeOK
  <2>4. told' \in BOOLEAN
    BY <2>1
  <2>5. TypeOK'
    <3>1. Len(queue') <= QueueLen
      BY <1>1, <2>2, PhoneLinkOK DEF TypeOK, PhoneLinkOK
    <3> QED BY <1>1, <2>1, <2>2, <2>3, <2>4, <3>1 DEF TypeOK, phone, call
  <2>6. OwnQueue'
    <3>1. DOMAIN queue' = 1..Len(queue) - 1 /\ DOMAIN queue = 1..Len(queue)
          /\ \A i \in 1..Len(queue) - 1 : i + 1 \in 1..Len(queue)
      BY <1>1, <2>2 DEF TypeOK
    <3> QED BY <1>1, <2>1, <2>2, <3>1 DEF SideInv, OwnQueue, phone
  <2>7. Noticed' /\ OwnWrites' /\ OwnReply' /\ Replying' /\ Hungry'
    BY <1>1, <1>3, <2>1 DEF SideInv, Noticed, OwnWrites, OwnReply, Replying, Hungry, phone, call
  <2>8. QueueInv'
    <3>1. CASE connected
      BY <1>1, <1>3, <3>1, QueueRead
    <3>2. CASE ~connected
      BY <2>1, <3>2, QueueVoid DEF phone
    <3> QED BY <3>1, <3>2
  <2> QED BY <2>5, <2>6, <2>7, <2>8 DEF IInv, SideInv
<1> QED BY <1>2, <1>3

-----------------------------------------------------------------------------
(* pump.                                                                    *)
LEMMA WatchInv == ASSUME IInv, Watch PROVE IInv'
<1>1. TypeOK /\ SideInv /\ QueueInv /\ step = "out"
  BY DEF IInv, Watch
<1>2. reply = <<>> /\ ends = NoId
  BY <1>1 DEF SideInv, Replying
<1>3. /\ step' = "drain" /\ pumped' = FALSE /\ connected' = link
      /\ link' = link /\ inbox' = inbox /\ reply' = reply /\ ends' = ends
      /\ halves' = halves /\ told' = told /\ starved' = starved
      /\ reading' = reading /\ waiting' = waiting
  BY DEF Watch, app
<1>4. CASE link = connected
  <2>1. UNCHANGED <<advertising, config_id, queue, ready, quiet>>
    BY <1>4 DEF Watch
  <2>2. TypeOK'
    BY <1>1, <1>3, <2>1 DEF TypeOK
  <2>3. SideInv'
    BY <1>1, <1>2, <1>3, <1>4, <2>1
       DEF SideInv, Noticed, OwnWrites, OwnReply, OwnQueue, Replying, Hungry
  <2>4. QueueInv'
    <3>1. connected' = connected
      BY <1>3, <1>4
    <3> QED BY <1>1, <1>3, <2>1, <3>1, QueueStill
  <2> QED BY <2>2, <2>3, <2>4 DEF IInv
<1>5. CASE link # connected
  <2>1. /\ config_id' = NoId /\ queue' = <<>> /\ ready' = FALSE
        /\ quiet' = (IF link THEN 0 ELSE quiet) /\ advertising' = ~link
    BY <1>5 DEF Watch, Cleared
  <2>2. TypeOK'
    <3>1. 0 \in 0..Keepalive /\ 0 <= QueueLen
      BY PhoneLinkOK DEF PhoneLinkOK
    <3>2. queue' \in Seq(Message) /\ Len(queue') <= QueueLen
      BY <2>1, <3>1
    <3>3. advertising' \in BOOLEAN /\ connected' \in BOOLEAN /\ pumped' \in BOOLEAN
      BY <1>1, <1>3, <2>1 DEF TypeOK
    <3>4. quiet' \in 0..Keepalive
      BY <1>1, <2>1, <3>1 DEF TypeOK
    <3> QED BY <1>1, <1>3, <2>1, <3>2, <3>3, <3>4 DEF TypeOK
  <2>3. Noticed' /\ OwnWrites' /\ OwnReply' /\ OwnQueue' /\ Replying'
    <3>1. Noticed'
      <4>1. advertising' => ~link' /\ ~connected'
        BY <1>3, <2>1
      <4> QED BY <1>3, <4>1 DEF Noticed
    <3>2. OwnWrites'
      BY <1>1, <1>3 DEF SideInv, OwnWrites
    <3>3. OwnReply' /\ OwnQueue' /\ Replying'
      BY <1>2, <1>3, <2>1 DEF OwnReply, OwnQueue, Replying
    <3> QED BY <3>1, <3>2, <3>3
  <2>4. Hungry'
    <3>1. link /\ ~connected => starved = 0
      BY <1>1 DEF SideInv, Hungry
    <3>2. link => connected' /\ starved' = 0 /\ quiet' = 0
      BY <1>1, <1>3, <1>5, <2>1, <3>1 DEF TypeOK
    <3> QED BY <1>3, <2>1, <3>2 DEF Hungry
  <2>5. QueueInv'
    BY <1>2, <1>3, <2>1 DEF QueueInv, Telling, DumpWhole, Remembered, DumpFirst
  <2> QED BY <2>2, <2>3, <2>4, <2>5 DEF IInv, SideInv
<1> QED BY <1>4, <1>5

\* What receive() is about to yield for a write.
Answer(w) ==
  CASE w \in Ids -> Dump(w) [] w = "disconnect" -> <<>> [] OTHER -> <<"status">>

LEMMA AnswerIs ==
  ASSUME NEW w \in Writes
  PROVE  /\ Answer(w) \in Seq(Whats)
         /\ w \in Ids => Answer(w) = Dump(w)
         /\ w \notin Ids => \A i \in 1..Len(Answer(w)) : Answer(w)[i] = "status"
<1>1. CASE w \in Ids
  <2>1. Answer(w) = Dump(w)
    BY <1>1, NamesApart DEF Answer
  <2> QED BY <1>1, <2>1, DumpIs
<1>2. CASE w = "disconnect"
  <2>1. Answer(w) = <<>> /\ w \notin Ids
    BY <1>2, NamesApart DEF Answer
  <2> QED BY <2>1
<1>3. CASE w \notin Ids /\ w # "disconnect"
  <2>1. Answer(w) = <<"status">> /\ "status" \in Whats
    BY <1>3 DEF Answer, Whats
  <2> QED BY <1>3, <2>1
<1> QED BY <1>1, <1>2, <1>3

LEMMA ReceiveInv == ASSUME IInv, Receive PROVE IInv'
<1>1. TypeOK /\ SideInv /\ QueueInv /\ step = "drain" /\ reply = <<>> /\ inbox # <<>>
  BY DEF IInv, Receive
<1> DEFINE w == Head(inbox).what
           who == Head(inbox).mine
<1>2. /\ w \in Writes /\ who \in BOOLEAN /\ w = inbox[1].what /\ who = inbox[1].mine
      /\ inbox' \in Seq([what : Writes, mine : BOOLEAN]) /\ Len(inbox') = Len(inbox) - 1
      /\ \A i \in 1..Len(inbox) - 1 : inbox'[i] = inbox[i + 1]
      /\ Len(inbox) \in Nat \ {0}
  <2>1. inbox \in Seq([what : Writes, mine : BOOLEAN]) /\ inbox' = Tail(inbox)
    BY <1>1 DEF TypeOK, Receive
  <2> DEFINE W == [what : Writes, mine : BOOLEAN]
  <2>2. \A r \in W : r.what \in Writes /\ r.mine \in BOOLEAN
    OBVIOUS
  <2> HIDE DEF W
  <2>3. /\ Head(inbox) \in W /\ Head(inbox) = inbox[1]
        /\ inbox' \in Seq(W) /\ Len(inbox') = Len(inbox) - 1
        /\ \A i \in 1..Len(inbox) - 1 : inbox'[i] = inbox[i + 1]
        /\ Len(inbox) \in Nat \ {0}
    BY <1>1, <2>1, Popped DEF W
  <2> QED BY <2>2, <2>3 DEF W
<1>3. /\ reply' = [i \in DOMAIN Answer(w) |-> [what |-> Answer(w)[i], mine |-> who]]
      /\ ends' = (IF w \in Ids THEN w ELSE NoId)
      /\ config_id' = (IF w = "disconnect" THEN NoId ELSE config_id)
      /\ link' = link /\ advertising' = advertising /\ queue' = queue /\ connected' = connected
      /\ ready' = ready /\ quiet' = quiet /\ step' = step /\ pumped' = pumped
      /\ reading' = reading /\ waiting' = waiting /\ halves' = halves /\ told' = told
      /\ starved' = starved
  BY DEF Receive, Answer, Remembers, app
<1> HIDE DEF w, who
<1> DEFINE a == Answer(w)
<1>4. /\ a \in Seq(Whats)
      /\ w \in Ids => a = Dump(w)
      /\ w \notin Ids => \A i \in 1..Len(a) : a[i] = "status"
  BY <1>2, AnswerIs
<1>5. reply' = [i \in DOMAIN a |-> [what |-> a[i], mine |-> who]]
  BY <1>3
<1> HIDE DEF a
<1>6. /\ reply' \in Seq(Message) /\ Len(reply') = Len(a) /\ Len(a) \in Nat
      /\ \A i \in 1..Len(a) : reply'[i].what = a[i] /\ reply'[i].mine = who
  BY <1>2, <1>4, <1>5, MadeFor
<1>7. w \in Ids => /\ Len(a) \in Nat \ {0} /\ a[Len(a)] = w
                   /\ \A i \in 1..Len(a) - 1 : a[i] \in {"device", "roster"}
                   /\ \A p \in Needs(w) : \E i \in 1..Len(a) - 1 : a[i] = p
  BY <1>4, DumpIs
<1>8. TypeOK'
  <2>1. ends' \in Ids \cup {NoId} /\ config_id' \in Ids \cup {NoId}
    BY <1>1, <1>3 DEF TypeOK
  <2>2. Len(inbox') <= InboxLen
    BY <1>1, <1>2, PhoneLinkOK DEF TypeOK, PhoneLinkOK
  <2> QED BY <1>1, <1>2, <1>3, <1>6, <2>1, <2>2 DEF TypeOK
<1>9. connected /\ link => who /\ \A i \in 1..Len(inbox) : inbox[i].mine
  BY <1>1, <1>2 DEF SideInv, OwnWrites
<1>10. Noticed' /\ OwnQueue' /\ Hungry'
  BY <1>1, <1>3 DEF SideInv, Noticed, OwnQueue, Hungry
<1>11. OwnWrites' /\ OwnReply'
  BY <1>1, <1>2, <1>3, <1>6, <1>9 DEF OwnWrites, OwnReply
<1>12. Replying'
  <2>1. ends' # NoId => w \in Ids /\ ends' = w
    BY <1>3
  <2>2. w \in Ids => ends' # NoId
    BY <1>3, PhoneLinkOK DEF PhoneLinkOK
  <2>3. w \in Ids => /\ reply' # <<>> /\ reply'[Len(reply')].what = w
                     /\ \A i \in 1..Len(reply') : /\ reply'[i].what # "packet"
                                                  /\ reply'[i].what \in Ids => i = Len(reply')
    <3> SUFFICES ASSUME w \in Ids
                 PROVE  /\ reply' # <<>> /\ reply'[Len(reply')].what = w
                        /\ \A i \in 1..Len(reply') : /\ reply'[i].what # "packet"
                                                     /\ reply'[i].what \in Ids => i = Len(reply')
      OBVIOUS
    <3>1. Len(a) \in 1..Len(a) /\ Len(reply') = Len(a) /\ reply'[Len(a)].what = w
      BY <1>6, <1>7
    <3>2. reply' # <<>>
      BY <1>6, <3>1
    <3>3. \A i \in 1..Len(a) : i = Len(a) \/ i \in 1..Len(a) - 1
      BY <1>6
    <3>4. \A i \in 1..Len(a) : i # Len(a) => reply'[i].what \in {"device", "roster"}
      BY <1>6, <1>7, <3>3
    <3> QED BY <3>1, <3>2, <3>4, NamesApart
  <2>4. w \notin Ids => \A i \in 1..Len(reply') : reply'[i].what = "status"
    BY <1>4, <1>6
  <2>5. step' = "drain"
    BY <1>1, <1>3
  <2> QED BY <2>1, <2>2, <2>3, <2>4, <2>5, NamesApart DEF Replying
<1>13. Telling'
  <2> SUFFICES ASSUME ends' # NoId, NEW p \in Needs(ends')
               PROVE  \E i \in 1..Len(reply') - 1 : reply'[i].what = p
    BY DEF Telling
  <2>1. w \in Ids /\ ends' = w
    BY <1>3
  <2>2. PICK i \in 1..Len(a) - 1 : a[i] = p
    BY <1>7, <2>1
  <2> QED BY <1>6, <2>2
<1>14. DumpWhole' /\ DumpFirst' /\ Remembered'
  <2>1. \A n : Before(n)' = Before(n)
    BY <1>3, BeforeIs
  <2> QED BY <1>1, <1>3, <2>1 DEF QueueInv, DumpWhole, DumpFirst, Remembered
<1> QED BY <1>8, <1>10, <1>11, <1>12, <1>13, <1>14 DEF IInv, SideInv, QueueInv

LEMMA OfferInv == ASSUME IInv, Offer PROVE IInv'
<1>1. TypeOK /\ SideInv /\ QueueInv /\ step = "drain" /\ reply # <<>>
  BY DEF IInv, Offer
<1>2. ~pumped
  BY <1>1 DEF SideInv, Hungry
<1>3. /\ link' = link /\ advertising' = advertising /\ inbox' = inbox /\ connected' = connected
      /\ step' = step /\ pumped' = pumped /\ reading' = reading /\ waiting' = waiting
      /\ halves' = halves /\ told' = told
  BY DEF Offer, app
<1>4. CASE Fits
  <2> DEFINE m == Head(reply)
  <2>1. /\ queue' = Append(queue, m) /\ reply' = Tail(reply)
        /\ ready' = TRUE /\ quiet' = 0 /\ starved' = 0
        /\ IF Len(reply) = 1 /\ ends # NoId
             THEN config_id' = ends /\ ends' = NoId
             ELSE config_id' = config_id /\ ends' = ends
    BY <1>4 DEF Offer
  <2>2. PICK L \in Nat : L = Len(queue)
    BY <1>1 DEF TypeOK
  <2>3. PICK R \in Nat \ {0} : R = Len(reply)
    BY <1>1, Popped DEF TypeOK
  <2>4. /\ m = reply[1] /\ m \in Message
        /\ reply' \in Seq(Message) /\ Len(reply') = R - 1
        /\ \A i \in 1..R - 1 : reply'[i] = reply[i + 1]
    BY <1>1, <2>1, <2>3, Popped DEF TypeOK
  <2> HIDE DEF m
  <2>5. /\ queue' \in Seq(Message) /\ Len(queue') = L + 1 /\ queue' # <<>>
        /\ DOMAIN queue' = 1..L + 1 /\ DOMAIN queue = 1..L
        /\ \A j \in 1..L : queue'[j] = queue[j]
        /\ queue'[L + 1] = m
    BY <1>1, <2>1, <2>2, <2>4, Appended DEF TypeOK
  <2>6. TypeOK'
    <3>1. L + 1 <= QueueLen
      BY <1>4, <2>2, PhoneLinkOK DEF Fits, PhoneLinkOK
    <3>2. 0 \in 0..Keepalive
      BY PhoneLinkOK DEF PhoneLinkOK
    <3>3. config_id' \in Ids \cup {NoId} /\ ends' \in Ids \cup {NoId}
      BY <1>1, <2>1 DEF TypeOK
    <3> QED BY <1>1, <1>3, <2>1, <2>4, <2>5, <3>1, <3>2, <3>3 DEF TypeOK
  <2>7. 1 \in 1..R /\ R \in 1..R
    BY <2>3
  <2>8. /\ m.what # "packet"
        /\ m.what \in Ids => R = 1 /\ ends # NoId
        /\ ends # NoId => reply[R].what = ends
        /\ connected /\ link => m.mine
    BY <1>1, <2>3, <2>4, <2>7 DEF SideInv, Replying, OwnReply
  <2>9. OwnReply' /\ OwnQueue'
    <3>1. connected /\ link => \A i \in 1..R - 1 : reply'[i].mine
      <4>1. \A i \in 1..R - 1 : i + 1 \in 1..R
        BY <2>3
      <4> QED BY <1>1, <2>3, <2>4, <4>1 DEF SideInv, OwnReply
    <3>2. connected /\ link => \A i \in 1..L + 1 : queue'[i].mine
      <4>1. \A i \in 1..L + 1 : i = L + 1 \/ i \in 1..L
        BY <2>2
      <4> QED BY <1>1, <2>5, <2>8, <4>1 DEF SideInv, OwnQueue
    <3> QED BY <1>3, <2>4, <2>5, <3>1, <3>2 DEF OwnReply, OwnQueue
  <2>10. Noticed' /\ OwnWrites'
    BY <1>1, <1>3 DEF SideInv, Noticed, OwnWrites
  <2>11. Hungry'
    BY <1>2, <1>3, <2>1 DEF Hungry
  <2>12. Replying'
    <3>1. ASSUME ends' # NoId
          PROVE  ends' = ends /\ R # 1 /\ reply' # <<>> /\ reply'[R - 1].what = ends
      <4>1. ends' = ends /\ R # 1
        BY <2>1, <2>3, <3>1
      <4>2. R - 1 \in 1..R - 1 /\ (R - 1) + 1 = R
        BY <2>3, <4>1
      <4>3. reply' # <<>>
        BY <2>4, <4>2
      <4> QED BY <2>4, <2>8, <3>1, <4>1, <4>2, <4>3
    <3>2. ASSUME NEW i \in 1..R - 1
          PROVE  /\ reply'[i].what # "packet"
                 /\ reply'[i].what \in Ids => i = R - 1 /\ ends' # NoId
      <4>1. i + 1 \in 1..R /\ R # 1
        BY <2>3
      <4>2. /\ reply[i + 1].what # "packet"
            /\ reply[i + 1].what \in Ids => i + 1 = R /\ ends # NoId
        BY <1>1, <2>3, <4>1 DEF SideInv, Replying
      <4>3. ends' = ends
        BY <2>1, <2>3, <4>1
      <4>4. i + 1 = R => i = R - 1
        BY <2>3
      <4> QED BY <2>4, <4>2, <4>3, <4>4
    <3>3. step' = "drain"
      BY <1>1, <1>3
    <3> QED BY <2>4, <3>1, <3>2, <3>3 DEF Replying
  <2>13. CASE R = 1 /\ ends # NoId
    <3>1. m.what = ends /\ m.what \in Ids /\ ends' = NoId
      BY <1>1, <2>1, <2>3, <2>4, <2>8, <2>13 DEF TypeOK
    <3>2. connected /\ link => Needs(m.what) \subseteq Before(L + 1)
      <4> SUFFICES ASSUME connected, link, NEW p \in Needs(ends) PROVE p \in Before(L + 1)
        BY <3>1
      <4>1. ~(\E i \in 1..Len(reply) - 1 : reply[i].what = p)
        BY <2>3, <2>13
      <4> QED BY <1>1, <2>2, <2>13, <4>1 DEF QueueInv, Telling
    <3>3. QueueInv'
      BY <1>3, <2>1, <2>2, <2>4, <3>1, <3>2, QueueEnds
    <3> QED BY <2>6, <2>9, <2>10, <2>11, <2>12, <3>3 DEF IInv, SideInv
  <2>14. CASE ~(R = 1 /\ ends # NoId)
    <3>1. m.what \notin Ids /\ config_id' = config_id /\ ends' = ends
      BY <2>1, <2>3, <2>8, <2>14
    <3>2. /\ DumpWhole' /\ DumpFirst'
          /\ Before(L + 1) \subseteq Before(L + 2)'
          /\ m.what \in Before(L + 2)'
      BY <1>3, <2>1, <2>2, <2>4, <2>8, <3>1, QueueGrows
    <3>3. Remembered'
      <4>1. \A j \in 1..L : j \in 1..L + 1
        BY <2>2
      <4> QED BY <1>1, <1>3, <2>2, <2>5, <3>1, <4>1 DEF QueueInv, Remembered
    <3>4. Telling'
      <4>1. Len(queue') + 1 = L + 2
        BY <2>2, <2>5
      <4> SUFFICES ASSUME connected, link, ends # NoId, NEW p \in Needs(ends)
                   PROVE  (\E i \in 1..R - 2 : reply'[i].what = p) \/ p \in Before(L + 2)'
        <5>1. (R - 1) - 1 = R - 2
          BY <2>3
        <5> QED BY <1>3, <2>4, <3>1, <4>1, <5>1 DEF Telling
      <4>2. CASE \E i \in 1..R - 1 : reply[i].what = p
        <5>1. PICK i \in 1..R - 1 : reply[i].what = p
          BY <4>2
        <5>2. CASE i = 1
          BY <2>4, <3>2, <5>1, <5>2
        <5>3. CASE i # 1
          <6>1. i - 1 \in 1..R - 2 /\ i - 1 \in 1..R - 1 /\ (i - 1) + 1 = i
            BY <2>3, <5>3
          <6> QED BY <2>4, <5>1, <6>1
        <5> QED BY <5>2, <5>3
      <4>3. CASE p \in Before(L + 1)
        BY <3>2, <4>3
      <4> QED BY <1>1, <2>2, <2>3, <4>2, <4>3 DEF QueueInv, Telling
    <3> QED BY <2>6, <2>9, <2>10, <2>11, <2>12, <3>2, <3>3, <3>4 DEF IInv, SideInv, QueueInv
  <2> QED BY <2>13, <2>14
<1>5. CASE ~Fits
  <2>1. /\ reply' = <<>> /\ ends' = NoId
        /\ UNCHANGED <<queue, config_id, ready, quiet, starved>>
    BY <1>5 DEF Offer, Cut
  <2>2. TypeOK'
    BY <1>1, <1>3, <2>1 DEF TypeOK
  <2>3. SideInv'
    BY <1>1, <1>2, <1>3, <2>1 DEF SideInv, Noticed, OwnWrites, OwnReply, OwnQueue, Replying, Hungry
  <2>4. QueueInv'
    <3>1. \A n : Before(n)' = Before(n)
      BY <1>3, <2>1, BeforeIs
    <3> QED BY <1>1, <1>3, <2>1, <3>1 DEF QueueInv, Telling, DumpWhole, Remembered, DumpFirst
  <2> QED BY <2>2, <2>3, <2>4 DEF IInv
<1> QED BY <1>4, <1>5

LEMMA DrainedInv == ASSUME IInv, Drained PROVE IInv'
<1>1. TypeOK /\ SideInv /\ QueueInv /\ step = "drain" /\ reply = <<>> /\ inbox = <<>>
  BY DEF IInv, Drained
<1>2. /\ step' = "close"
      /\ UNCHANGED <<link, advertising, queue, inbox, connected, config_id, ready, quiet, reply, ends,
                     pumped, reading, waiting, halves, told, starved>>
  BY DEF Drained, phone, app
<1>3. TypeOK'
  BY <1>1, <1>2 DEF TypeOK
<1>4. SideInv'
  <2>1. ~pumped
    BY <1>1 DEF SideInv, Hungry
  <2> QED BY <1>1, <1>2, <2>1 DEF SideInv, Noticed, OwnWrites, OwnReply, OwnQueue, Replying, Hungry
<1>5. QueueInv'
  BY <1>1, <1>2, QueueStill
<1> QED BY <1>3, <1>4, <1>5 DEF IInv

\* A message that belongs to no dump, said between two.
LEMMA Said ==
  ASSUME IInv, NEW what \in {"status", "packet"}, Fits, queue' = queue \o For(<<what>>),
         what = "packet" => config_id # NoId, ends = NoId,
         UNCHANGED <<link, connected, config_id, ends, halves, told>>
  PROVE  /\ queue' \in Seq(Message) /\ Len(queue') <= QueueLen /\ queue' # <<>>
         /\ OwnQueue' /\ QueueInv'
<1> DEFINE m == [what |-> what, mine |-> link]
<1>1. TypeOK /\ SideInv /\ QueueInv /\ what \in Whats /\ what \notin Ids
  BY NamesApart DEF IInv, Whats
<1>2. m \in Message /\ m.what = what /\ m.mine = link
  BY <1>1 DEF Message, TypeOK
<1>3. queue' = Append(queue, m)
  BY <1>1, OneMore DEF TypeOK
<1> HIDE DEF m
<1>4. PICK L \in Nat : L = Len(queue)
  BY <1>1 DEF TypeOK
<1>5. /\ queue' \in Seq(Message) /\ Len(queue') = L + 1 /\ queue' # <<>>
      /\ DOMAIN queue' = 1..L + 1 /\ DOMAIN queue = 1..L
      /\ \A j \in 1..L : queue'[j] = queue[j]
      /\ queue'[L + 1] = m
  <2>1. queue \in Seq(Message) /\ m \in Message
    BY <1>1, <1>2 DEF TypeOK
  <2> DEFINE r == Append(queue, m)
  <2>2. /\ r \in Seq(Message) /\ Len(r) = Len(queue) + 1 /\ r # <<>>
        /\ \A j \in 1..Len(queue) : r[j] = queue[j]
        /\ r[Len(queue) + 1] = m
    BY <2>1, Appended
  <2> HIDE DEF r
  <2>3. DOMAIN r = 1..Len(r) /\ DOMAIN queue = 1..Len(queue)
    BY <2>1, <2>2
  <2>4. queue' = r
    BY <1>3 DEF r
  <2> QED BY <1>4, <2>2, <2>3, <2>4
<1>6. Len(queue') <= QueueLen
  BY <1>4, <1>5, PhoneLinkOK DEF Fits, PhoneLinkOK
<1>7. OwnQueue'
  <2>1. \A i \in 1..L + 1 : i = L + 1 \/ i \in 1..L
    BY <1>4
  <2> QED BY <1>1, <1>2, <1>5, <2>1 DEF SideInv, OwnQueue
<1>8. DumpWhole' /\ DumpFirst'
  BY <1>1, <1>2, <1>3, <1>4, QueueGrows
<1>9. Remembered'
  <2>1. \A j \in 1..L : j \in 1..L + 1
    BY <1>4
  <2> QED BY <1>1, <1>4, <1>5, <2>1 DEF QueueInv, Remembered
<1>10. Telling'
  BY DEF Telling
<1> QED BY <1>5, <1>6, <1>7, <1>8, <1>9, <1>10 DEF QueueInv

LEMMA CloseInv == ASSUME IInv, Close PROVE IInv'
<1> DEFINE due == config_id # NoId /\ quiet = Keepalive
           says == due /\ Fits
<1>1. TypeOK /\ SideInv /\ QueueInv /\ step = "close"
  BY DEF IInv, Close
<1>2. reply = <<>> /\ ends = NoId
  BY <1>1 DEF SideInv, Replying
<1>3. /\ link' = link /\ advertising' = advertising /\ inbox' = inbox /\ connected' = connected
      /\ config_id' = config_id /\ reply' = reply /\ ends' = ends /\ waiting' = waiting
      /\ halves' = halves /\ told' = told
      /\ ready' = FALSE /\ step' = "out" /\ pumped' = TRUE
      /\ queue' = queue \o (IF says THEN For(<<"status">>) ELSE <<>>)
      /\ quiet' = (IF due THEN 0 ELSE quiet)
      /\ starved' = (IF says THEN 0 ELSE starved)
      /\ reading' = (reading \/ (link /\ (ready \/ says)))
  BY DEF Close, Spoken, Rung
<1>4. says => queue' = queue \o For(<<"status">>)
  BY <1>3
<1>5. ~says => queue' = queue
  BY <1>1, <1>3, NoneMore DEF TypeOK
<1> HIDE DEF due, says
<1>6. /\ queue' \in Seq(Message) /\ Len(queue') <= QueueLen /\ OwnQueue' /\ QueueInv'
      /\ ~says => queue' = queue
  <2>1. CASE says
    <3>1. Fits
      BY <2>1 DEF says
    <3> QED BY <1>2, <1>3, <1>4, <2>1, <3>1, Said
  <2>2. CASE ~says
    <3>1. queue' = queue
      BY <1>5, <2>2
    <3> QED BY <1>1, <1>3, <3>1, QueueStill DEF TypeOK, SideInv, OwnQueue
  <2> QED BY <2>1, <2>2
<1>7. 0 \in 0..Keepalive /\ 0 < Keepalive /\ quiet \in 0..Keepalive /\ starved \in Nat
  BY <1>1, PhoneLinkOK DEF PhoneLinkOK, TypeOK
<1>8. TypeOK'
  <2>1. reading' \in BOOLEAN /\ quiet' \in 0..Keepalive /\ starved' \in Nat
    BY <1>3, <1>7
  <2> QED BY <1>1, <1>3, <1>6, <2>1 DEF TypeOK
<1>9. Noticed' /\ OwnWrites' /\ OwnReply' /\ Replying'
  BY <1>1, <1>2, <1>3 DEF SideInv, Noticed, OwnWrites, OwnReply, Replying
<1>10. Hungry'
  <2>1. queue' # <<>> => starved' = 0
    BY <1>1, <1>3, <1>6 DEF SideInv, Hungry
  <2>2. link /\ ~connected => starved' = 0
    BY <1>1, <1>3 DEF SideInv, Hungry
  <2>3. connected /\ link => starved' <= quiet'
    <3>1. CASE says
      BY <1>3, <1>7, <3>1
    <3>2. CASE ~says /\ due
      <4>1. ~Fits
        BY <3>2 DEF says
      <4>2. queue # <<>>
        BY <1>1, <4>1, PhoneLinkOK DEF Fits, PhoneLinkOK, TypeOK
      <4>3. starved' = 0 /\ quiet' = 0
        BY <1>1, <1>3, <3>2, <4>2 DEF SideInv, Hungry
      <4> QED BY <4>3
    <3>3. CASE ~says /\ ~due
      BY <1>1, <1>3, <3>3 DEF SideInv, Hungry
    <3> QED BY <3>1, <3>2, <3>3
  <2>4. config_id # NoId => quiet' < Keepalive
    <3>1. CASE due
      BY <1>3, <1>7, <3>1
    <3>2. CASE ~due
      BY <1>3, <1>7, <3>2, PhoneLinkOK DEF due, PhoneLinkOK
    <3> QED BY <3>1, <3>2
  <2> QED BY <1>3, <2>1, <2>2, <2>3, <2>4 DEF Hungry
<1> QED BY <1>6, <1>8, <1>9, <1>10 DEF IInv, SideInv

LEMMA HeardInv == ASSUME IInv, Heard PROVE IInv'
<1>1. TypeOK /\ SideInv /\ QueueInv /\ step = "out" /\ config_id # NoId
  BY DEF IInv, Heard
<1>2. reply = <<>> /\ ends = NoId
  BY <1>1 DEF SideInv, Replying
<1>3. /\ link' = link /\ advertising' = advertising /\ inbox' = inbox /\ connected' = connected
      /\ config_id' = config_id /\ reply' = reply /\ ends' = ends /\ waiting' = waiting
      /\ halves' = halves /\ told' = told /\ step' = step /\ pumped' = pumped /\ ready' = FALSE
  BY DEF Heard, call
<1>4. 0 \in 0..Keepalive /\ 0 < Keepalive
  BY PhoneLinkOK DEF PhoneLinkOK
<1>5. Noticed' /\ OwnWrites' /\ OwnReply' /\ Replying'
  BY <1>1, <1>3 DEF SideInv, Noticed, OwnWrites, OwnReply, Replying
<1>6. CASE Fits
  <2>1. /\ queue' = queue \o For(<<"packet">>) /\ quiet' = 0 /\ starved' = 0
        /\ reading' = (reading \/ (link /\ TRUE))
    BY <1>6 DEF Heard, Rung
  <2>2. /\ queue' \in Seq(Message) /\ Len(queue') <= QueueLen
        /\ OwnQueue' /\ QueueInv'
    BY <1>1, <1>2, <1>3, <1>6, <2>1, Said
  <2>3. TypeOK'
    <3>1. reading' \in BOOLEAN
      BY <2>1
    <3> QED BY <1>1, <1>3, <1>4, <2>1, <2>2, <3>1 DEF TypeOK
  <2>4. Hungry'
    BY <1>1, <1>3, <1>4, <2>1 DEF SideInv, Hungry
  <2> QED BY <1>5, <2>2, <2>3, <2>4 DEF IInv, SideInv
<1>7. CASE ~Fits
  <2>1. UNCHANGED <<queue, quiet, starved, reading>>
    BY <1>7 DEF Heard
  <2>2. TypeOK'
    BY <1>1, <1>3, <2>1 DEF TypeOK
  <2>3. OwnQueue' /\ Hungry'
    BY <1>1, <1>3, <2>1 DEF SideInv, OwnQueue, Hungry
  <2>4. QueueInv'
    BY <1>1, <1>3, <2>1, QueueStill
  <2> QED BY <1>5, <2>2, <2>3, <2>4 DEF IInv, SideInv
<1> QED BY <1>6, <1>7

LEMMA TickInv == ASSUME IInv, Tick PROVE IInv'
<1>1. TypeOK /\ SideInv /\ QueueInv /\ step = "out" /\ pumped
  BY DEF IInv, Tick
<1>2. /\ pumped' = FALSE
      /\ quiet' = (IF quiet < Keepalive THEN quiet + 1 ELSE quiet)
      /\ starved' = (IF queue = <<>> /\ connected /\ config_id # NoId THEN starved + 1 ELSE 0)
      /\ UNCHANGED <<link, advertising, queue, inbox, connected, config_id, ready, step,
                     reply, ends, reading, waiting, halves, told>>
  BY DEF Tick, app
<1>3. quiet \in 0..Keepalive /\ starved \in Nat /\ Keepalive \in Nat
  BY <1>1, PhoneLinkOK DEF TypeOK, PhoneLinkOK
<1>4. TypeOK'
  <2>1. quiet' \in 0..Keepalive /\ starved' \in Nat
    BY <1>2, <1>3
  <2> QED BY <1>1, <1>2, <2>1 DEF TypeOK
<1>5. Noticed' /\ OwnWrites' /\ OwnReply' /\ OwnQueue' /\ Replying'
  BY <1>1, <1>2 DEF SideInv, Noticed, OwnWrites, OwnReply, OwnQueue, Replying
<1>6. Hungry'
  <2>1. connected /\ link => starved' <= quiet'
    <3> SUFFICES ASSUME connected, link PROVE starved' <= quiet'
      OBVIOUS
    <3>1. starved <= quiet
      BY <1>1 DEF SideInv, Hungry
    <3>2. CASE config_id # NoId
      <4>1. quiet < Keepalive
        BY <1>1, <3>2 DEF SideInv, Hungry
      <4> QED BY <1>2, <1>3, <3>1, <4>1
    <3>3. CASE config_id = NoId
      BY <1>2, <1>3, <3>3
    <3> QED BY <3>2, <3>3
  <2>2. (queue # <<>> => starved' = 0) /\ (link /\ ~connected => starved' = 0)
    BY <1>2
  <2> QED BY <1>2, <2>1, <2>2 DEF Hungry
<1>7. QueueInv'
  BY <1>1, <1>2, QueueStill
<1> QED BY <1>4, <1>5, <1>6, <1>7 DEF IInv, SideInv

LEMMA NextInv == ASSUME IInv, [Next]_vars PROVE IInv'
<1>1. CASE UNCHANGED vars
  <2>1. UNCHANGED <<link, advertising, queue, inbox, connected, config_id, ready, quiet, step, reply,
                    ends, pumped, reading, waiting, halves, told, starved>>
    BY <1>1 DEF vars, phone, call, app
  <2>2. TypeOK'
    BY <2>1 DEF IInv, TypeOK
  <2>3. SideInv'
    BY <2>1 DEF IInv, SideInv, Noticed, OwnWrites, OwnReply, OwnQueue, Replying, Hungry
  <2>4. QueueInv'
    BY <2>1, QueueStill DEF IInv
  <2> QED BY <2>2, <2>3, <2>4 DEF IInv
<1>2. CASE Connect
  BY <1>2, ConnectInv
<1>3. CASE Disconnect
  BY <1>3, DisconnectInv
<1>4. CASE ReadOne
  BY <1>4, ReadOneInv
<1>5. CASE \E w \in Writes : Write(w)
  BY <1>5, WriteInv
<1>6. CASE Pump
  BY <1>6, WatchInv, ReceiveInv, OfferInv, DrainedInv, CloseInv DEF Pump
<1>7. CASE Heard
  BY <1>7, HeardInv
<1>8. CASE Tick
  BY <1>8, TickInv
<1> QED BY <1>1, <1>2, <1>3, <1>4, <1>5, <1>6, <1>7, <1>8 DEF Next

LEMMA Always == Spec => []IInv
BY InitInv, NextInv, PTL DEF Spec

-----------------------------------------------------------------------------
\* The session's values are of their kinds, and neither the queue nor the
\* buffer of writes (QUEUE_BYTES, INBOX_PACKETS) is ever overrun.
THEOREM LinkTypeCorrect == Spec => []TypeOK
<1>1. IInv => TypeOK
  BY DEF IInv
<1> QED BY <1>1, Always, PTL

\* _watch empties the queue at both edges: a client never reads what was
\* queued for the one before it.
THEOREM QueueIsOwn == Spec => []OwnQueue
<1>1. IInv => OwnQueue
  BY DEF IInv, SideInv
<1> QED BY <1>1, Always, PTL

\* config() and pump's break: a terminator follows everything its id asks for,
\* however often a full queue cut a dump and a client asked again.
THEOREM DumpsAreWhole == Spec => []DumpWhole
<1>1. IInv => DumpWhole
  BY DEF IInv, QueueInv
<1> QED BY <1>1, Always, PTL

\* heard() waits for config_id, which receive() sets after the last message
\* of a dump was queued: no packet precedes it.
THEOREM DumpsComeFirst == Spec => []DumpFirst
<1>1. IInv => DumpFirst
  BY DEF IInv, QueueInv
<1> QED BY <1>1, Always, PTL

\* _keepalive: a client that has asked is given something to read at least
\* every Keepalive, whatever the queue held.
THEOREM NobodyStarves == Spec => []NeverStarved
<1>1. IInv => NeverStarved
  <2> SUFFICES ASSUME IInv, connected, link PROVE starved <= Keepalive
    BY DEF NeverStarved
  <2>1. starved <= quiet /\ starved \in Nat /\ quiet \in 0..Keepalive /\ Keepalive \in Nat
    BY PhoneLinkOK DEF IInv, SideInv, Hungry, TypeOK, PhoneLinkOK
  <2> QED BY <2>1
<1> QED BY <1>1, Always, PTL

-----------------------------------------------------------------------------
(* Nobody there, nobody noticed, and not advertising: what a client leaves   *)
(* that came and went between two pumps.                                     *)
Unfindable == ~link /\ ~connected /\ ~advertising

\* _watch advertises at a departure it notices, and at nothing else
\* (meshble.py:365): a board that has become unfindable stays so.
THEOREM UnfindableForGood == Spec => [][Unfindable => Unfindable']_vars
<1>1. ASSUME IInv, [Next]_vars, Unfindable PROVE Unfindable'
  <2>1. CASE UNCHANGED vars
    BY <1>1, <2>1 DEF vars, phone, Unfindable
  <2>2. CASE Connect \/ Disconnect \/ ReadOne \/ (\E w \in Writes : Write(w))
    BY <1>1, <2>2 DEF Connect, Disconnect, ReadOne, Write, phone, Unfindable
  <2>3. CASE Watch
    <3>1. link = connected
      BY <1>1 DEF Unfindable, IInv, TypeOK
    <3> QED BY <1>1, <2>3, <3>1 DEF Watch, Unfindable
  <2>4. CASE Receive \/ Offer \/ Drained \/ Close \/ Heard \/ Tick
    <3>1. link' = link /\ connected' = connected /\ advertising' = advertising
      <4>1. CASE Receive
        BY <4>1 DEF Receive
      <4>2. CASE Offer
        BY <4>2 DEF Offer
      <4>3. CASE Drained \/ Close \/ Heard \/ Tick
        BY <4>3 DEF Drained, Close, Heard, Tick, phone
      <4> QED BY <2>4, <4>1, <4>2, <4>3
    <3> QED BY <1>1, <3>1 DEF Unfindable
  <2> QED BY <1>1, <2>1, <2>2, <2>3, <2>4 DEF Next, Pump
<1>2. IInv /\ [Next]_vars => [Unfindable => Unfindable']_vars
  BY <1>1
<1> QED BY <1>2, Always, PTL DEF Spec

=============================================================================
