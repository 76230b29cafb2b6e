------------------------------ MODULE PhoneLink ------------------------------
(***************************************************************************)
(* The phone's session over BLE: meshble.Phone's pump and its two edges,    *)
(* and of meshapi.PhoneAPI what a client is told (the configuration dump    *)
(* and the traffic after it).  The SoftDevice, which connects clients and   *)
(* lets them read the queue at any moment, and the app are external.        *)
(* A message stands for all messages of its section of a dump; what the     *)
(* client asks of the node itself (transmissions, administration, whether   *)
(* it is there) is one kind of write with one answer.  Every message and    *)
(* every write remembers whether it was made for, or by, the client         *)
(* connected now.                                                           *)
(***************************************************************************)
EXTENDS Integers, Sequences

CONSTANTS
  NoId,         \* config_id before anyone has asked
  ConfigNonce,  \* asks for the device half of a dump
  NodeNonce,    \* asks for the node list
  Others,       \* ids that ask for the whole
  QueueLen,     \* messages the read queue holds (QUEUE_BYTES)
  InboxLen,     \* writes the packet buffer holds (INBOX_PACKETS)
  Keepalive     \* time an idle link goes without anything to read

Ids == {ConfigNonce, NodeNonce} \cup Others

ASSUME PhoneLinkOK ==
  /\ NoId \notin Ids
  /\ ConfigNonce # NodeNonce
  /\ {ConfigNonce, NodeNonce} \cap Others = {}
  /\ QueueLen \in Nat \ {0} /\ InboxLen \in Nat \ {0} /\ Keepalive \in Nat \ {0}
  /\ {"device", "roster", "status", "packet", "request", "disconnect"}
       \cap Ids = {}

VARIABLES
  link,         \* the SoftDevice has a client
  advertising,  \* and accepts one if not
  connected,    \* Phone.connected
  config_id,    \* PhoneAPI.config_id
  queue,        \* the read queue of FROMRADIO
  inbox,        \* the writes not read yet
  step,         \* where pump is: "out", "drain" (its loop) or "close"
  reply,        \* what receive() has still to yield
  ends,         \* the id a dump in progress ends with, or NoId
  ready,        \* Phone._ready
  quiet,        \* time since _spoke, up to Keepalive
  pumped,       \* time: a pump has ended since the clock last moved
  reading,      \* the client: it was notified and has not read to the end
  waiting,      \* the client: it has written and awaits something to read
  halves,       \* history: parts of a dump read since the last terminator
  told,         \* history: this client has read a terminator
  starved       \* history: time since there was something to read

phone == <<connected, config_id, ready, quiet>>
call == <<step, reply, ends, pumped>>
app == <<reading, waiting, halves, told>>
vars == <<link, advertising, queue, inbox, phone, call, app, starved>>

Whats == {"device", "roster", "status", "packet"} \cup Ids
Writes == {"request", "disconnect"} \cup Ids
Message == [what: Whats, mine: BOOLEAN]

TypeOK ==
  /\ link \in BOOLEAN /\ advertising \in BOOLEAN /\ connected \in BOOLEAN
  /\ config_id \in Ids \cup {NoId}
  /\ queue \in Seq(Message) /\ Len(queue) <= QueueLen
  /\ inbox \in Seq([what: Writes, mine: BOOLEAN]) /\ Len(inbox) <= InboxLen
  /\ step \in {"out", "drain", "close"}
  /\ reply \in Seq(Message)
  /\ ends \in Ids \cup {NoId}
  /\ ready \in BOOLEAN /\ pumped \in BOOLEAN
  /\ quiet \in 0..Keepalive
  /\ reading \in BOOLEAN /\ waiting \in BOOLEAN /\ told \in BOOLEAN
  /\ halves \subseteq {"device", "roster"}
  /\ starved \in Nat

Init ==
  /\ link = FALSE /\ advertising = TRUE /\ connected = FALSE
  /\ config_id = NoId
  /\ queue = <<>> /\ inbox = <<>>
  /\ step = "out" /\ reply = <<>> /\ ends = NoId
  /\ ready = FALSE /\ quiet = 0 /\ pumped = FALSE
  /\ reading = FALSE /\ waiting = FALSE /\ halves = {} /\ told = FALSE
  /\ starved = 0

-----------------------------------------------------------------------------
(* The SoftDevice and the app.                                             *)
Disowned(s) == [i \in DOMAIN s |-> [s[i] EXCEPT !.mine = FALSE]]

\* A client connects, which ends the advertisement.
Connect ==
  /\ ~link /\ advertising
  /\ link' = TRUE /\ advertising' = FALSE
  /\ reading' = FALSE /\ waiting' = FALSE /\ halves' = {} /\ told' = FALSE
  /\ starved' = 0
  /\ UNCHANGED <<queue, inbox, phone, call>>

\* It goes, at any moment.  What it wrote stays in the buffer.
Disconnect ==
  /\ link
  /\ link' = FALSE
  /\ queue' = Disowned(queue) /\ inbox' = Disowned(inbox) /\ reply' = Disowned(reply)
  /\ reading' = FALSE /\ waiting' = FALSE /\ halves' = {} /\ told' = FALSE
  /\ UNCHANGED <<advertising, phone, step, ends, pumped, starved>>

\* The app sends one message and waits; it loses patience in no less time
\* than a pump takes.
Write(w) ==
  /\ link
  /\ ~waiting \/ step = "out"
  /\ Len(inbox) < InboxLen
  /\ inbox' = Append(inbox, [what |-> w, mine |-> TRUE])
  /\ waiting' = TRUE
  /\ UNCHANGED <<link, advertising, queue, phone, call, reading, halves, told, starved>>

\* Once notified it reads until there is nothing.
ReadOne ==
  /\ link /\ reading
  /\ IF queue = <<>>
       THEN reading' = FALSE /\ UNCHANGED <<queue, waiting, halves, told>>
       ELSE LET m == Head(queue) IN
            /\ queue' = Tail(queue)
            /\ waiting' = FALSE
            /\ halves' = IF ~m.mine THEN halves
                         ELSE IF m.what \in Ids THEN {}
                         ELSE halves \cup ({m.what} \cap {"device", "roster"})
            /\ told' = (told \/ (m.mine /\ m.what \in Ids))
            /\ UNCHANGED reading
  /\ UNCHANGED <<link, advertising, inbox, phone, call, starved>>

-----------------------------------------------------------------------------
(* What a client is told.                                                  *)
For(s) == [i \in DOMAIN s |-> [what |-> s[i], mine |-> link]]

Needs(id) ==
  (IF id # NodeNonce THEN {"device"} ELSE {}) \cup
  (IF id # ConfigNonce THEN {"roster"} ELSE {})

\* config(): the halves asked for, and the id at the end.
Dump(id) ==
  (IF id # NodeNonce THEN <<"device">> ELSE <<>>) \o
  (IF id # ConfigNonce THEN <<"roster">> ELSE <<>>) \o <<id>>

\* Fault: one too many.
FitsOver == Len(queue) <= QueueLen

Fits == Len(queue) < QueueLen

\* Fault: an old ring is thought to do for what came since.
RungOnce(is) == reading' = (reading \/ (link /\ is /\ Len(queue) <= 1))

\* _ring, to whoever is there.
Rung(is) == reading' = (reading \/ (link /\ is))

-----------------------------------------------------------------------------
(* pump.                                                                   *)

\* Fault: only a departure clears the queue.
ClearedLeaving == IF link THEN queue ELSE <<>>

\* serve_reads, which starts the queue again.
Cleared == <<>>

\* _watch: either edge empties the session and the queue; advertising again is
\* what the departure ends with.
Watch ==
  /\ step = "out"
  /\ step' = "drain" /\ pumped' = FALSE
  /\ connected' = link
  /\ IF link = connected
       THEN UNCHANGED <<advertising, config_id, queue, ready, quiet>>
       ELSE /\ config_id' = NoId
            /\ queue' = Cleared /\ ready' = FALSE
            /\ quiet' = IF link THEN 0 ELSE quiet
            /\ advertising' = ~link
  /\ UNCHANGED <<link, inbox, reply, ends, app, starved>>

\* Fault: remembered when asked.
RemembersEarly(w) ==
  IF w \in Ids THEN w ELSE IF w = "disconnect" THEN NoId ELSE config_id

\* config_id while a write is being answered.
Remembers(w) == IF w = "disconnect" THEN NoId ELSE config_id

\* One turn of the loop: a write is read and receive() starts on it.
Receive ==
  /\ step = "drain" /\ reply = <<>> /\ inbox # <<>>
  /\ LET w == Head(inbox).what
         mine == Head(inbox).mine
         Back(s) == [i \in DOMAIN s |-> [what |-> s[i], mine |-> mine]]
     IN /\ reply' = Back(CASE w \in Ids -> Dump(w)
                           [] w = "disconnect" -> <<>>
                           [] OTHER -> <<"status">>)
        /\ ends' = IF w \in Ids THEN w ELSE NoId
        /\ config_id' = Remembers(w)
  /\ inbox' = Tail(inbox)
  /\ UNCHANGED <<link, advertising, queue, connected, ready, quiet, step, pumped, app, starved>>

\* Fault: goes on with the next message.
Skip == reply' = Tail(reply) /\ UNCHANGED ends

\* pump's break: the generator is dropped.
Cut == reply' = <<>> /\ ends' = NoId

\* _offer of one message.  The first that does not fit ends the generator,
\* before it has come to remember the id.
Offer ==
  /\ step = "drain" /\ reply # <<>>
  /\ IF Fits
       THEN /\ queue' = Append(queue, Head(reply))
            /\ reply' = Tail(reply)
            /\ ready' = TRUE /\ quiet' = 0 /\ starved' = 0
            /\ IF Len(reply) = 1 /\ ends # NoId
                 THEN config_id' = ends /\ ends' = NoId
                 ELSE UNCHANGED <<config_id, ends>>
       ELSE /\ Cut
            /\ UNCHANGED <<queue, config_id, ready, quiet, starved>>
  /\ UNCHANGED <<link, advertising, inbox, connected, step, pumped, app>>

Drained ==
  /\ step = "drain" /\ reply = <<>> /\ inbox = <<>>
  /\ step' = "close"
  /\ UNCHANGED <<link, advertising, queue, inbox, phone, reply, ends, pumped, app, starved>>

\* Fault: stamped at every look.
SpokenAlways(due) == 0

Spoken(due) == IF due THEN 0 ELSE quiet

\* _keepalive, which counts as having spoken whether or not it fits, and
\* _ring.
Close ==
  /\ step = "close"
  /\ LET due == config_id # NoId /\ quiet = Keepalive
         says == due /\ Fits
     IN /\ queue' = queue \o (IF says THEN For(<<"status">>) ELSE <<>>)
        /\ quiet' = Spoken(due)
        /\ starved' = IF says THEN 0 ELSE starved
        /\ Rung(ready \/ says)
  /\ ready' = FALSE
  /\ step' = "out" /\ pumped' = TRUE
  /\ UNCHANGED <<link, advertising, inbox, connected, config_id, reply, ends,
                 waiting, halves, told>>

\* heard: a packet off the air, from a poll between two pumps.
Heard ==
  /\ step = "out" /\ config_id # NoId
  /\ IF Fits
       THEN /\ queue' = queue \o For(<<"packet">>)
            /\ quiet' = 0 /\ starved' = 0
            /\ Rung(TRUE)
       ELSE UNCHANGED <<queue, quiet, starved, reading>>
  /\ ready' = FALSE
  /\ UNCHANGED <<link, advertising, inbox, connected, config_id, call,
                 waiting, halves, told>>

\* Under serve() a pump takes less than the clock's unit, and no unit passes
\* without one.
Tick ==
  /\ step = "out" /\ pumped
  /\ pumped' = FALSE
  /\ quiet' = IF quiet < Keepalive THEN quiet + 1 ELSE quiet
  /\ starved' = IF queue = <<>> /\ connected /\ config_id # NoId
                  THEN starved + 1 ELSE 0
  /\ UNCHANGED <<link, advertising, queue, inbox, connected, config_id, ready, step,
                 reply, ends, app>>

Pump == Watch \/ Receive \/ Offer \/ Drained \/ Close

Next ==
  \/ Connect \/ Disconnect \/ ReadOne
  \/ \E w \in Writes : Write(w)
  \/ Pump \/ Heard \/ Tick

\* serve() keeps pumping.
Spec == Init /\ [][Next]_vars /\ WF_vars(Pump)

-----------------------------------------------------------------------------
(* Properties.                                                             *)

\* What is queued belongs to the client there is (meshble.py:330): once its
\* arrival was noticed, nothing made for another is left for it to read.
OwnQueue ==
  connected /\ link => \A i \in DOMAIN queue : queue[i].mine

\* No dump ends at the places i to n - 1 of the queue.
Open(i, n) == \A k \in i..n - 1 : queue[k].what \notin Ids

\* The parts of a dump before place n, since the terminator before.
Before(n) ==
  {queue[j].what : j \in {i \in 1..n - 1 : Open(i, n)}}
    \cup (IF Open(1, n) THEN halves ELSE {})

\* A terminator says that was all of it (meshapi.py:12): no client gets one
\* without having got everything its id asks for, whatever was refused by a
\* full queue and however its requests overlap.
DumpWhole ==
  connected /\ link =>
    \A n \in DOMAIN queue : queue[n].what \in Ids => Needs(queue[n].what) \subseteq Before(n)

\* Mesh traffic never comes in front of the dump a client has not got yet
\* (meshble.py:332).
DumpFirst ==
  connected /\ link /\ ~told =>
    \A n \in DOMAIN queue : queue[n].what = "packet" =>
      \E j \in 1..n - 1 : queue[j].what \in Ids

\* Under serve() a client that has asked never goes longer than Keepalive, and
\* the time between two pumps, with nothing to read (meshble.py:285).
NeverStarved == connected /\ link => starved <= Keepalive

\* The doorbell: what is queued is announced, so a client that reads only when
\* notified, and only until empty, does not leave it there (meshble.py:311).
Announced == queue # <<>> /\ link ~> reading \/ queue = <<>> \/ ~link

=============================================================================
