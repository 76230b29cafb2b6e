------------------------------ MODULE RadioHold ------------------------------
(***************************************************************************)
(* Who owns the radio.  One interpreter runs foreground commands; the      *)
(* chip's DIO line, on a rising edge, schedules `_collect`, which runs to  *)
(* completion on top of whatever Python was doing at the next safe point.  *)
(* `mesh._hold` is what keeps the two off the bus at once.  The module     *)
(* covers mesh.py's holds, the node's poll and send loops, and the LR2021  *)
(* adapter, at the grain of one driver call per step: the chip may receive *)
(* between any two of them.                                                *)
(*                                                                         *)
(* A function's locals are put back to a blank when it returns.  A         *)
(* context's remaining work is a sequence of driver-level operations; an   *)
(* operation replaces itself at the head by what the code does next.       *)
(*                                                                         *)
(* Three exceptions leave an operation where it stands: KeyboardInterrupt  *)
(* ("ctrl_c"), the ValueError of a body that nothing can decode            *)
(* ("unreadable"), and the driver's RuntimeError ("bus").                  *)
(***************************************************************************)
EXTENDS Integers, Sequences, FiniteSets

CONSTANTS
  MaxPackets,  \* bound: packets the air delivers in one behaviour
  Commands,    \* the entry points the prompt may call
  Limit,       \* Node.poll's limit (8 in the code)
  Tries,       \* Node.wait_for_clear's tries (8 in the code)
  HasPhone,    \* whether phone() has been called
  Raised,      \* the exceptions that may be raised
  MaxFaults    \* bound: exceptions, caught or not, in one behaviour

Entries == {"poll", "send", "serve", "listen", "look", "stop"}
Exceptions == {"ctrl_c", "unreadable", "bus"}

ASSUME ConstantsOK ==
  /\ MaxPackets \in Nat
  /\ Commands \subseteq Entries
  /\ Limit \in Nat \ {0}
  /\ Tries \in Nat \ {0}
  /\ HasPhone \in BOOLEAN
  /\ "serve" \in Commands => HasPhone
  /\ Raised \subseteq Exceptions
  /\ MaxFaults \in Nat

VARIABLES
  \* the interpreter
  busy,        \* mesh._busy
  where,       \* per context: outside a hold, in its body, or in its finally
  outer,       \* per context: _hold's local `outer`
  todo,        \* per context: the operations still to run
  quota,       \* per context: frames poll may still take
  tries,       \* per context: attempts wait_for_clear has left
  frame,       \* per context: a frame read out of the chip and not yet filed
  pending,     \* `_collect` is scheduled
  serving,     \* serve's loop: turning, about to save, left by an exception, or none
  \* the adapter and the chip
  listening,   \* LR2021._listening
  resume,      \* per context: busy()'s local `listening`
  watched,     \* the handler is attached to the DIO line
  mode,        \* what the chip is doing
  anyLength,   \* the packet-length field admits any packet, not just a short one
  flags,       \* receive flags; the DIO line is high while there is one
  held,        \* the packet in the receive FIFO, 0 when empty
  \* what happened
  landed,      \* packets received by the chip so far, numbered in order
  filed,       \* the packet _receive filed last
  waived,      \* the packet in the chip when `_collect` last gave up
  wiped,       \* the last packet so declined that was thrown away, 0 if none
  cut,         \* a send was left before its frame started, and no listen since
  faults       \* exceptions raised so far, and failed driver calls caught

hold  == <<busy, where, outer>>
loops == <<quota, tries>>
chip  == <<mode, anyLength, cut, flags, held>>
past  == <<landed, filed, waived, wiped>>
marks == <<serving, faults>>
vars  == <<busy, where, outer, todo, quota, tries, frame, pending, listening,
           resume, watched, mode, anyLength, flags, held, landed, filed,
           waived, wiped, serving, cut, faults>>

Contexts == {"fg", "cb"}
Ops == {"listen", "watch", "unwatch", "sleep", "poll", "service", "guard",
        "standby", "cad", "transmit", "show", "collect", "read", "file", "rearm",
        "again", "settle", "pump", "glance", "finally", "free"}
Nothing == 0

TypeOK ==
  /\ busy \in BOOLEAN
  /\ where \in [Contexts -> {"out", "body", "exit"}]
  /\ outer \in [Contexts -> BOOLEAN]
  /\ todo \in [Contexts -> Seq(Ops)]
  /\ quota \in [Contexts -> 0..Limit]
  /\ tries \in [Contexts -> 0..Tries]
  /\ frame \in [Contexts -> 0..MaxPackets]
  /\ pending \in BOOLEAN
  /\ listening \in BOOLEAN
  /\ resume \in [Contexts -> BOOLEAN]
  /\ watched \in BOOLEAN
  /\ mode \in {"standby", "rx"}
  /\ anyLength \in BOOLEAN
  /\ flags \in SUBSET {"done", "error"}
  /\ held \in 0..MaxPackets
  /\ landed \in 0..MaxPackets
  /\ filed \in 0..MaxPackets
  /\ waived \in 0..MaxPackets
  /\ wiped \in 0..MaxPackets
  /\ serving \in {"off", "on", "ending", "broken"}
  /\ cut \in BOOLEAN
  /\ faults \in 0..MaxFaults

(* start(): the node is built and tuned, then listens, then is watched.    *)
Init ==
  /\ busy = FALSE
  /\ where = [c \in Contexts |-> "out"]
  /\ outer = [c \in Contexts |-> FALSE]
  /\ todo = [c \in Contexts |-> IF c = "fg" THEN <<"listen", "watch">> ELSE <<>>]
  /\ quota = [c \in Contexts |-> 0]
  /\ tries = [c \in Contexts |-> 0]
  /\ frame = [c \in Contexts |-> Nothing]
  /\ pending = FALSE
  /\ listening = FALSE
  /\ resume = [c \in Contexts |-> FALSE]
  /\ watched = FALSE
  /\ mode = "standby"
  /\ anyLength = TRUE
  /\ flags = {}
  /\ held = Nothing
  /\ landed = 0
  /\ filed = Nothing
  /\ waived = Nothing
  /\ wiped = Nothing
  /\ serving = "off"
  /\ cut = FALSE
  /\ faults = 0

-----------------------------------------------------------------------------
(* The running context: a scheduled callback runs on top of the foreground *)
(* and to its end, so the foreground only moves when there is none.        *)
Running(c) == c = "fg" => todo["cb"] = <<>>

At(c, op) == Running(c) /\ todo[c] # <<>> /\ Head(todo[c]) = op

\* The head operation is done and `next` comes before the rest of the work.
Then(c, next) == todo' = [todo EXCEPT ![c] = next \o Tail(@)]

Set(f, c, v) == [f EXCEPT ![c] = v]

\* A FIFO clear: whatever was still in it is gone.
Wipe == /\ held' = Nothing
        /\ wiped' = IF held = waived /\ held # Nothing THEN held ELSE wiped

\* Fault: listen without re-arming the length field.
StartReceiveShort ==
  /\ Wipe
  /\ flags' = {}
  /\ anyLength' = anyLength
  /\ mode' = "rx"
  /\ listening' = TRUE
  /\ cut' = FALSE

\* LR2021.listen: length field back to its maximum, FIFO and flags cleared.
StartReceive ==
  /\ Wipe
  /\ flags' = {}
  /\ anyLength' = TRUE
  /\ mode' = "rx"
  /\ listening' = TRUE
  /\ cut' = FALSE

\* A rising edge of the DIO line, if somebody is attached to it.
Edge == pending' = (pending \/ watched)

-----------------------------------------------------------------------------
(* Entering and leaving a hold.                                            *)

\* What is run under the hold.
Body(call) ==
  CASE call = "poll"    -> <<"poll">>
    [] call = "send"    -> <<"guard">>
    [] call = "turn"    -> <<"pump", "service">>
    [] call = "silence" -> <<"glance">>
    [] call = "listen"  -> <<"listen", "again", "settle">>
    [] OTHER            -> <<>>

Enter(c, body) ==
  /\ outer' = Set(outer, c, busy)
  /\ busy' = TRUE
  /\ where' = Set(where, c, "body")
  /\ todo' = Set(todo, c, body \o <<"finally">>)

\* Nothing runs, and the prompt or serve's loop may go on.
Idle == todo["fg"] = <<>> /\ Running("fg")
AtPrompt == Idle /\ serving \in {"off", "broken"}

\* A command typed at the prompt.
Command(entry) ==
  /\ entry \in Commands \ {"stop", "serve"}
  /\ AtPrompt
  /\ Enter("fg", Body(entry))
  /\ serving' = "off"
  /\ UNCHANGED <<loops, frame, pending, listening, resume, watched, chip, past, faults>>

\* serve() starts its loop ...
Serve ==
  /\ "serve" \in Commands
  /\ AtPrompt
  /\ serving' = "on"
  /\ UNCHANGED <<hold, todo, loops, frame, pending, listening, resume, watched, chip,
                 past, faults>>

\* ... each turn of which is one hold, and now and then one more that asks the
\* chip why it is so quiet ...
Turn ==
  /\ serving = "on" /\ Idle
  /\ \E call \in {"turn", "silence"} : Enter("fg", Body(call))
  /\ UNCHANGED <<loops, frame, pending, listening, resume, watched, chip, past, marks>>

\* ... until the time is up, or ctrl-C between two turns ...
TimeUp ==
  /\ Idle
  /\ \/ serving = "on" /\ serving' = "ending" /\ UNCHANGED faults
     \/ /\ "ctrl_c" \in Raised /\ faults < MaxFaults /\ faults' = faults + 1
        /\ \/ serving = "on" /\ serving' = "ending"
           \/ serving = "ending" /\ serving' = "off"
  /\ UNCHANGED <<hold, todo, loops, frame, pending, listening, resume, watched, chip,
                 past>>

\* ... and its last hold saves.
LastSave ==
  /\ serving = "ending" /\ Idle
  /\ Enter("fg", <<>>)
  /\ serving' = "off"
  /\ UNCHANGED <<loops, frame, pending, listening, resume, watched, chip, past, faults>>

\* stop() is not under a hold: unwatch, then standby.
Stop ==
  /\ "stop" \in Commands
  /\ AtPrompt
  /\ todo' = Set(todo, "fg", <<"unwatch", "sleep">>)
  /\ serving' = "off"
  /\ UNCHANGED <<hold, loops, frame, pending, listening, resume, watched, chip, past,
                 faults>>

\* Fault: `_collect` without its test of `_busy`.
CollectAnyway ==
  /\ pending /\ todo["cb"] = <<>>
  /\ pending' = FALSE
  /\ Enter("cb", Body("poll"))
  /\ UNCHANGED <<loops, frame, listening, resume, watched, chip, past, marks>>

\* The scheduled callback: gives up when the radio is owned.
Collect_ ==
  /\ pending /\ todo["cb"] = <<>>
  /\ pending' = FALSE
  /\ \/ /\ busy
        /\ waived' = held
        /\ UNCHANGED <<hold, todo>>
     \/ /\ ~busy
        /\ Enter("cb", Body("poll"))
        /\ UNCHANGED waived
  /\ UNCHANGED <<loops, frame, listening, resume, watched, chip, landed, filed, wiped,
                 marks>>

\* Fault: `_hold` without its last poll.
DrainNothing == IF HasPhone THEN <<"pump", "free">> ELSE <<"free">>

\* What the outermost hold does before it lets go.
Drain == IF HasPhone THEN <<"poll", "pump", "free">> ELSE <<"poll", "free">>

\* The finally clause: the outermost hold drains before it lets go.
Finally(c) ==
  /\ At(c, "finally")
  /\ where' = Set(where, c, "exit")
  /\ todo' = Set(todo, c, IF outer[c] THEN <<"free">> ELSE Drain)
  /\ UNCHANGED <<busy, outer, loops, frame, pending, listening, resume, watched, chip, past>>

\* Fault: the flag is not put back.
FreeKeeps(c) ==
  /\ At(c, "free")
  /\ busy' = busy
  /\ where' = Set(where, c, "out")
  /\ outer' = Set(outer, c, FALSE)
  /\ todo' = Set(todo, c, <<>>)
  /\ UNCHANGED <<loops, frame, pending, listening, resume, watched, chip, past>>

Free(c) ==
  /\ At(c, "free")
  /\ busy' = outer[c]
  /\ where' = Set(where, c, "out")
  /\ outer' = Set(outer, c, FALSE)
  /\ todo' = Set(todo, c, <<>>)
  /\ UNCHANGED <<loops, frame, pending, listening, resume, watched, chip, past>>

-----------------------------------------------------------------------------
(* Node.service, Node.poll, Node.listen and the phone's pump.              *)

\* poll: upkeep first, then up to Limit frames.
Poll(c) ==
  /\ At(c, "poll")
  /\ Then(c, <<"service", "collect">>)
  /\ quota' = Set(quota, c, Limit)
  /\ UNCHANGED <<hold, tries, frame, pending, listening, resume, watched, chip, past>>

\* service: a deadline that has come (nodeinfo, position) sends.
Service(c) ==
  /\ At(c, "service")
  /\ \E due \in BOOLEAN : Then(c, IF due THEN <<"guard">> ELSE <<>>)
  /\ UNCHANGED <<hold, loops, frame, pending, listening, resume, watched, chip, past>>

\* Answering the phone may transmit.
Pump(c) ==
  /\ At(c, "pump")
  /\ \E asked \in BOOLEAN : Then(c, IF asked THEN <<"guard">> ELSE <<>>)
  /\ UNCHANGED <<hold, loops, frame, pending, listening, resume, watched, chip, past>>

\* Node.listen's loop: poll until the time is up.
Again(c) ==
  /\ At(c, "again")
  /\ \E more \in BOOLEAN :
       Then(c, IF more THEN <<"poll", "again">> ELSE <<>>)
  /\ UNCHANGED <<hold, loops, frame, pending, listening, resume, watched, chip, past>>

\* Fault: poll's limit is never consulted.
CollectUnlimited(c) ==
  /\ At(c, "collect")
  /\ flags' = {}
  /\ IF flags = {"done"}
       THEN Then(c, <<"read">>) /\ quota' = Set(quota, c, quota[c] - 1)
       ELSE Then(c, <<>>) /\ UNCHANGED quota
  /\ UNCHANGED <<hold, tries, frame, pending, listening, resume, watched, mode,
                 anyLength, cut, held, past>>

\* LR2021.collect up to the flags: an error flag condemns the whole FIFO.
Collect(c) ==
  /\ At(c, "collect")
  /\ IF quota[c] = 0 \/ ~listening
       THEN /\ Then(c, <<>>)
            /\ quota' = Set(quota, c, 0)
            /\ UNCHANGED <<flags, held, wiped>>
       ELSE /\ flags' = {}
            /\ IF flags = {"done"}
                 THEN /\ Then(c, <<"read">>)
                      /\ quota' = Set(quota, c, quota[c] - 1)
                      /\ UNCHANGED <<held, wiped>>
                 ELSE /\ Then(c, <<>>)
                      /\ IF flags = {} THEN UNCHANGED <<held, wiped>> ELSE Wipe
                      /\ quota' = Set(quota, c, 0)
  /\ UNCHANGED <<hold, tries, frame, pending, listening, resume, watched, mode,
                 anyLength, cut, landed, filed, waived>>

\* ... and its read of the FIFO; an empty one ends the poll.
Read(c) ==
  /\ At(c, "read")
  /\ Then(c, IF held = Nothing THEN <<>> ELSE <<"file", "rearm", "collect">>)
  /\ quota' = IF held = Nothing THEN Set(quota, c, 0) ELSE quota
  /\ frame' = Set(frame, c, held)
  /\ held' = Nothing
  /\ UNCHANGED <<hold, tries, pending, listening, resume, watched, mode, anyLength,
                 cut, flags, past>>

\* quality() and _receive: the frame is filed.
File(c) ==
  /\ At(c, "file")
  /\ Then(c, <<>>)
  /\ filed' = frame[c]
  /\ frame' = Set(frame, c, Nothing)
  /\ UNCHANGED <<hold, loops, pending, listening, resume, watched, chip, landed,
                 waived, wiped>>

Rearm(c) ==
  /\ At(c, "rearm")
  /\ Then(c, IF listening THEN <<>> ELSE <<"listen">>)
  /\ UNCHANGED <<hold, loops, frame, pending, listening, resume, watched, chip, past>>

-----------------------------------------------------------------------------
(* Node.send and the adapter.                                              *)

\* The duty cycle may refuse; otherwise listen before talk.
Guard(c) ==
  /\ At(c, "guard")
  /\ \E allowed \in BOOLEAN : Then(c, IF allowed THEN <<"standby">> ELSE <<>>)
  /\ tries' = Set(tries, c, Tries)
  /\ UNCHANGED <<hold, quota, frame, pending, listening, resume, watched, chip, past>>

\* LR2021.busy up to the CAD: out of receive, flags cleared.
Standby(c) ==
  /\ At(c, "standby")
  /\ Then(c, <<"cad">>)
  /\ resume' = Set(resume, c, listening)
  /\ listening' = FALSE
  /\ mode' = "standby"
  /\ flags' = {}
  /\ UNCHANGED <<hold, loops, frame, pending, watched, anyLength, cut, held, past>>

\* Fault: busy() leaves the chip in the CAD's fallback mode.
RestoreNothing(c) ==
  /\ mode' = "standby" /\ listening' = FALSE
  /\ UNCHANGED <<anyLength, cut, flags, held, wiped>>

\* busy()'s finally: back to what it was, whichever way the CAD ended.
Restore(c) ==
  IF resume[c]
    THEN StartReceive
    ELSE mode' = "standby" /\ listening' = FALSE
         /\ UNCHANGED <<anyLength, cut, flags, held, wiped>>

\* The CAD's verdict: clear, busy (try again while tries are left), or never
\* finished, which refuses.  Its own flag raises the line and is cleared.
Cad(c) ==
  /\ At(c, "cad")
  /\ Restore(c)
  /\ \/ Edge /\ Then(c, <<"transmit", "listen", "show">>) /\ tries' = Set(tries, c, 0)
     \/ /\ Edge
        /\ Then(c, IF tries[c] > 1 THEN <<"standby">> ELSE <<>>)
        /\ tries' = Set(tries, c, IF tries[c] > 1 THEN tries[c] - 1 ELSE 0)
     \/ UNCHANGED pending /\ Then(c, <<>>) /\ tries' = Set(tries, c, 0)
  /\ resume' = Set(resume, c, FALSE)
  /\ UNCHANGED <<hold, quota, frame, watched, landed, filed, waived>>

\* LR2021.send: the length field becomes the outgoing one, receive flags are
\* cleared, and the chip ends in standby whether or not the packet left.
Transmit(c) ==
  /\ At(c, "transmit")
  /\ Then(c, <<>>)
  /\ anyLength' = FALSE
  /\ flags' = {}
  /\ mode' = "standby"
  /\ listening' = FALSE
  /\ Edge
  /\ UNCHANGED <<hold, loops, frame, resume, watched, cut, held, past>>

Listen(c) ==
  /\ \E op \in {"listen", "settle"} : At(c, op)
  /\ Then(c, <<>>)
  /\ StartReceive
  /\ UNCHANGED <<hold, loops, frame, pending, resume, watched, landed, filed, waived>>

\* What left is printed, decoded again; a quiet radio is asked for its counters.
Show(c) ==
  /\ \E op \in {"show", "glance"} : At(c, op)
  /\ Then(c, <<>>)
  /\ UNCHANGED <<hold, loops, frame, pending, listening, resume, watched, chip, past>>

\* attach_irq / detach_irq.  Attaching sees only edges still to come, and the
\* firmware may have no interrupt to attach to.
Watch(c) ==
  /\ \/ At(c, "watch") /\ watched' \in BOOLEAN
     \/ At(c, "unwatch") /\ watched' = FALSE
  /\ Then(c, <<>>)
  /\ UNCHANGED <<hold, loops, frame, pending, listening, resume, chip, past>>

\* standby()
Sleep(c) ==
  /\ At(c, "sleep")
  /\ Then(c, <<>>)
  /\ mode' = "standby"
  /\ listening' = FALSE
  /\ UNCHANGED <<hold, loops, frame, pending, resume, watched, anyLength, cut, flags,
                 held, past>>

-----------------------------------------------------------------------------
(* Exceptions.  Where each may be raised, apart from the driver's inside    *)
(* collect() and busy(), whose callers catch it.                           *)
Strikes(kind, c) ==
  CASE kind = "ctrl_c" -> TRUE
    [] kind = "unreadable" -> Head(todo[c]) \in {"file", "pump", "guard", "show"}
    [] kind = "bus" ->
         \/ Head(todo[c]) \in {"listen", "settle", "transmit", "file", "again",
                             "glance", "sleep"}
         \/ Head(todo[c]) = "standby" /\ tries[c] < Tries  \* entropy() between tries

\* listen left after its first, second, third or last call, before `_listening`.
CutListen ==
  \E done \in 0..4 :
    /\ anyLength' = (anyLength \/ done >= 1)
    /\ cut' = (cut /\ done = 0)
    /\ IF done >= 2 THEN Wipe ELSE UNCHANGED <<held, wiped>>
    /\ flags' = IF done >= 3 THEN {} ELSE flags
    /\ mode' = IF done = 4 THEN "rx" ELSE mode
    /\ UNCHANGED <<listening, pending>>

\* standby left before or after the mode change, and before the flags are cleared.
CutStandby ==
  /\ \/ UNCHANGED <<mode, listening, flags>>
     \/ /\ mode' = "standby"
        /\ \/ UNCHANGED <<listening, flags>>
           \/ listening' = FALSE /\ flags' \in {flags, {}}
  /\ UNCHANGED <<anyLength, cut, held, wiped, pending>>

\* send left with the outgoing length in the field and the chip still
\* receiving, or with the frame on its way.
CutTransmit ==
  /\ \/ /\ anyLength' = FALSE /\ cut' = TRUE /\ flags' \in {flags, {}}
        /\ UNCHANGED <<mode, listening, pending>>
     \/ /\ anyLength' = FALSE /\ flags' = {} /\ UNCHANGED cut
        /\ mode' = "standby" /\ listening' \in {listening, FALSE}
        /\ Edge
     \/ UNCHANGED <<anyLength, cut, flags, mode, listening, pending>>
  /\ UNCHANGED <<held, wiped>>

\* What the operation had done to the radio; busy()'s own finally runs on the way.
Cut(c) ==
  CASE Head(todo[c]) \in {"listen", "settle"}  -> CutListen
    [] Head(todo[c]) \in {"standby", "sleep"}  -> CutStandby
    [] Head(todo[c]) = "transmit"              -> CutTransmit
    [] Head(todo[c]) = "cad"                   -> Restore(c) /\ UNCHANGED pending
    [] OTHER -> UNCHANGED <<mode, anyLength, cut, flags, held, listening, wiped, pending>>

\* In the body an exception unwinds to Node.listen's finally or the hold's; in
\* a hold's own finally clause nothing is left to catch it.
Unwound(c) ==
  IF where[c] # "body" THEN <<>>
  ELSE IF \E i \in 2..Len(todo[c]) : todo[c][i] = "settle"
    THEN <<"settle", "finally">> ELSE <<"finally">>

\* serve catches ctrl-C and saves; any other exception goes through it.
Interrupt(c, kind) ==
  /\ kind \in Raised /\ faults < MaxFaults
  /\ Running(c) /\ todo[c] # <<>> /\ Strikes(kind, c)
  /\ todo[c] # <<"listen", "watch">>  \* there is no node yet
  /\ faults' = faults + 1
  /\ todo' = Set(todo, c, Unwound(c))
  /\ where' = Set(where, c, IF where[c] = "body" THEN "body" ELSE "out")
  /\ outer' = IF where[c] = "body" THEN outer ELSE Set(outer, c, FALSE)
  /\ serving' = IF c = "cb" \/ serving = "off" THEN serving
                ELSE IF kind = "ctrl_c" THEN "ending" ELSE "broken"
  /\ frame' = Set(frame, c, Nothing)
  /\ quota' = Set(quota, c, 0)
  /\ tries' = Set(tries, c, 0)
  /\ Cut(c)  \* reads resume before it is blanked
  /\ resume' = Set(resume, c, FALSE)
  /\ UNCHANGED <<busy, watched, landed, filed, waived>>

\* poll catches the driver's RuntimeError: the packet counts as dropped.
CollectFails(c) ==
  /\ "bus" \in Raised /\ faults < MaxFaults
  /\ \/ /\ At(c, "collect") /\ quota[c] > 0 /\ listening
        /\ quota' = Set(quota, c, quota[c] - 1)
        /\ flags' \in {flags, {}}
     \/ At(c, "read") /\ UNCHANGED <<quota, flags>>
  /\ faults' = faults + 1
  /\ Then(c, <<"rearm", "collect">>)
  /\ Wipe \/ UNCHANGED <<held, wiped>>
  /\ UNCHANGED <<hold, tries, frame, pending, serving, listening, resume, watched, mode,
                 anyLength, cut, landed, filed, waived>>

\* wait_for_clear catches busy()'s and refuses: before the CAD nothing puts the
\* chip back into receive, and after it the restoring listen itself may fail.
BusyFails(c) ==
  /\ "bus" \in Raised /\ faults < MaxFaults
  /\ \/ At(c, "standby") /\ CutStandby
     \/ At(c, "cad") /\ IF resume[c] THEN CutListen ELSE Restore(c) /\ UNCHANGED pending
  /\ faults' = faults + 1
  /\ Then(c, <<>>)
  /\ tries' = Set(tries, c, 0)
  /\ resume' = Set(resume, c, FALSE)
  /\ UNCHANGED <<hold, quota, frame, serving, watched, landed, filed, waived>>

-----------------------------------------------------------------------------
(* The air.  A packet the chip receives replaces the one it held; a broken *)
(* one only leaves its flag.                                               *)
Land ==
  /\ mode = "rx" /\ landed < MaxPackets
  /\ landed' = landed + 1
  /\ held' = landed'
  /\ flags' = flags \cup {"done"}
  /\ IF flags = {} THEN Edge ELSE UNCHANGED pending
  /\ UNCHANGED <<hold, todo, loops, frame, listening, resume, watched, mode, anyLength,
                 cut, filed, waived, wiped, marks>>

Garble ==
  /\ mode = "rx" /\ "error" \notin flags
  /\ flags' = flags \cup {"error"}
  /\ IF flags = {} THEN Edge ELSE UNCHANGED pending
  /\ UNCHANGED <<hold, todo, loops, frame, listening, resume, watched, mode, anyLength,
                 cut, held, past, marks>>

Step(c) ==
  /\ \/ Finally(c) \/ Free(c)
     \/ Poll(c) \/ Service(c) \/ Pump(c) \/ Again(c)
     \/ Collect(c) \/ Read(c) \/ File(c) \/ Rearm(c)
     \/ Guard(c) \/ Standby(c) \/ Cad(c) \/ Transmit(c) \/ Listen(c) \/ Show(c)
     \/ Watch(c) \/ Sleep(c)
  /\ UNCHANGED marks

Loop == Serve \/ Turn \/ TimeUp \/ LastSave

Next ==
  \/ \E entry \in Commands : Command(entry)
  \/ Loop
  \/ Stop
  \/ Collect_
  \/ \E c \in Contexts : Step(c) \/ CollectFails(c) \/ BusyFails(c)
  \/ \E c \in Contexts, kind \in Exceptions : Interrupt(c, kind)
  \/ Land
  \/ Garble

Spec == Init /\ [][Next]_vars

(* Fairness of the interpreter: code that can run does, a scheduled        *)
(* callback is run at a safe point, and serve's loop keeps turning.        *)
Fairness ==
  /\ \A c \in Contexts : WF_vars(Step(c))
  /\ WF_vars(Collect_)
  /\ WF_vars(Turn)

-----------------------------------------------------------------------------
(* Properties.                                                             *)

AtRest == \A c \in Contexts : todo[c] = <<>>

\* The scheduled callback never owns the radio while a foreground call does:
\* the one promise `_hold` and `_collect` make each other.
HoldExcludes == where["cb"] # "out" => where["fg"] = "out"

\* What is filed is filed once and in the order it was received, whoever
\* collected it: no frame in one context's hands is overtaken by the other.
FiledInOrder == [][filed' > filed]_filed

\* A receiving chip accepts any length: the ceiling a transmission leaves in
\* the length field is undone on every way back into receive, and only a send
\* that an exception left before its frame started can leave it in force.
HearsAnyLength == mode = "rx" => anyLength \/ cut

\* "so the packet is not lost by giving up here" (mesh.py:82): a packet that
\* `_collect` declined is not thrown away by the call it deferred to.
DecliningLosesNothing == wiped = Nothing

=============================================================================
