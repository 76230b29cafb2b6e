------------------------------ MODULE InboxArena ------------------------------
(***************************************************************************)
(* The inbox: messages packed in one byte array, walked record by record    *)
(* (inbox.rs), the calls that use it (inbox.py), and the saved copy that    *)
(* cache_blob assembles from it call by call (meshcache.py).  A record here *)
(* is one cell for its head, one for the length of its text and the text;   *)
(* of the head the model keeps the conversation and the read flag.  The     *)
(* bytes past `used` are left out of `buf`: nothing in inbox.rs reads them. *)
(* A save takes its steps one driver or native call at a time; callers that *)
(* hold the radio (mesh._hold, _collect) keep the callback out meanwhile,   *)
(* stop() does not.                                                         *)
(***************************************************************************)
EXTENDS Integers, Sequences, SequencesExt

CONSTANTS
  Wheres,     \* conversations: 0 the channel, n the peer n
  All,        \* every conversation
  Texts,      \* bodies a text packet may carry
  Cont,       \* a continuation byte
  Lead,       \* the byte it has to follow
  Cap,        \* bytes in the arena (INBOX_BYTES)
  Limit,      \* messages (MAX_MESSAGES)
  MaxText,    \* bytes of text kept (MAX_TEXT)
  Room,       \* flash left for messages
  Overhead,   \* what a saved record takes beside its text
  StopSaves   \* whether mesh.stop() is among the callers

Fixed == 2    \* cells of a record before its text (INBOX_FIXED)

ASSUME InboxOK ==
  /\ Wheres \subseteq Nat /\ All \notin Wheres
  /\ Limit \in Nat \ {0} /\ MaxText \in Nat /\ Room \in Nat /\ Overhead \in Nat
  /\ Cap \in Nat /\ Cap >= Fixed + MaxText
  /\ Cont # Lead /\ {Cont, Lead} \subseteq Nat
  /\ \A t \in Texts : t \in Seq(Nat)
  /\ StopSaves \in BOOLEAN

VARIABLES
  buf,        \* the arena up to `used`
  dirty,      \* whether a saved copy would be behind
  saved,      \* the records in flash, oldest first
  left,       \* while starting: the records still to be put back
  stage,      \* "loading" or "up"
  step,       \* where a save is: "idle", or the call it makes next
  held,       \* whether that save keeps the callback out
  offs,       \* newest(): the offsets found
  views,      \* _fill: the records chosen, newest first
  out         \* the blob's records

saving == <<step, held, offs, views, out>>
vars == <<buf, dirty, saved, left, stage, saving>>

-----------------------------------------------------------------------------
(* Text.                                                                   *)

\* bytes.decode() does not raise.
Readable(t) ==
  /\ \A i \in DOMAIN t : t[i] = Cont => i > 1 /\ t[i - 1] = Lead
  /\ \A i \in DOMAIN t : t[i] = Lead => i < Len(t) /\ t[i + 1] = Cont

\* fit: how much of a text is stored, backing up over continuation bytes.
Fit(t) ==
  IF Len(t) <= MaxText THEN Len(t)
  ELSE Max({n \in 1..MaxText : t[n + 1] # Cont} \cup {0})

-----------------------------------------------------------------------------
(* Records in a buffer b; offsets count from 0.                            *)
Byte(b, i) == IF i < Len(b) THEN b[i + 1] ELSE 0
Length(b, off) == Fixed + Byte(b, off + 1)
Text(b, off, n) == [i \in 1..n |-> Byte(b, off + Fixed + i - 1)]

Code(where, read) == 2 * where + (IF read THEN 1 ELSE 0)
Where(head) == head \div 2
Read(head) == head % 2 = 1

Selected(b, off, want) == want \in {All, Where(Byte(b, off))}

\* next: the selected record after the one at `after`, or -1.  An offset that
\* is no record's start is read all the same.
NextAfter(b, after, want) ==
  LET from[off \in Nat] ==
        IF off + Fixed > Len(b) THEN -1
        ELSE IF Selected(b, off, want) THEN off
        ELSE from[off + Length(b, off)]
  IN IF after < 0 THEN from[0]
     ELSE IF after + Fixed > Len(b) THEN -1
     ELSE from[after + Length(b, after)]

\* A walk: the offsets of the selected records, oldest first.
Walk(b, want) ==
  LET on[off \in Int] ==
        IF off = -1 THEN <<>> ELSE <<off>> \o on[NextAfter(b, off, want)]
  IN on[NextAfter(b, -1, want)]

\* Fault: one message too many.
MakeRoomLate(b, need) ==
  LET starts == Append(Walk(b, All), Len(b))
      Enough(k) == Len(b) - starts[k] = 0
                   \/ /\ Len(b) - starts[k] + need <= Cap
                      /\ Len(starts) - k <= Limit
      k == Min({j \in DOMAIN starts : Enough(j)})
  IN SubSeq(b, starts[k] + 1, Len(b))

\* append: the oldest dropped one at a time until the new one fits.
MakeRoom(b, need) ==
  LET starts == Append(Walk(b, All), Len(b))
      Enough(k) == Len(b) - starts[k] = 0
                   \/ /\ Len(b) - starts[k] + need <= Cap
                      /\ Len(starts) - k < Limit
      k == Min({j \in DOMAIN starts : Enough(j)})
  IN SubSeq(b, starts[k] + 1, Len(b))

Stored(b, head, text) ==
  LET take == Fit(text)
  IN MakeRoom(b, Fixed + take) \o <<head, take>> \o SubSeq(text, 1, take)

\* mark: every selected record that was unread.
Unread(b, want) ==
  {off \in Range(Walk(b, want)) : ~Read(Byte(b, off))}

Marked(b, want) ==
  [i \in DOMAIN b |-> IF i - 1 \in Unread(b, want) THEN b[i] + 1 ELSE b[i]]

-----------------------------------------------------------------------------
Idle == step = "idle"

\* Code that needs the radio, the foreground's or the callback's.
Free == stage = "up" /\ (Idle \/ ~held)

Init ==
  /\ buf = <<>> /\ dirty = FALSE
  /\ saved = <<>> /\ left = <<>> /\ stage = "loading"
  /\ step = "idle" /\ held = TRUE /\ offs = <<>> /\ views = <<>> /\ out = <<>>

\* Fault: a text that is too long is cut wherever that is.
AddCutAnywhere(where, text) ==
  /\ Free
  /\ Readable(text)
  /\ LET take == Min({Len(text), MaxText})
     IN buf' = MakeRoom(buf, Fixed + take) \o <<Code(where, FALSE), take>> \o SubSeq(text, 1, take)
  /\ dirty' = TRUE
  /\ UNCHANGED <<saved, left, stage, saving>>

\* Fault: room is made by the count as it was before.
AddLate(where, text) ==
  /\ Free
  /\ Readable(text)
  /\ LET take == Fit(text)
     IN buf' = MakeRoomLate(buf, Fixed + take) \o <<Code(where, FALSE), take>> \o SubSeq(text, 1, take)
  /\ dirty' = TRUE
  /\ UNCHANGED <<saved, left, stage, saving>>

\* add, from a poll of the foreground's or from _collect.
Add(where, text) ==
  /\ Free
  /\ Readable(text)
  /\ buf' = Stored(buf, Code(where, FALSE), text)
  /\ dirty' = TRUE
  /\ UNCHANGED <<saved, left, stage, saving>>

\* Fault: reading is not news.
LookQuietly(want) ==
  /\ stage = "up" /\ Idle
  /\ buf' = Marked(buf, want)
  /\ UNCHANGED <<dirty, saved, left, stage, saving>>

\* read, from the prompt.
Look(want) ==
  /\ stage = "up" /\ Idle
  /\ buf' = Marked(buf, want)
  /\ dirty' = (dirty \/ Unread(buf, want) # {})
  /\ UNCHANGED <<saved, left, stage, saving>>

\* forget_all, whose one caller is a full factory reset: the saved copy goes
\* too, and nothing is owed to flash.
FactoryReset ==
  /\ stage = "up" /\ Idle
  /\ buf' = <<>> /\ saved' = <<>> /\ dirty' = FALSE
  /\ UNCHANGED <<left, stage, saving>>

-----------------------------------------------------------------------------
(* cache_save.  The roster may be what is dirty, so a save needs nothing of *)
(* the inbox.                                                               *)
Done == step' = "idle" /\ held' = TRUE /\ offs' = <<>> /\ views' = <<>> /\ out' = <<>>

Begin ==
  /\ stage = "up" /\ Idle
  /\ step' = "walk"
  /\ held' \in (IF StopSaves THEN BOOLEAN ELSE {TRUE})
  /\ UNCHANGED <<buf, dirty, saved, left, stage, offs, views, out>>

\* newest(): one inbox_next.
WalkOn ==
  /\ step = "walk"
  /\ LET off == NextAfter(buf, IF offs = <<>> THEN -1 ELSE Last(offs), All)
     IN IF off = -1 THEN step' = "view" /\ UNCHANGED offs
                    ELSE offs' = Append(offs, off) /\ UNCHANGED step
  /\ UNCHANGED <<buf, dirty, saved, left, stage, held, views, out>>

Spent(vs) == FoldSeq(LAMBDA v, n : n + Overhead + v.take, 0, vs)

\* newest() and _fill: one inbox_read, newest first, until one does not fit.
\* The text is not copied yet, its place is.
View ==
  /\ step = "view" /\ offs # <<>>
  /\ LET off == Last(offs)
         v == [head |-> Byte(buf, off), at |-> off, take |-> Byte(buf, off + 1)]
     IN IF off + Fixed > Len(buf) \/ off + Length(buf, off) > Len(buf)
          THEN Done                               \* ValueError: the save ends
          ELSE IF Spent(Append(views, v)) > Room
          THEN offs' = <<>> /\ UNCHANGED <<step, held, views, out>>
          ELSE /\ offs' = Front(offs) /\ views' = Append(views, v)
               /\ UNCHANGED <<step, held, out>>
  /\ UNCHANGED <<buf, dirty, saved, left, stage>>

\* One cache_write_message, oldest first.
Pack ==
  /\ step = "view" /\ offs = <<>> /\ views # <<>>
  /\ LET v == Last(views)
     IN out' = Append(out, [where |-> Where(v.head), read |-> Read(v.head),
                            text |-> Text(buf, v.at, v.take)])
  /\ views' = Front(views)
  /\ UNCHANGED <<buf, dirty, saved, left, stage, step, held, offs>>

\* write_cache.
Write ==
  /\ step = "view" /\ offs = <<>> /\ views = <<>>
  /\ saved' = out
  /\ step' = "clean"
  /\ UNCHANGED <<buf, dirty, left, stage, held, offs, views, out>>

Clean ==
  /\ step = "clean"
  /\ dirty' = FALSE
  /\ Done
  /\ UNCHANGED <<buf, saved, left, stage>>

\* MemoryError before anything is written: postponed, still dirty.
GiveUp ==
  /\ step \in {"walk", "view"}
  /\ Done
  /\ UNCHANGED <<buf, dirty, saved, left, stage>>

-----------------------------------------------------------------------------
(* A reset, and cache_load.                                                *)
Restart ==
  /\ buf' = <<>> /\ dirty' = FALSE
  /\ left' = saved /\ stage' = "loading"
  /\ Done
  /\ UNCHANGED saved

\* restore.  A text that does not decode raises, and ends cache_load.
Restore ==
  /\ stage = "loading" /\ left # <<>>
  /\ LET m == Head(left)
     IN IF Readable(m.text)
          THEN buf' = Stored(buf, Code(m.where, m.read), m.text) /\ left' = Tail(left)
          ELSE left' = <<>> /\ UNCHANGED buf
  /\ UNCHANGED <<dirty, saved, stage, saving>>

Loaded ==
  /\ stage = "loading" /\ left = <<>>
  /\ stage' = "up" /\ dirty' = FALSE
  /\ UNCHANGED <<buf, saved, left, saving>>

Next ==
  \/ \E w \in Wheres, t \in Texts : Add(w, t)
  \/ \E want \in Wheres \cup {All} : Look(want)
  \/ FactoryReset
  \/ Begin \/ WalkOn \/ View \/ Pack \/ Write \/ Clean \/ GiveUp
  \/ Restart \/ Restore \/ Loaded

Spec == Init /\ [][Next]_vars

-----------------------------------------------------------------------------
(* Properties.                                                             *)

\* The messages in the arena.
Messages(b) ==
  LET from[off \in Int] ==
        IF off = -1 THEN <<>>
        ELSE <<[where |-> Where(b[off + 1]), read |-> Read(b[off + 1]),
                text |-> SubSeq(b, off + Fixed + 1, off + Length(b, off))]>>
             \o from[NextAfter(b, off, All)]
  IN from[NextAfter(b, -1, All)]

\* What messages take in all, their text and `fixed` beside it each.
Cost(ms, fixed) == FoldSeq(LAMBDA m, n : n + fixed + Len(m.text), 0, ms)

\* The records fill the arena exactly, and no more of them than allowed.
TypeOK ==
  /\ Len(buf) <= Cap
  /\ LET ms == Messages(buf)
     IN /\ Len(ms) <= Limit
        /\ Len(buf) = Cost(ms, Fixed)
        /\ \A i \in DOMAIN ms : ms[i].where \in Wheres /\ Len(ms[i].text) <= MaxText
  /\ dirty \in BOOLEAN /\ held \in BOOLEAN
  /\ step \in {"idle", "walk", "view", "clean"}
  /\ stage = "up" => left = <<>>

\* What cache_blob would keep of the messages ms.
Fitting(ms) ==
  LET From(k) == SubSeq(ms, k, Len(ms))
  IN From(Min({k \in 1..Len(ms) + 1 : Cost(From(k), Overhead) <= Room}))

\* `dirty` is down only when flash holds what is in the arena, as much of it
\* as fits: no message is forgotten at a reset that a save had time to keep
\* (inbox.py:161, mesh.py:436).
CleanIsSaved ==
  stage = "up" /\ Idle /\ ~dirty => saved = Fitting(Messages(buf))

Promise == INSTANCE Mailbox WITH
  box <- Messages(buf), kept <- saved, todo <- left, up <- (stage = "up")

\* The packing, the walks, the evictions and the save in its steps come to
\* what the module promises.
RefinesMailbox == Promise!Spec

=============================================================================
