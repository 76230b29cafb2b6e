------------------------------ MODULE NodeStore ------------------------------
(***************************************************************************)
(* The settings: records in one flash page that is erased and written again *)
(* for every change (keystore.py, mesh_config.py), what a boot makes of     *)
(* them, and the client that changes them through admin messages (Session,  *)
(* _admin and _write of meshapi.py).  The cache lives in the same page, so  *)
(* saving it erases the settings too for a moment.  A page that was cut by  *)
(* a power failure fails its checksum and reads as empty: `store` is what a *)
(* reader would find.  Commands run under the hold, one at a time; only     *)
(* power can come between two steps of one.                                 *)
(***************************************************************************)
EXTENDS Integers

CONSTANTS
  Tags,        \* the names of records
  Kept,        \* those that provisioning fills in: the node number, the key
  Fresh,       \* with what
  Default,     \* and what Config reads where there is none
  Declared,    \* what code.py states at every boot
  Edits,       \* what one message of a client may set
  TooLong,     \* a value that no record can hold
  Unresolved,  \* records that Settings cannot be built from, when together
  Untuned,     \* and those it can be, but that no radio is configured with
  Keys, NoKey, \* passkeys
  NoEdit, NoWrite, NoRestart,
  Ttl,         \* PASSKEY_TTL_S
  Rotate,      \* PASSKEY_ROTATE_S
  MinRestart,  \* MIN_RESTART_S
  Delays       \* what a client may order a restart with

Nothing == [t \in {} |-> TooLong]
Values(f) == {f[t] : t \in DOMAIN f}
AllValues == Values(Fresh) \cup Values(Declared) \cup UNION {Values(e) : e \in Edits}
Records == UNION {[S -> AllValues] : S \in SUBSET Tags}

Thens == {"reload", "erase", "provision", "cache", "reset"}
PageWrites == [to : Records, then : Thens, sets : Records, full : BOOLEAN]

ASSUME NodeStoreOK ==
  /\ Kept \subseteq Tags
  /\ Fresh \in [Kept -> AllValues] /\ Default \in [Kept -> Values(Default)]
  /\ Edits \subseteq Records /\ Declared \in Records
  /\ \A u \in Unresolved \cup Untuned : DOMAIN u \subseteq Tags
  /\ NoKey \notin Keys
  /\ \A a, b, c \in Keys \cup {NoKey} : \E k \in Keys : k \notin {a, b, c}
  /\ NoEdit \notin Records /\ NoWrite \notin PageWrites
  /\ Rotate \in Nat \ {0} /\ Ttl \in Nat /\ Rotate < Ttl
  /\ MinRestart \in Nat \ {0}
  /\ Delays \subseteq Int
  /\ NoRestart \notin Int

VARIABLES
  store,      \* the records a reader of the page finds
  writing,    \* the page write going on: what it writes, and what comes then
  stage,      \* "off", "ready" (provisioned), "up", or "failed"
  config,     \* node.config, of which what provisioning fills in
  tuned,      \* the same in the transmitter
  pending,    \* PhoneAPI.pending
  key, age,   \* Session.key and the time since it was issued
  due,        \* time until restart_at
  pumped,     \* time: a pump has ended since the clock last moved
  present,    \* the client: is connected
  mine,       \* the passkey it read last
  answered,   \* it has read the last answer made for it
  since,      \* time since that was made
  edit,       \* what it has set since it began an edit
  replay,     \* a passkey of an earlier session
  promised,   \* history: what clients were told is stored
  ordered     \* history: a restart was ordered and not called off

flash == <<store, writing>>
node == <<stage, config, tuned>>
session == <<pending, key, age>>
client == <<present, mine, answered, since, edit, replay>>
vars == <<flash, node, session, due, pumped, client, promised, ordered>>

TypeOK ==
  /\ store \in Records
  /\ writing = NoWrite \/ writing \in PageWrites
  /\ stage \in {"off", "ready", "up", "failed"} /\ pumped \in BOOLEAN
  /\ config \in [Kept -> AllValues \cup Values(Default)]
  /\ tuned \in [Kept -> AllValues \cup Values(Default)]
  /\ pending \in Records \cup {NoEdit} /\ edit \in Records \cup {NoEdit}
  /\ key \in Keys \cup {NoKey} /\ mine \in Keys \cup {NoKey} /\ replay \in Keys \cup {NoKey}
  /\ age \in 0..Ttl /\ since \in 0..Ttl
  /\ due = NoRestart \/ due \in Nat
  /\ present \in BOOLEAN /\ answered \in BOOLEAN /\ ordered \in BOOLEAN
  /\ promised \in Records

Over(f, g) == [t \in DOMAIN f \cup DOMAIN g |-> IF t \in DOMAIN f THEN f[t] ELSE g[t]]

Without(f, S) == [t \in DOMAIN f \ S |-> f[t]]

Storable(f) == TooLong \notin Values(f)

Holds(s, part) == \A t \in DOMAIN part : t \in DOMAIN s /\ s[t] = part[t]

\* Config.settings does not raise.
Resolved(s) == \A u \in Unresolved : ~Holds(s, u)

\* Nor does protocol_configure.
Runs(s) == Resolved(s) /\ \A u \in Untuned : ~Holds(s, u)

-----------------------------------------------------------------------------
(* The page.                                                               *)

\* keystore_save and write_cache, from the erasure on.  The reader finds
\* nothing until it is done.
Write(to, then, sets, full) ==
  /\ store' = Nothing
  /\ writing' = [to |-> to, then |-> then, sets |-> sets, full |-> full]

Written == store' = writing.to /\ writing' = NoWrite

Idle == stage = "up" /\ writing = NoWrite

-----------------------------------------------------------------------------
(* A boot.                                                                 *)

\* config_provision.  A record that is missing gets its first value even when
\* it is declared.
Provisioned(s) == Over(Without(Fresh, DOMAIN s), Over(Declared, s))

Config(s) == [t \in Kept |-> IF t \in DOMAIN s THEN s[t] ELSE Default[t]]

\* RAM at power-on.
Forgotten ==
  /\ pending' = NoEdit /\ key' = NoKey /\ age' = 0

\* The client finds the link gone, or is a new one.
Apart(is) ==
  /\ present' = is /\ mine' = NoKey /\ answered' = TRUE /\ since' = 0 /\ edit' = NoEdit
  /\ replay' \in {replay, mine, key}

Down ==
  /\ stage' = "off" /\ config' = Default /\ tuned' = Default
  /\ due' = NoRestart /\ pumped' = FALSE /\ ordered' = FALSE
  /\ Forgotten /\ Apart(FALSE)

Init ==
  /\ store = Nothing /\ writing = NoWrite
  /\ stage = "off" /\ config = Default /\ tuned = Default
  /\ pending = NoEdit /\ key = NoKey /\ age = 0
  /\ due = NoRestart /\ pumped = FALSE
  /\ present = FALSE /\ mine = NoKey /\ answered = TRUE /\ since = 0
  /\ edit = NoEdit /\ replay = NoKey
  /\ promised = Nothing /\ ordered = FALSE

\* Node.__init__ provisions, once; an unchanged page is not written.
Provision ==
  /\ stage = "off" /\ writing = NoWrite
  /\ promised' = Without(promised, DOMAIN Declared)
  /\ IF Provisioned(store) = store
       THEN stage' = "ready" /\ UNCHANGED flash
       ELSE Write(Provisioned(store), "provision", Nothing, FALSE) /\ UNCHANGED stage
  /\ UNCHANGED <<config, tuned, session, due, pumped, client, ordered>>

ProvisionEnds ==
  /\ writing # NoWrite /\ writing.then = "provision"
  /\ Written /\ stage' = "ready"
  /\ UNCHANGED <<config, tuned, session, due, pumped, client, promised, ordered>>

\* The rest of the node is built, and the radio started, on what is stored now;
\* or building or starting it raises, and code.py ends.
Start ==
  /\ stage = "ready"
  /\ IF Runs(store)
       THEN stage' = "up" /\ config' = Config(store) /\ tuned' = Config(store)
       ELSE stage' = "failed" /\ UNCHANGED <<config, tuned>>
  /\ UNCHANGED <<flash, session, due, pumped, client, promised, ordered>>

\* Power goes.  A page being written is whole or is not.
PowerFails ==
  /\ Down
  /\ writing' = NoWrite
  /\ \/ writing = NoWrite /\ UNCHANGED <<store, promised>>
     \/ writing # NoWrite /\ store' = Nothing /\ promised' = Nothing
     \/ /\ writing # NoWrite
        /\ store' = writing.to
        /\ promised' = Without(promised, DOMAIN writing.sets)

-----------------------------------------------------------------------------
(* The client.                                                             *)

\* Fault: an edit left open is the next client's.
ResetKeyOnly == key' = NoKey /\ age' = 0 /\ UNCHANGED <<pending, due>>

\* Fault: the passkey outlives its client.
ResetEditOnly == pending' = NoEdit /\ UNCHANGED <<key, age, due>>

\* Fault: the restart goes with the client that ordered it.
ResetAll == Forgotten /\ due' = NoRestart

\* PhoneAPI.reset, at either edge of a connection.
Reset == Forgotten /\ UNCHANGED due

Attach ==
  /\ Idle /\ ~present
  /\ Reset /\ Apart(TRUE)
  /\ UNCHANGED <<flash, node, pumped, promised, ordered>>

Detach ==
  /\ Idle /\ present
  /\ Reset /\ Apart(FALSE)
  /\ UNCHANGED <<flash, node, pumped, promised, ordered>>

\* Fault: a key is replaced only when dead.
StaleLate == key = NoKey \/ age >= Ttl

Stale == key = NoKey \/ age >= Rotate

\* Eight random bytes: none that anybody has.
NewKey == CHOOSE k \in Keys : k \notin {key, mine, replay}

\* admin_read, with Session.passkey in the answer.  Whoever asked may be gone
\* by now; a client has yet to read it.
Read ==
  /\ Idle
  /\ IF Stale
       THEN key' = NewKey /\ age' = 0
       ELSE UNCHANGED <<key, age>>
  /\ IF present THEN answered' = FALSE /\ since' = 0 ELSE UNCHANGED <<answered, since>>
  /\ UNCHANGED <<flash, node, pending, due, pumped, present, mine, edit, replay,
                 promised, ordered>>

\* It records the key as it arrives.
ReadAnswer ==
  /\ present /\ ~answered
  /\ mine' = key /\ answered' = TRUE
  /\ UNCHANGED <<flash, node, session, due, pumped, present, since, edit, replay,
                 promised, ordered>>

Accepts(k) == key # NoKey /\ k = key /\ age < Ttl

\* A message with a passkey: the client's own, or one of an earlier session.
Quoted(k) == Idle /\ k \in {mine, replay} /\ Accepts(k)

BeginEdit(k) ==
  /\ Quoted(k)
  /\ pending' = Nothing /\ edit' = Nothing
  /\ UNCHANGED <<flash, node, key, age, due, pumped, present, mine, answered, since,
                 replay, promised, ordered>>

\* keystore_provision.
Merged(values) == Over(values, store)

\* What clients count on once `s` is stored and reload has raised or not: then
\* the message is refused, and what it names is stored all the same.
Confirmed(s, sets) ==
  IF Resolved(s) THEN Over(sets, promised) ELSE Without(promised, DOMAIN sets)

\* _store: config_configure writes what has changed, and raises when a value
\* does not fit; then reload.  `sets` is what the client takes for stored.
Store(values, sets) ==
  IF ~Storable(values)
    THEN UNCHANGED <<flash, config, promised>>
    ELSE IF Merged(values) = store
      THEN config' = Config(store) /\ promised' = Confirmed(store, sets) /\ UNCHANGED flash
      ELSE Write(Merged(values), "reload", sets, FALSE) /\ UNCHANGED <<config, promised>>

Stored ==
  /\ writing # NoWrite /\ writing.then = "reload"
  /\ Written
  /\ config' = Config(writing.to)
  /\ promised' = Confirmed(writing.to, writing.sets)
  /\ UNCHANGED <<stage, tuned, session, due, pumped, client, ordered>>

\* set_owner, set_channel, set_config: into the edit, or into flash.
Set(k, values) ==
  /\ Quoted(k)
  /\ IF pending = NoEdit
       THEN Store(values, IF edit = NoEdit THEN values ELSE Nothing) /\ UNCHANGED pending
       ELSE /\ pending' = Over(values, pending)
            /\ promised' = IF edit = NoEdit THEN Over(values, promised) ELSE promised
            /\ UNCHANGED <<flash, config>>
  /\ edit' = IF edit = NoEdit THEN NoEdit ELSE Over(values, edit)
  /\ UNCHANGED <<stage, tuned, key, age, due, pumped, present, mine, answered, since,
                 replay, ordered>>

\* What a client whose commit is not refused takes for stored.
Told == IF edit = NoEdit THEN Nothing ELSE edit

\* The edit is over whether or not its values can be stored.
CommitEdit(k) ==
  /\ Quoted(k)
  /\ IF pending \in {NoEdit, Nothing}
       THEN promised' = Over(Told, promised) /\ UNCHANGED <<flash, config>>
       ELSE Store(pending, Told)
  /\ pending' = NoEdit /\ edit' = NoEdit
  /\ UNCHANGED <<stage, tuned, key, age, due, pumped, present, mine, answered, since,
                 replay, ordered>>

-----------------------------------------------------------------------------
(* Resets.                                                                 *)
Max2(a, b) == IF a > b THEN a ELSE b

\* Fault: as ordered.
DelayAsGiven(s) == s

\* _schedule: a negative time calls it off.
Delay(s) == IF s < 0 THEN NoRestart ELSE Max2(s, MinRestart)

\* ADMIN_REBOOT.
Reboot(k, s) ==
  /\ Quoted(k)
  /\ due' = Delay(s)
  /\ ordered' = (s >= 0)
  /\ UNCHANGED <<flash, node, session, pumped, client, promised>>

\* factory_reset: the settings, then the cache if it is a full one, then a
\* restart.  An edit stays open.  Nothing shows whether an empty page is written
\* again or found unchanged.
FactoryReset(k, full) ==
  /\ Quoted(k)
  /\ Write(Nothing, "erase", Nothing, full)
  /\ promised' = Nothing
  /\ UNCHANGED <<node, session, due, pumped, client, ordered>>

Erased ==
  /\ writing # NoWrite /\ writing.then = "erase"
  /\ \/ writing.full /\ Write(Nothing, "erase", Nothing, FALSE) /\ UNCHANGED <<due, ordered>>
     \/ Written /\ due' = MinRestart /\ ordered' = TRUE
  /\ UNCHANGED <<node, session, pumped, client, promised>>

\* Node.save, from service or a poll.
SaveCache ==
  /\ Idle
  /\ Write(store, "cache", Nothing, FALSE)
  /\ UNCHANGED <<node, session, due, pumped, client, promised, ordered>>

Saved ==
  /\ writing # NoWrite /\ writing.then = "cache"
  /\ Written
  /\ UNCHANGED <<node, session, due, pumped, client, promised, ordered>>

\* The end of pump: restart_due is asked after everything else.  A restart
\* saves first, if there is anything to save.
Turn ==
  /\ Idle /\ due # 0
  /\ pumped' = TRUE
  /\ UNCHANGED <<flash, node, session, due, client, promised, ordered>>

Restart ==
  /\ Idle /\ due = 0
  /\ \/ Down /\ UNCHANGED flash
     \/ Write(store, "reset", Nothing, FALSE)
        /\ UNCHANGED <<node, session, due, pumped, client, ordered>>
  /\ UNCHANGED promised

Restarted ==
  /\ writing # NoWrite /\ writing.then = "reset"
  /\ Written /\ Down
  /\ UNCHANGED promised

\* Under serve() no unit of time passes without a pump.
Tick ==
  /\ pumped
  /\ pumped' = FALSE
  /\ age' = IF age < Ttl /\ key # NoKey THEN age + 1 ELSE age
  /\ since' = IF since < Ttl /\ present THEN since + 1 ELSE since
  /\ due' = IF due = NoRestart THEN due ELSE Max2(due - 1, 0)
  /\ UNCHANGED <<flash, node, pending, key, present, mine, answered, edit, replay,
                 promised, ordered>>

Rearm == (\E k \in Keys, s \in Delays : Reboot(k, s)) \/ Erased

\* Either way a pump has ended.
Pump == Turn \/ Restart

PageEnds == ProvisionEnds \/ Stored \/ Saved \/ Restarted

Next ==
  \/ Provision \/ Start \/ PowerFails
  \/ Attach \/ Detach \/ Read \/ ReadAnswer
  \/ \E k \in Keys : BeginEdit(k) \/ CommitEdit(k) \/ \E e \in Edits : Set(k, e)
  \/ Rearm
  \/ \E k \in Keys, full \in BOOLEAN : FactoryReset(k, full)
  \/ SaveCache \/ PageEnds \/ Pump \/ Tick

\* A page write ends, and serve() goes on; nothing keeps a pump in its loop for
\* ever.
Spec ==
  /\ Init /\ [][Next]_vars
  /\ WF_vars(PageEnds \/ Erased) /\ SF_vars(Pump) /\ WF_vars(Tick)

-----------------------------------------------------------------------------
(* Properties.                                                             *)

\* What a client was told is stored is what the page holds, across edits,
\* clients, restarts and saves of the cache, until it is set again, reset, or
\* lost with the page (nodeinfo.py:60).
PromisesKept ==
  writing = NoWrite => \A t \in DOMAIN promised : t \in DOMAIN store /\ store[t] = promised[t]

\* A message captured in an earlier session is worth nothing (meshapi.py:714).
NoReplay == replay \notin {NoKey, mine} => ~Accepts(replay)

\* A client that has read the last answer made for it can write for as long as
\* the second half of a key's life (meshapi.py:177).
AnswerIsGood ==
  present /\ answered /\ mine # NoKey /\ since + Rotate <= Ttl => Accepts(mine)

\* A restart that was ordered happens unless it is called off, whoever leaves
\* meanwhile (meshapi.py:783), and unless it is ordered again for ever.
Obeyed == []<><<Rearm>>_vars \/ (ordered ~> ~ordered)

\* What this node says about itself changes at once, what is on the air does
\* not until a reset (meshnode.py:458): frames are opened with the key, and
\* told from its own by the number, that it sends with.
OnAirUnchanged == stage = "up" => config = tuned

\* A board does not refuse to boot because of a setting somebody stored
\* (mesh_config.py:133).
StoredBoots == stage # "failed"

=============================================================================
