# A model of cpy-meshtastic

The repository is a Meshtastic node for CircuitPython boards: a Rust `no_std`
crate (`meshtastic/src`) behind a native module, a Python library
(`meshtastic/python`) that is the node, and board scripts (`w12`). One
interpreter runs everything. What makes it hard is that the interpreter is
interrupted: the radio's DIO line schedules Python on top of Python, ctrl-C can
unwind any call, a phone may appear, vanish and reconnect between two turns of a
loop, and the board may lose power between any two flash writes.

## The system

| Part | State it keeps | Operations | Talks to |
|---|---|---|---|
| `mesh.py` | `_busy`, `_node`, `_phone` | `start`, the prompt's commands, `serve`, `stop`, `_collect` | the node, the phone, the DIO interrupt |
| `radio_lr2021.py` | `_listening`, mode; in the chip: FIFO, flags, length field | `listen`, `standby`, `send`, `collect`, `busy`, `watch` | the chip over SPI |
| `meshnode.Node` | deadlines, clock rank, counters | `poll`, `service`, `send`, `listen`, `introduce`, `locate`, `save`, `reload`, `factory_reset` | all of the tables below |
| `mesh_tx.py`, `duty.rs` | airtime buckets, packet counter | `allows`, `record`, `used` | `Node.send` |
| `nodedb.py`, `roster.rs` | a fixed table of peers, names | `heard`, `learn`, `restore`, `forget_all` | `_receive`, the phone, the cache |
| `inbox.py`, `inbox.rs` | an arena of messages | `add`, `read`, `restore`, `newest`, `forget_all` | `_receive`, the REPL, the cache |
| `meshapi.py` | one client's session: configuration dump, admin passkey, pending restart | `receive`, `heard`, `reset`, `alive`, `restart_due` | the transports, the node, the store |
| `meshble.py`, `meshtcp.py` | connection, outgoing queue, keepalive | `pump` and what it calls | a phone |
| `stream.rs` | framing state and length | `feed` | `meshtcp` |
| `keystore.py`, `mesh_config.py`, `store.rs` | settings in NVM | `load`, `save`, `provision`, `erase` | the node at start, admin messages |
| `meshcache.py`, `cache.rs` | cache region in NVM | `cache_load`, `cache_save`, `cache_erase` | the node at start and on its deadlines |
| `meshradio.py`, `mesh_protocol.py`, `region.rs`, `preset.rs` | the settings in force | `Settings`, `protocol_configure`, `tune`, `decode` | `Node.start`, the adapters |
| `packet.rs`, `payload.rs`, `codec.rs`, `nodeinfo.py`, `mesh_proto.py` | none | build and read frames, bodies, the client's messages | everything that sends or hears |
| `gps.py`, `nmea.rs` | the receiver's pins, UART, line in progress, fix | `open`, `poll`, `probe`, `close` | `Node.service`, the clock |
| `meshpower.py`, `power.rs` | pins | `report` | the phone session, `status()` |
| `meshtext.py`, `mesh_repl.py`, `code.py` | none that outlives a call | what is shown and typed | the user |
| `tools/hoststub.py` | the crate and the boards a second time, in Python | what the native module offers | the host tests |

The Rust crate holds the tables and the parsers, the Python the control.
Everything but `_collect` runs in one foreground thread; `_collect` runs on top
of it, at any safe point of the interpreter, and reaches through `Node.poll` all
of the node: filing, saving, transmitting. `_hold` is what keeps the two apart.
A poll passes a packet through the node database, the inbox and the phone
session in turn; a save passes the first two through the cache into flash; a
phone reaches the store, the clock, the database and the transmitter through
admin messages.

Four places make it hard, and the models follow them: who owns the radio
(`mesh.py`), tables in fixed memory written in place and saved at odd moments
(`roster.rs`, `inbox.rs`, `meshcache.py`), a client that is never quite there
(`meshapi.py` and the two transports), and deadlines that are looked at on the
way past (`Node.service`). Around them lie pure functions that both ends of a
link have to agree on; `tools/hoststub.py` writes most of them a second time, and
the tests run against that second copy, so whether the two are one is a
question of its own.

## The modules

| Module | Models | Proved about in |
|---|---|---|
| `RadioHold` | `mesh.py`, the loops of `meshnode.py`, `radio_lr2021.py` | `RadioHold_proofs` |
| `DutyWindow`, `BenchDuty` | `duty.rs`, `mesh_tx.py`; the bench's ring | `DutyWindow_proofs` |
| `NodeDB`, `Recent`, `Roster` | `nodedb.py` and `roster.rs`; their promise; a row's bytes, twice | `NodeDB_proofs` |
| `InboxArena`, `Mailbox`, `BenchArena` | `inbox.py` and `inbox.rs`; their promise; the bench's arena | `InboxArena_proofs` |
| `PhoneLink` | `meshble.py`, the session of `meshapi.py` over it | `PhoneLink_proofs` |
| `StreamFraming`, `BenchStream`, `TcpLink` | `stream.rs`; the bench's reader; `meshtcp.py` over a socket | `TcpLink_proofs` |
| `PhoneMessages` | what `meshapi.py` and `nodeinfo.py` say and accept | `Upkeep_proofs` |
| `NodeStore` | `keystore.py`, `mesh_config.py`, admin of `meshapi.py`, a boot | `NodeStore_proofs` |
| `RadioSettings` | `mesh_protocol.py`, `region.rs`, `preset.rs`, `airtime.rs`, each `tune` | `Upkeep_proofs` |
| `Flash`, `BenchFlash` | `store.rs`, `cache.rs` and their users, by bytes; the bench's | |
| `Wire`, `Payloads`, `BenchWire` | `header.rs`, `proto.rs`, `pbuf.rs`, `payload.rs`, `mesh_protocol.decode`, `meshtext.py`; the bench's | `NodeDB_proofs` |
| `Position` | `encode_position`, `Node.locate`, and the bench's | `NodeDB_proofs` |
| `Upkeep`, `Gnss` | `Node.service`, `save`, the clock; what the receiver's words come to | `Upkeep_proofs` |
| `Nmea`, `BenchNmea`, `Receiver` | `nmea.rs` and the line reader of `gps.py`; the bench's; pins and probe | |
| `Battery` | `meshpower.py`, `power.rs`, and the bench's | |

The upper modules are state machines, which TLC explores. The pure ones hold no
state; they are checked as assumptions of the MC module whose component uses
them, which TLC evaluates before it explores, and some of what they say is
proved. `PROJECT.json` maps every definition to its lines.

"Second copy" below means that: for the inputs listed, the board's function and
`hoststub.py`'s give the same, and a test that passes on the host says something
of the board.

## RadioHold: who owns the radio

`RadioHold.tla` covers `mesh.py`'s holds, `Node.poll`, `Node.listen` and
`Node.send`, and the LR2021 adapter. There are two contexts, the foreground
(`fg`) and the scheduled callback (`cb`); the callback runs on top of the
foreground and to its end. A context's remaining work is a sequence of
operations, one per driver call or loop test: `poll` is replaced by `service`
and `collect`, `guard` by `standby`, and so on. The chip (external) may receive
between any two of them.

An operation may also be left by an exception (`Interrupt`): ctrl-C anywhere; a
received nodeinfo, position or telemetry body that `decode` cannot read, which
nothing between `_receive` and the prompt catches (`meshnode.py:575`); or the
driver's RuntimeError, where `poll` and `wait_for_clear` do not catch it
(`CollectFails` and `BusyFails` are where they do). `Cut` is what the operation
had done to the radio by then, `Unwound` which `finally` clauses still run: of a
hold's body its `finally`, of a hold's `finally` nothing. `serve` ends at ctrl-C
with a save and at any other exception without one.

| Variables | Code |
|---|---|
| `busy`, `where`, `outer` | `mesh._busy`, where a context is in `_hold`, `_hold`'s local |
| `todo`, `quota`, `tries`, `frame`, `resume` | the call stack and its locals |
| `serving` | `serve`'s loop: turning, about to save, ended by an exception, or none |
| `pending`, `watched` | the scheduled callback, the attached interrupt |
| `listening`, `mode`, `anyLength`, `flags`, `held` | the adapter and the chip |
| `landed`, `filed`, `waived`, `wiped` | history for the properties |
| `cut` | history: a send was left before its frame started, and no `listen` since |
| `faults` | bound: the exceptions so far, caught or not |
| `slipped`, `calm` (in the MC module) | history: an exception has left a hold's `finally`; no ctrl-C, failed driver call or `stop()` has happened |

What decides a branch in code outside the module (a deadline that has come, the
duty cycle's answer, a phone that asked for something, the CAD's verdict) is a
free choice.

| Run | What it checks |
|---|---|
| `hold` | types; the callback and the foreground never own the bus together, whatever is raised; packets are filed at most once and in order; a receiving chip accepts any length, unless a send was `cut`; until an exception leaves a hold's own `finally`, `_busy` means a hold, and under `serve`'s loop a raised DIO line is lowered again; and while `calm`, unreadable bodies or not, rest means receive |
| `hold_declined` (violated) | a packet declined during a transmission is wiped by the `listen` that ends it |

Two packets are enough for one in the chip, or replaced there, behind one in
hand or filed. `Limit` and `Tries` are 2 instead of 8: enough to loop and to run
out. One exception in a behaviour: what the first does to the state is what the
properties ask about; the theorems have any number. Every command, `stop` and
every kind of exception are in the one passing run.

Fairness: an operation that can run does (one interpreter), a pending callback
is run at a safe point (MicroPython's scheduler), and `serve`'s `while` takes
its next turn, for as long as its loop has not been left. Nothing is assumed of
the air.

What the exceptions come to, as the model shows it:

- One out of the last poll of a hold (`mesh.py:101`) skips `_busy = outer`
  (`mesh.py:106`). The flag is then up with nobody holding: `_collect` always
  declines, every later hold takes itself for an inner one and drains nothing,
  and `serve`'s turn, which only pumps and serves deadlines, never collects.
  The node hears nothing more unless somebody calls `poll` or `listen`. It takes
  neither ctrl-C nor `stop()`: one nodeinfo that cannot be decoded will do.
- The same body during a turn of `serve` ends the loop, without its save.
- A driver call that fails in `busy` before the CAD (`BusyFails`) leaves the radio
  in standby, and `wait_for_clear` only refuses the send; so does ctrl-C between
  `transmit` and `listen` (`meshnode.py:312`).
- A send left between the length field and `set_tx` leaves the chip receiving
  with the outgoing length as its ceiling, until the next `listen`.

Two more windows the model has, and no run is spent on: `start` listens before it
attaches the interrupt (`mesh.py:122-125`), so a packet that lands in between
raises an edge nobody sees; and one that lands after the last `collect` of a
hold and whose callback ran while `_busy` was still up waits for the next
command at a prompt without `serve` (`mesh.py:106-111`).

## DutyWindow: the transmit budget

`DutyWindow.tla` is the ring of `duty.rs` with its header, and `Node.send`'s use
of it: ask (`Ask`), wait through listen-before-talk (`stage = "waiting"`, any
time), transmit, record; or, when ctrl-C or the driver's RuntimeError leaves
`radio.send` with the frame on the air, not record (`LeftOnAir`). `Reboot` is a
reset; `Restart` is `release()` and `start()` at the prompt, which begins with a
new, empty ring while the clock runs on. `clock` is real time and `clock -
booted` the monotonic clock that the buckets are counted by. `credit`, `aired`
and `unrecorded` are history since the ring was last emptied: what was recorded
in which slot, what was on the air when and recorded (or is under way), and what
was on the air and never recorded.

`duty_budget` checks that each bucket holds exactly what was recorded in the
slot it stands for (`WindowExact`), that no stretch of the window less one
bucket carries more than the budget and what was left unrecorded in it
(`BudgetKept`), and that in every state reached, for every slot asked for,
`BenchDuty` clears, records and reports as the crate does (`SameRing`). A ring
of three buckets of two units over nine units lets the ring turn once and a half
and be idle for longer than itself; frames of one and two units against a budget
of two make both answers happen; one reboot or restart, and one frame
unrecorded. "Less one bucket" is needed: the current bucket is partial, so the
interval is rounded down, not up as `duty.rs:11-12` says; over the whole window
TLC finds two bursts that are together too much.

Three things the model also shows. Airtime is credited when a transmission ends,
to the bucket of that moment. A reset, and a `release()` followed by a `start()`,
forget the window, so a node that is restarted may spend its allowance again:
for that reason the history begins anew with the ring. And an exception out of
`radio.send` skips the record (`meshnode.py:312-313`), though "airtime is recorded
anyway" is meant of a transmission that fails (`meshnode.py:315`): such a frame
may be sent beside a whole budget, and `BudgetKept` allows for no more than it.

## NodeDB, Recent and Roster: who has been heard

`NodeDB.tla` is the table of `roster.rs` as an array of rows written in place
(`table`), the name dictionaries (`names`), `_used`, `_tick`, `dirty`, and the
saved copy (`saved`, whose order in flash is that of `seen`). `Receive` is
`heard` followed by `learn`, as `_receive` calls them for one packet. `Restart`,
`Restore` and `Loaded` are a reset and `cache_load`, record by record. The two
dictionaries, which every operation treats alike, are one; hardware and role are
one `id`; signal figures and times are left out. A save under a hold is one step
(`Save`), since nothing runs in it. That of `stop()` is under none
(`mesh.py:441`) and is taken apart: `StopLook` lists the peers, `ReadPeer` reads
one, `StopWrite`, `StopDone`, and `StopFails` at any point; `Receive` may come
between any two. `roster()` and the reading of one record are each a step.

| Variables | Code |
|---|---|
| `table`, `names`, `used`, `tick`, `dirty` | the rows, `_short` and `_long`, `_used`, `_tick`, `dirty` |
| `saved`, `left`, `stage` | the records in flash, those `cache_load` has still to put back, whether it has ended |
| `saving`, `views`, `got` | where `stop()`'s save is, the peers it has still to read, what it has read |
| `strays` | history: packets from node 0 since the rows were last cleared |
| `slipped` | history: a packet was filed during `stop()`'s save, and no held save since |

`Recent.tla` says what that is for: a list, longest unheard first, that loses its
first for a stranger when full and comes back in order after a restart. `NodeDB`
maps its records to it, by rank: the i-th is the one with i - 1 older ones.
`Roster.tla` is a row byte by byte, by `roster.rs`'s offsets and by the layout
`hoststub.py` states.

`nodedb_table` checks types; `RowsSound`, that no node has two rows, no two rows
tie in age, only nodes with a row have names and `_used` counts the rows taken
and the `strays`; `CleanIsTrue` and `CleanIsWhole`, that while `dirty` is down
and nothing has `slipped` flash says nothing false, and as much as fits of what
is true; and, with the same exception, `RefinesRecent`. Three nodes and node 0
over two rows make every arrival a possible eviction; `Room` for two records
without names, or one with, makes saves drop records; four ticks allow two
evictions after a restart. Nodes are interchangeable, hence the symmetry.

Two faults of the code are inside the model. A packet whose sender is 0 is filed
(`meshnode.py:568-576`, `nodedb.py:250-262`), and 0 is the free marker: its row
stays free, `_used` is one too many for each such packet, at a full table it costs
the oldest peer its row, and the next stranger inherits its count (`Recent`'s
`spare`). And a packet that `_collect` files between `stop()`'s look at the peers
(`meshcache.py:125-127`) and its `nodes.dirty = False` (`meshcache.py:254`) is in
no flash although nothing is owed: without `~slipped` TLC finds both clean-flash
properties violated, as `inbox_stop` shows for the messages. The next held save
that is forced, or that other news asks for, puts it right.

Its assumptions: `RowsAreBytes` over tables of three rows (ages that tie, counts
at the ceiling, a number wider than a byte) has every scan and every write of
`Roster` be `NodeDB`'s and the bench's. `FramesAgree`, `KindsRead`,
`BenchReadsAlike`, `LinesWhole` and `QuestionsUnderstood` belong to `Wire` below.

## InboxArena, Mailbox and Flash: what has been said, and where it is kept

`InboxArena.tla` is the arena as bytes: a record is a head cell (conversation
and read flag), a length cell and its text, and every walk goes from length to
length as `inbox.rs` does, also from an offset that no longer is a record's
start. `Add` is `append` with all its evictions, `Look` is `read`. A save is
taken apart: `WalkOn` (one `inbox_next`), `View` (one `inbox_read`, and a
memoryview of the text), `Pack` (one record written to the blob), `Write`,
`Clean`; `GiveUp` is a MemoryError. While `held` is true the callback declines,
so nothing comes between; `stop()` does not hold.

`Mailbox.tla` is the promise: a bounded queue of whole messages, cut between
characters, read once looked at, kept in flash as far as they fit, newest first.

| Run | What it checks |
|---|---|
| `inbox_held` | types (the records fill the arena exactly), `CleanIsSaved`, `RefinesMailbox` |
| `inbox_stop` (violated) | `CleanIsSaved` when `stop()` saves: a message filed meanwhile is in no flash and `dirty` is down |

`inbox_stop`'s shortest trace loses a message. A slightly longer one packs
half a character: with a full arena an append moves the bytes under the
memoryviews, and at the next start the decoder raises and `cache_load` drops
the rest of the cache.

Texts of none, one (cut inside a two-byte character) and two bytes in an arena of
seven cells and at most two messages: either bound may bite, and one arrival may
push out both messages. Flash for four units may be too small for two.

Assumptions of `MCInboxArena`: `BenchArenaAlike`, the second copy, over every
arena of up to two messages; `PageKeepsIt` and `BenchKeepsIt` over `Flash`, which
is the page in bytes with both headers, checksums and record formats, for a page
of 40 bytes of settings and 100 of cache. What is stored is read back, nothing
of a longer record before it is left, the other region is as it was, a second
save of the same erases nothing, and of the newest records as many are kept as
fit. The checksum is an operator; that it tells a torn page from a whole one is
`NodeStore`'s premise.

## PhoneLink: a client over BLE

`PhoneLink.tla` is `meshble.Phone`'s pump with what of `PhoneAPI` a client is
told. `Watch` is the look at the connection, with the clearing that both edges
do; `Receive` reads one write and starts `receive()`; `Offer` queues one message
of what it yields, or drops the rest when the queue is full; `Close` is the
keepalive and the doorbell; `Heard` is a packet from a poll between two pumps.
The SoftDevice (`Connect`, `Disconnect`, `ReadOne`) and the app (`Write`) act at
any moment, also in the middle of a pump: the queue is read without the
interpreter knowing. One client gone and another come between two looks would be
no edge at all; only the advertisement, which the departure's edge restarts,
rules that out.

| Variables | Code |
|---|---|
| `connected`, `config_id`, `ready`, `quiet` | `Phone.connected`, `PhoneAPI.config_id`, `_ready`, the time since `_spoke` |
| `queue`, `inbox` | the FROMRADIO read queue, TORADIO's packet buffer |
| `step`, `reply`, `ends`, `pumped` | where `pump` is, what the generator has still to yield |
| `link`, `advertising`, `reading`, `waiting` | the SoftDevice and the app |
| `mine` of a message, `halves`, `told`, `starved` | history for the properties |

`phone_ble` checks types; `OwnQueue`, nothing queued for a client was made for
another; `DumpWhole`, a terminator follows all its dump promises; `DumpFirst`, no
mesh traffic before it; `NeverStarved`, the keepalive; `Announced`, what is
queued is rung for.

A message stands for its section of a dump, so a queue of three is just room for
a whole dump and too small for two: refusals happen at each place of a dump. Two
writes may wait, so that requests overlap and one outlives its client; a
keepalive of two units distinguishes due from not due.

Fairness is that of `serve()`, which keeps pumping, and no more: `Tick` waits for
a pump because a turn of the loop is shorter than the keepalive by far. Nothing is
assumed of the client. The app waits for an answer before it writes again within
one pump, as `meshble.py`'s note on the packet buffer expects.

What a departed client wrote stays in the packet buffer; the pump that notices
the departure still answers it, after the reset, and only the next arrival's
edge clears the queue and the session again. That is why both edges clear, and
`OwnQueue` fails when one does not. Two behaviours no property is about. A client
that connects and writes while a pump is in its loop is answered by that pump
(`meshble.py:419`), and the next one takes the connection for an edge and throws
the answer away; the app has to ask again. And a client that comes and goes
between two looks (`Connect` and `Disconnect` with no `Watch` between) has ended
the advertisement for good: only a departure that is noticed starts it again, so
nobody finds the board until it restarts. The comment at `meshble.py:363` means
to rule that out; the theorem `UnfindableForGood` says that no step leads out.

## TcpLink and StreamFraming: a client over TCP

`StreamFraming.tla` is the reader of `stream.rs` byte by byte, with what it
counts, and the writer. `TcpLink.tla` puts `meshtcp.Network`'s pump over it:
`Accept`, `Recv` (one `recv_into` and the first call of `feed`), `FeedOn` (the
next on what is left of it), `Close` (keepalive and `_drain`), `Gone`, and
between pumps `Heard`, `Stop`, `Advertise`. The socket takes or gives any part,
blocks or breaks; the client writes, leaves in the middle of a frame, or
babbles.

| Variables | Code |
|---|---|
| `listening`, `connected`, `asked` | `_sock`, `_client`, whether `config_id` is set |
| `reader`, `chunk`, `step` | `_state`, what was read and not fed, where `pump` is |
| `out`, `at` | `_out` from `_at` on, `_at` |
| `alive`, `wire` | the client's end of the socket and what it has sent |
| `expect`, `last`, `halves`, `astray`, `torn`, `mine` of a cell | history for the properties |

`tcp_stream` checks types (with them that the buffer stays below twice its
nominal size); `HeardWhole`, the node acts on the messages its client framed,
each whole, once and in order, and on nothing else, whatever noise is between;
`ToldWhole`, a client gets whole frames from its first byte on and none of
another's; `DumpWhole`.

A byte has four values, of which two are the start bytes and may also be said;
the bounds fit one frame and the first byte of the next, so that a read may end
one and begin another; noise is a header that asks for nothing, one that asks
for too much and a lone start byte. A queue of four cells just holds a dump.
`BenchStreamAlike` has the second copy alike over every reader that six bytes
lead to; the theorems `OneReader` and `OneStream` say so for every alphabet, frame
size and length of read.

## NodeStore: the settings, and who may change them

`NodeStore.tla` follows the settings from an admin message to the flash page and
back into the node at a boot. `store` is what a reader of the page finds, which
is nothing from the moment the page is erased until it is written (`writing`),
and nothing after a power failure in between: the checksum of `store.rs` turns
a torn page into an empty one. The cache is in the same page, so `SaveCache`
takes that risk too. `Provision` and `Start` are the two halves of a boot;
`Set`, `BeginEdit`, `CommitEdit`, `Rearm` and `FactoryReset` are `_write`, behind
`Accepts`; `Turn` and `Restart` are the end of a pump. Records that no
`Settings` can be made of (`Unresolved`), or no radio configured with
(`Untuned`), raise where the code does: in `reload`, at the first or second half
of a boot.

| Variables | Code |
|---|---|
| `store`, `writing` | the keystore's region, a page write in progress and what follows it |
| `stage`, `config`, `tuned` | `Node.__init__` and `start`; `node.config`; the transmitter's copy |
| `pending`, `key`, `age`, `due` | `PhoneAPI.pending`, `Session.key`, the time since `issued`, until `restart_at` |
| `present`, `mine`, `answered`, `since`, `edit`, `replay` | the client's side, and an earlier session's key |
| `promised`, `ordered` | history: what clients were told since the page was last lost |

Of `config` the model keeps what provisioning fills in, the key and the number,
because those decide what is opened and what is sealed.

| Run | What it checks |
|---|---|
| `store_page` | types; `PromisesKept`, what a client was told is stored survives everything but a reset, another write or the loss of the page (a power failure while it is being written, by a client's write or a save of the cache, takes it and every promise with it); `NoReplay` and `AnswerIsGood`, the passkey dies with its session and lasts long enough; `Obeyed`, an ordered restart happens |
| `store_reload` (violated) | `OnAirUnchanged`: `reload` changes the key frames are opened with, while the transmitter keeps the old one |
| `store_boots` (violated) | `StoredBoots`: values that are each legal make a store no later boot comes up on |

The same fault behind `store_reload` has a second face: a name stored between a
factory reset and the restart it owes makes `node_num` None. `AnswerIsGood` speaks
of a client that has read its last answer; one that writes before that quotes
the older key and is refused, though `meshapi.py:718` thinks it cannot be. And a
key declared in `code.py` is not the one the first boot of a blank board runs on.

A name of two values, one too long for a record; a declared region that the
phone may set and the next boot takes back; two units of a passkey's life with
rotation after one. What a client writes is computed: the section it reads of
such a node (`PhoneMessages`), with one thing changed, so that a write of the
preset carries the region and the power with it. Which pairs do not fit comes
from `RadioSettings`. Four passkeys are as many as can be told apart: the
session's, the client's, a captured one and a fresh one; which is fresh does not
matter, so the model takes any. Fairness: a page write ends, `serve()` keeps
pumping, and no client keeps a pump in its loop for ever (strong, since every
page write suspends it). `Obeyed` excepts clients that order again for ever.

Assumptions of `MCNodeStore`: `TablesAgree`, the tables hold what the theorems
about them ask for, `self_check`'s two frequencies come out, and the stock
preset runs in every region on a radio that has the band; `AirtimeTold`, a frame
takes the time the crate's own tests work out by hand, the bench's copy agrees
for every length and preset, and no preset is so slow that a whole frame exceeds
an hour's budget in its region; `SectionsAgree`, over
every region and preset, a section read is a section written back, numbers of
the app are one to one, admin reads say what the dump said, a write needs the
passkey that came with the read, and figures asked for are told; `PackTold`, the
battery: board and bench read one curve, which never falls, a pack that charges
is never full, and a pack that is not there is told as 101, the app's code for
mains.

## PhoneMessages and RadioSettings

`PhoneMessages.tla` is every section of the dump, every admin read and write,
and `_transmit` with each way it may end; a message is its fields.
`RadioSettings.tla` is the tables, `Settings`, the slot of a channel, what
`protocol_configure` and each `tune` refuse, and the time a frame takes on air.
Both are checked by `MCNodeStore`'s assumptions above, and proved about. A
malformed or oversize ToRadio, which raises a ValueError that neither transport
catches, is outside them; what a packet that was parsed raises on its way
through the node (a body too long for a frame, the radio's RuntimeError, the
decoding of the node's own frame) is `Transmit`'s `raises`, and no QueueStatus
is sent then. The docstring of `queue_status` has it "on every path out of
`_transmit`" (`meshapi.py:411-412`), since the app sends nothing more until it
has one.

Seen on the way: the section tells a client the radio's power when none is
stored, so an app that writes it back pins that power; a psk of one zero byte
stores an empty key; a negative power is read back as a large number; a name of
more than twelve bytes is cut; a name of more than 255 is accepted into an edit
and refused at its commit. `code.py` says the phone cannot change settings, and
it can.

## Wire, Payloads and Position: what goes over the air

`Wire.tla` is varints, fields, the data envelope, the header and its flags, the
counter block, `frame` and `decode`, over a keystream that is a constant.
`Payloads.tla` reads each kind of body, and has the columns `listen` shows and
the questions `ask` sends. `BenchWire.tla` is the second copy of both.

`MCNodeDB` evaluates, with varints of three groups: what is written is what is
read, after any number of relays (`FramesAgree`); a message cut within a field
is refused, which is the only test of a key there is; of all noise of up to
three bytes from an alphabet of twelve, and of bodies of up to five, the bench
reads what the crate reads (`BenchReadsAlike`); a line's columns depend on its
kind alone (`LinesWhole`); every question is answered in kind
(`QuestionsUnderstood`).

Where they differ is stated in the assumptions too. The bench is laxer: a field
with a body taken for a number counts as 0 and not as its length, a field number
of 0, bodies that run over the end and varints of more than ten groups pass, and
hops may come out negative. A test on the host therefore cannot show that the
board refuses those. `decode` says it returns None for what it cannot read;
unreadable nodeinfo, position and telemetry bodies raise ValueError instead
(`RaisesForBodies`), out of `poll`, whose packet is then not filed. `parse_data`
passes over a known number of the wrong wire type. Names are cut at 40 and 5
bytes, perhaps within a character.

`Position.tla` is what is stated of a fix at a precision: nothing the receiver
does not vouch for, no more digits than set, and the same from everywhere in a
square; the bench alike, for coordinates of six bits (`PositionsAlike` of
`MCReceiver`). At precision 1 a latitude may be stated beyond the poles.

## Upkeep and Gnss: deadlines and the clock

`Upkeep.tla` is `Node.service` with `save`, `set_clock`, `_seed_clock` and the
prompt's `save` and `introduce`; `Gnss.tla` what a sentence does to the fix. A
deadline is the seconds left to it, the clock what it is ahead by, so that no
state grows with time.

| Variables | Code |
|---|---|
| `rank`, `clock`, `attached` | `clock_rank`, the RTC, whether a client is connected |
| `fix`, `nextGps` | `gps.fix`, `_next_gps` |
| `dirty`, `settleAt`, `nextSave` | the tables' flags, the two saving deadlines |
| `nextPos`, `nextInfo`, `ask` | the broadcast deadlines, `_ask_names` |
| `best`, `worst` | history: the best stamp heeded while the mesh is all there is, and telemetry's worst |
| `bare`, `silent` | history: the last GGA with a quality had no coordinates; the receiver has let a stamp get old |
| the rest | history: how long news waited, what was done too soon |

`upkeep_service` checks `ClockAsGood`, the clock is as right as its best source:
of stamps off the air it is between the worst and the best, and the best unless
some telemetry was an hour or more behind that; `Vouched`, a position that would
be stated came of satellites, unless `bare`; `NewsSaved`, news cannot be put off
by more news nor by saves without memory; `Paced`, the node does not save of
itself, or try a broadcast, before the interval; `Punctual`, a due nodeinfo
waits for at most one position. Intervals of two seconds, an autosave of four
and calls of `service` at most one second apart let each deadline come alone or
with each other; a stamp is one ahead, right, or three late, which is past the
hour a stamp may move a clock (two).

The two exceptions are what the code does. Any telemetry seeds the clock
(`meshnode.py:543-544`); from a node whose own clock is an hour or more behind it
strands this one, for no later stamp may move it that far, which is what the
comment at `meshnode.py:538-542` fears of positions alone. And a GGA of quality
1 to 5 whose coordinates cannot be read leaves the old ones and takes the
quality (`nmea.rs:465-475`): a position reckoned without satellites is then
vouched for.

Seen on the way: a receiver that falls silent leaves `fix.when` as it was, so
the clock is corrected by a stamp that ages (`silent` excepts it); `_ask_names`
is cleared although the first nodeinfo may be refused; a save before an ordered
restart that finds no memory is skipped, and the restart is not
(`meshnode.py:492`).

## Nmea, Receiver and Battery

`Nmea.tla` is the parser byte by byte and the line reader, `BenchNmea.tla` the
second copy. `MCReceiver`, which `MCTcpLink` extends so that the run
`tcp_stream` evaluates it (both are about streams of bytes that are cut
anywhere), states: sentences of each kind with good, odd and missing fields from
a blank and a full fix, board, bench and `Gnss` alike (`SentencesAlike`); dates
of four years and leap days (`DatesAlike`), minutes to degrees (`MinutesAlike`);
streams of up to five pieces cut into reads, never a line spliced of two
(`LinesAlike`); and that one read may end more sentences than the echo has room
for, so what is remembered is not the newest (`NewestMayBeLost`, beside the
comment at `gps.py:439`). The bench differs where the calendar raises (31
February, second 60), in finer digits, in odd forms of numbers, and in an
overlong line, which counts as bad once per 85 bytes and whose tail may pass.

`Receiver.tla` is the pins, the port and the probe. `ReceiverBroughtUp` of
`MCReceiver`, over all boards that up to three calls lead to: a receiver at work
is never reset by asking again, one opened after a probe is on a wiring that
talks, closing gives back every pin. `close` forgets the wiring a probe found,
and a probe of all wirings leaves the module on the last until it is opened.

`Battery.tla` is the curve, the divider, the charger's two pins and the report.

## What is proved

For every value of the constants, from the assumptions named in each module:

| Module | Theorems | Along which argument |
|---|---|---|
| `RadioHold_proofs` | `TypeOK`, `HoldExcludes`, `HearsAnyLength`, `FiledInOrder`, `BusyMeansHeld`, `RestsReceiving` | for any number and kind of exceptions. Outside a hold a context has only `start`'s and `stop`'s operations to run and the callback has none (`Shape`); a frame is in hand exactly when filing is next (`FileFirst`); a hold implies `_busy` (`Owned`); filed < in hand < in the chip (`Ordered`); a CAD, which restores receive, or a transmission, which `listen` follows, is the next step or not in the work at all (`Ready`), so a radio out of receive is one step from it (`Back`) |
| `DutyWindow_proofs` | `TypeOK`, `WindowExact`, `BudgetKept`, `SameRing` | the header never runs ahead of the clock and nothing is credited past it (`Behind`); a frame is in hand while one is waited for or sent (`Holding`); frames go out one after the other (`OneByOne`), what is over and was recorded is credited in the slot it ended in or later (`Credited`), and the frame in hand fits beside what the ring held when it asked (`Fits`) |
| `NodeDB_proofs` | `TypeOK`, `RowsSound`, `CleanIsTrue`, `CleanIsWhole`, `RefinesRecent` | for packets from node 0 as from any other. No row is younger than the tick (`TickAhead`); until a packet slips into `stop()`'s save (`FlashFits`), saved records name different nodes and are no more than the rows (`SavedOnce`, `SavedFits`), and such a save has so far read the newest peers there are, or all that fit (`Stopping`); while loading there is a row for every record left and flash is in memory or still to come (`Loading`), and all that is back came from flash (`Whole`); a free row holds nothing of who was there, and no two records in flash are of an age (`Tidy`). Each operation of the table is one step of the list |
| `NodeStore_proofs` | `TypeOK`, `PromisesKept`, `NoReplay`, `AnswerIsGood` | what a write under way will leave in the page agrees with what was told, but for what it sets (`Coming`); an edit is what its client has set (`OneEdit`); an earlier session's key is not the key (`Elsewhere`); the key is the last answer's, and no older than it by half a life (`Answered`) |
| `PhoneLink_proofs` | `TypeOK`, `OwnQueue`, `DumpWhole`, `DumpFirst`, `NeverStarved`, `UnfindableForGood` | the board advertises only with nobody noticed and, outside a pump's loop, nothing in the buffer (`Noticed`), so that what is in it, and what is being answered, is the present client's (`OwnWrites`, `OwnReply`); a part of a dump in progress is yet to be told, in the queue, or read, with no terminator since (`Telling`); an id is remembered once its terminator is queued (`Remembered`); time with nothing to read is no more than time since a word (`Hungry`) |
| `TcpLink_proofs` | `TypeOK`, `HeardWhole`, `ToldWhole`, `DumpWhole`; `FrameIsRead`, what `frame` writes is what `feed` reads; `OneReader` and `OneStream`, the bench's reader says the same, of a byte and of a read of any length | what is read and not yet fed, and what is still in the socket, will have said just what the client is still to be answered, and leave the reader between frames (`Hearing`); the buffer continues the frame the client is in the middle of, frame after frame, and a terminator in it has both halves of its dump before it, in the buffer or read (`Telling`). The reader: reading two pieces is reading their concatenation; then by the bytes of a frame, and by the five stages; of a read, by induction over its bytes |
| `InboxArena_proofs` | while no save lets the callback in (`~StopSaves`): `TypeOK`, `CleanIsSaved`, `RefinesMailbox` | the bytes are records one after the other, and the walk finds where each begins (`Sound`, `Laid`); the messages are no more, no bigger and no less readable than allowed (`Holdable`), in the arena and in flash; while loading, what is back and what is left are what was saved (`LoadOK`); a save under way has found the first records there are, then seen the last of them as long as they fit, then packed from where those begin (`SaveOK`); with nothing owed, flash is what fits (`FreshOK`). Each operation of the mailbox is one step of the arena, and the save one when it is written |
| `Upkeep_proofs` | `TypeOK`, `ClockAsGood`, `Vouched`, `NewsSaved`, `Paced`, `Punctual` | what has passed since an attempt and what is left to the next come to its interval (`SavesSpaced`, `SendsSpaced`); how long news has waited and what is left to settle do not exceed settling and one call (`Settling`); a nodeinfo was passed by only for a position armed just now (`Waiting`); a quality that confirms came with the place there is, or with none (`VouchedFor`); `ClockAsGood` is inductive as it stands |

Beside these `Upkeep_proofs` and `NodeDB_proofs` hold what is proved of the pure
modules, which needs no invariant:

| Of | Theorems | Along which argument |
|---|---|---|
| `PhoneMessages` | a packet handed over is answered by exactly one QueueStatus, first, unless what it asks for raises, and then by nothing; a dump ends with its one terminator | by the ways `_transmit` ends; by the kinds of a concatenation |
| `RadioSettings` | a frequency and its bandwidth lie in the band; slots do not overlap; power is within bounds | a slot is below the number of slots, which fit |
| `Wire` | flags read back; equal counter blocks have one sender and number; a frame opens after a relay changed the rest of its header | remainders; the sixteen bytes one by one |
| `Position` | a coarse square is stated alike and from nowhere else, and never more than half a side off | division with remainder |

`HoldExcludes` alone is not inductive: `_collect` enters only because `_busy` is
down, which must imply that nobody holds. `WindowExact` rests on arithmetic of
remainders: clearing the run of buckets that `expire` clears is the same as
moving the slot each bucket stands for. `BudgetKept` speaks of sums, over the
transmissions in a stretch and over the buckets of a ring: what has been on the
air in a stretch, but for the newest frame, is at most what is credited from the
stretch's first slot on, what was left unrecorded aside; no slot of the stretch
had left the ring when the newest frame was allowed; and the ring's sum, by
`WindowExact`, is the credit of its slots. The budget must be within a bucket's
range (`BudgetOK`): a sum that is capped below it would refuse nothing. Below
100% it is, being less than an hour in microseconds. That sums may be taken in
any order, and over parts, is proved of the community modules' folds as they
stand. `CleanIsTrue` needs `Loading`: a restart lowers `dirty`, so every record
must have found a row. `CleanIsWhole` is about what fits, and a sighting changes
the order in which that is tried: but when all of it fits the order does not
matter, only its weight, and the weight is that of the facts, which a sighting
that leaves `dirty` down does not change. For `RefinesRecent` a set of records
of different ages has just one order (`OneLine`), so that taking the oldest out
is `Tail`, a sighting moves its entry last, and the records that fit are a
suffix (`PartIs`, `NewestKept`) at the cost of what they weigh (`CostIs`). A row
taken over must be cleared first: a stranger starts with no count, but what
packets from node 0 left in a free row, and no id only because eviction clears
the row whole, and with no name only because names have rows. `RelayOpens`
assumes of the keystream that it is bytes, and of exclusive or that twice is
nothing. `NewsSaved` needs `Settling`: that a deadline is down says nothing of
how long it was. `Punctual` rests on calls coming closer together than positions
are stated, an assumption of `Upkeep` (`UpkeepOK`); of the stamps nothing is
assumed. `DumpWhole` needs `Telling`, which speaks of what was read as well as
of what is queued: a client may read the front of a dump while its end is still
to be yielded, and a refusal in the middle must leave nothing that a later
terminator could be taken to end. `TcpLink`'s asks the same of cells of frames,
of which a socket takes any number, and its `ToldWhole` of a buffer whose front
may be in the middle of a frame: a connection that breaks there is dropped with
the rest of it. `HeardWhole` assumes of the noise between two frames that it
says nothing and ends between frames (`NoiseOK`), which is what noise means: a
start pair in it would be a frame. `NeverStarved` needs that a pump that has
ended left the keepalive not due. `NoReplay` and `AnswerIsGood` rest on a fresh
key being none of the three that matter, and on rotation coming within a key's
life, both in `NodeStoreOK`; `PromisesKept` on what is sent being a record; of a
page lost to a power failure it says nothing, as the promises go with it.

`InboxArena` is proved on its bytes: that a walk finds the records and only them,
that marking and appending leave records, that what an append drops is as little
as the two bounds allow, and that a text is cut where it still reads. `TypeOK`
there is of little use without `Sound`: lengths are read where a walk arrives, so
one length that is wrong moves every record after it. `CleanIsSaved` needs the
save in its steps, and with `StopSaves` it is false (`inbox_stop`): the offsets
of `newest` are those of a buffer that `_collect` may have moved. That no message
in flash fails to decode, so that a restart brings all of it back, follows from
`Holdable`; `Restore`'s other way out is reached through `StopSaves` alone.

Two kinds of recursion come into these proofs: a function that runs along a
sequence (`Through`, the bytes the reader is given; the inbox's walks, along the
offsets), and a fold over a set (the sums, the bench's ring). The library's
theorems on induction take a predicate and are out of the provers' reach, so
both go by least elements: a set of numbers, or of subsets of a finite set, that
holds all its members can reach from below holds them all; the function is shown
to exist, and the definition then is its equation.

Only model-checked: `Drained`, `Announced` and `Obeyed`, which are liveness and
out of the prover's reach. What the pure modules compute over a whole buffer
(varints, bodies, sentences, pages) is evaluated for the inputs above and not
proved.

## The runs

Twelve: eight pass, one for each state machine over all its operations, and four
are violated, each by a disagreement of the code with a text of its own. No run
has more than some five million states. Every one of these systems may rest for
ever, so deadlock is checked in none.

| Run | Disagreement |
|---|---|
| `hold_declined` | `mesh.py:82-83` says a declined packet is not lost; `listen()` clears the FIFO it is in |
| `inbox_stop` | `stop()` saves outside a hold (`mesh.py:441`), and what `_collect` files meanwhile is lost |
| `store_reload` | `meshnode.py:458-460` says what is on the air is unchanged until a reset; it is opened with the new key at once |
| `store_boots` | `mesh_config.py:133-135` says no stored typo keeps a board from booting; pairs of legal values do |

## Plan

| Order | What | What it is to show |
|---|---|---|
| 1 | varints written and read back, for every number of groups | the codec beyond three groups |
| 2 | the records of `NodeDB` and `InboxArena` through the page `NodeStore` loses | what is left of both tables after a power failure in a write of the settings |

Another step worth taking: the deadlines of `meshradio.py` over a clock that
wraps.

## Not modelled

| What | Why |
|---|---|
| `ffi.rs`, the native modules | they marshal arguments and keep no protocol state |
| the board scripts of `w12` but `gps.py` | they measure and print |
| `hosttest.py`, `tests.rs` | cases, of which the models take what they say, not what they do |
| the stubs of boards, sockets and pins in `hoststub.py` | they keep no rule of the system |
| AES and the expansion of keys | the keystream is a constant of `Wire`: what is said of it holds for any |
| the driver the LR11xx adapter wraps | outside the repository |
| pairing, advertising data, finding a network | they are the radio stacks', outside the repository |
| what is printed, but for the columns of `listen` | wording |
