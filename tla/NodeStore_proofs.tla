--------------------------- MODULE NodeStore_proofs ---------------------------
(* The settings' safety, for any records, clients, keys and delays, whatever *)
(* the power does.                                                           *)
EXTENDS NodeStore, TLAPS

(* What the page will hold agrees with what clients were told, but for what *)
(* is being set, which they are told once it is written; a page that is     *)
(* being emptied has nothing promised of it.                                *)
Coming ==
  writing # NoWrite =>
    /\ Holds(writing.to, writing.sets)
    /\ Holds(writing.to, Without(promised, DOMAIN writing.sets))
    /\ writing.then # "reload" => writing.sets = Nothing
    /\ writing.then = "erase" => promised = Nothing

(* An edit is what the client that began it has set.                        *)
OneEdit == edit = pending

(* A key of an earlier session is not the key there is, alive or dead.      *)
Elsewhere == replay \notin {NoKey, mine} => replay # key

(* The key in the last answer is the key there is, and is no older than the *)
(* answer by half a life; until it is read there is one.                    *)
Answered ==
  present =>
    /\ answered /\ mine # NoKey => key = mine /\ age < since + Rotate
    /\ ~answered => key # NoKey /\ age < since + Rotate

FlashInv == PromisesKept /\ Coming
SessionInv == OneEdit /\ Elsewhere /\ Answered

IInv == TypeOK /\ FlashInv /\ SessionInv

-----------------------------------------------------------------------------
(* Records.                                                                 *)
LEMMA RecordIs ==
  \A f : f \in Records <=>
    /\ f = [t \in DOMAIN f |-> f[t]]
    /\ DOMAIN f \subseteq Tags
    /\ \A t \in DOMAIN f : f[t] \in AllValues
<1>1. ASSUME NEW f, f \in Records
      PROVE  f = [t \in DOMAIN f |-> f[t]] /\ DOMAIN f \subseteq Tags
             /\ \A t \in DOMAIN f : f[t] \in AllValues
  <2>1. PICK S \in SUBSET Tags : f \in [S -> AllValues]
    BY <1>1 DEF Records
  <2> QED BY <2>1
<1>2. ASSUME NEW f, f = [t \in DOMAIN f |-> f[t]], DOMAIN f \subseteq Tags,
             \A t \in DOMAIN f : f[t] \in AllValues
      PROVE  f \in Records
  <2>1. f \in [DOMAIN f -> AllValues]
    BY <1>2
  <2> QED BY <1>2, <2>1 DEF Records
<1> QED BY <1>1, <1>2

LEMMA NothingIs ==
  /\ Nothing \in Records
  /\ DOMAIN Nothing = {}
  /\ \A s : Holds(s, Nothing)
  /\ \A s : Without(Nothing, s) = Nothing
  /\ \A f \in Records : Without(f, DOMAIN Nothing) = f /\ Over(Nothing, f) = f
<1>1. DOMAIN Nothing = {} /\ Nothing = [t \in DOMAIN Nothing |-> Nothing[t]]
  BY DEF Nothing
<1>2. Nothing \in Records
  BY <1>1, RecordIs
<1>3. \A s : Without(Nothing, s) = Nothing
  BY <1>1 DEF Without, Nothing
<1>4. ASSUME NEW f \in Records PROVE Without(f, DOMAIN Nothing) = f /\ Over(Nothing, f) = f
  <2>1. f = [t \in DOMAIN f |-> f[t]]
    BY RecordIs
  <2>2. DOMAIN f \ {} = DOMAIN f /\ {} \cup DOMAIN f = DOMAIN f
    OBVIOUS
  <2>3. Without(f, DOMAIN Nothing) = f
    BY <1>1, <2>1, <2>2 DEF Without
  <2>4. Over(Nothing, f) = [t \in DOMAIN f |-> f[t]]
    BY <1>1, <2>2 DEF Over
  <2> QED BY <2>1, <2>3, <2>4
<1> QED BY <1>1, <1>2, <1>3, <1>4 DEF Holds

\* The records of f and of g, f's where both have one.
LEMMA OverIs ==
  ASSUME NEW f \in Records, NEW g \in Records
  PROVE  /\ Over(f, g) \in Records
         /\ DOMAIN Over(f, g) = DOMAIN f \cup DOMAIN g
         /\ \A t \in DOMAIN f : Over(f, g)[t] = f[t]
         /\ \A t \in DOMAIN g \ DOMAIN f : Over(f, g)[t] = g[t]
<1> DEFINE h == [t \in DOMAIN f \cup DOMAIN g |-> IF t \in DOMAIN f THEN f[t] ELSE g[t]]
<1>1. Over(f, g) = h
  BY DEF Over
<1>2. DOMAIN h = DOMAIN f \cup DOMAIN g
  OBVIOUS
<1>3. \A t \in DOMAIN h : h[t] = IF t \in DOMAIN f THEN f[t] ELSE g[t]
  OBVIOUS
<1>4. h = [t \in DOMAIN h |-> h[t]]
  OBVIOUS
<1> HIDE DEF h
<1>5. h \in Records
  BY <1>2, <1>3, <1>4, RecordIs
<1> QED BY <1>1, <1>2, <1>3, <1>5

LEMMA Less ==
  ASSUME NEW f \in Records, NEW S
  PROVE  /\ Without(f, S) \in Records
         /\ DOMAIN Without(f, S) = DOMAIN f \ S
         /\ \A t \in DOMAIN f \ S : Without(f, S)[t] = f[t]
<1>1. DOMAIN Without(f, S) = DOMAIN f \ S /\ \A t \in DOMAIN f \ S : Without(f, S)[t] = f[t]
  BY DEF Without
<1>2. Without(f, S) = [t \in DOMAIN Without(f, S) |-> Without(f, S)[t]]
  BY DEF Without
<1> QED BY <1>1, <1>2, RecordIs

\* What holds of a page holds of it once f is written over it, but for f's
\* records, which then are f's.
LEMMA MergeHolds ==
  ASSUME NEW f \in Records, NEW s \in Records, NEW p \in Records, Holds(s, p)
  PROVE  Holds(Over(f, s), f) /\ Holds(Over(f, s), Without(p, DOMAIN f))
<1> DEFINE new == Over(f, s)
           rest == Without(p, DOMAIN f)
<1>1. /\ DOMAIN new = DOMAIN f \cup DOMAIN s
      /\ \A t \in DOMAIN f : new[t] = f[t]
      /\ \A t \in DOMAIN s \ DOMAIN f : new[t] = s[t]
  BY OverIs
<1>2. DOMAIN rest = DOMAIN p \ DOMAIN f /\ \A t \in DOMAIN p \ DOMAIN f : rest[t] = p[t]
  BY Less
<1> HIDE DEF new, rest
<1>3. Holds(new, f) /\ Holds(new, rest)
  BY <1>1, <1>2 DEF Holds
<1> QED BY <1>3 DEF new, rest

\* And both together.
LEMMA Both ==
  ASSUME NEW f \in Records, NEW s \in Records, NEW p \in Records,
         Holds(s, f), Holds(s, Without(p, DOMAIN f))
  PROVE  Holds(s, Over(f, p))
<1> DEFINE new == Over(f, p)
           rest == Without(p, DOMAIN f)
<1>1. /\ DOMAIN new = DOMAIN f \cup DOMAIN p
      /\ \A t \in DOMAIN f : new[t] = f[t]
      /\ \A t \in DOMAIN p \ DOMAIN f : new[t] = p[t]
  BY OverIs
<1>2. DOMAIN rest = DOMAIN p \ DOMAIN f /\ \A t \in DOMAIN p \ DOMAIN f : rest[t] = p[t]
  BY Less
<1>3. Holds(s, rest)
  OBVIOUS
<1> HIDE DEF new, rest
<1>4. Holds(s, new)
  BY <1>1, <1>2, <1>3 DEF Holds
<1> QED BY <1>4 DEF new

\* Part of what holds holds.
LEMMA PartHolds ==
  ASSUME NEW s \in Records, NEW p \in Records, NEW S, Holds(s, p)
  PROVE  Holds(s, Without(p, S))
<1> DEFINE rest == Without(p, S)
<1>1. DOMAIN rest = DOMAIN p \ S /\ \A t \in DOMAIN p \ S : rest[t] = p[t]
  BY Less
<1> HIDE DEF rest
<1>2. Holds(s, rest)
  BY <1>1 DEF Holds
<1> QED BY <1>2 DEF rest

\* Provisioning touches nothing that is stored and not declared.
LEMMA ProvisionKeeps ==
  ASSUME NEW s \in Records, NEW p \in Records, Holds(s, p)
  PROVE  /\ Provisioned(s) \in Records
         /\ Holds(Provisioned(s), Without(p, DOMAIN Declared))
<1>1. Fresh \in Records /\ Declared \in Records
  <2>1. Fresh = [t \in DOMAIN Fresh |-> Fresh[t]] /\ DOMAIN Fresh = Kept
        /\ \A t \in Kept : Fresh[t] \in AllValues /\ Kept \subseteq Tags
    BY NodeStoreOK DEF NodeStoreOK
  <2> QED BY <2>1, RecordIs, NodeStoreOK DEF NodeStoreOK
<1> DEFINE new == Without(Fresh, DOMAIN s)
           declared == Over(Declared, s)
           page == Over(new, declared)
           rest == Without(p, DOMAIN Declared)
<1>2. new \in Records /\ DOMAIN new = DOMAIN Fresh \ DOMAIN s
  BY <1>1, Less
<1>3. declared \in Records /\ DOMAIN declared = DOMAIN Declared \cup DOMAIN s
      /\ \A t \in DOMAIN s \ DOMAIN Declared : declared[t] = s[t]
  BY <1>1, OverIs
<1>4. page = Provisioned(s)
  BY DEF Provisioned
<1>5. DOMAIN rest = DOMAIN p \ DOMAIN Declared /\ \A t \in DOMAIN p \ DOMAIN Declared : rest[t] = p[t]
  BY Less
<1> HIDE DEF new, declared, rest
<1>6. /\ page \in Records
      /\ DOMAIN page = DOMAIN new \cup DOMAIN declared
      /\ \A t \in DOMAIN declared \ DOMAIN new : page[t] = declared[t]
  BY <1>2, <1>3, OverIs
<1> HIDE DEF page
<1>7. Holds(page, rest)
  BY <1>2, <1>3, <1>5, <1>6 DEF Holds
<1> QED BY <1>4, <1>6, <1>7 DEF rest

-----------------------------------------------------------------------------
(* What an action leaves alone.                                             *)
LEMMA FlashStill ==
  ASSUME FlashInv, UNCHANGED <<flash, promised>>
  PROVE  FlashInv'
BY DEF FlashInv, PromisesKept, Coming, flash

LEMMA SessionStill ==
  ASSUME SessionInv, UNCHANGED <<session, client>>
  PROVE  SessionInv'
BY DEF SessionInv, OneEdit, Elsewhere, Answered, session, client

\* A page begun: what it writes agrees with what was promised.
LEMMA WriteInv ==
  ASSUME NEW to \in Records, NEW then \in Thens, NEW sets \in Records, NEW full \in BOOLEAN,
         Write(to, then, sets, full),
         Holds(to, sets), Holds(to, Without(promised, DOMAIN sets))',
         then # "reload" => sets = Nothing, (then = "erase" => promised = Nothing)'
  PROVE  /\ store' \in Records /\ writing' \in PageWrites
         /\ FlashInv'
<1>1. writing' \in PageWrites /\ store' = Nothing
  BY DEF Write, PageWrites
<1>2. writing' # NoWrite
  BY <1>1, NodeStoreOK DEF NodeStoreOK
<1>3. writing.to' = to /\ writing.then' = then /\ writing.sets' = sets
  BY DEF Write
<1>4. PromisesKept' /\ Coming'
  BY <1>2, <1>3 DEF PromisesKept, Coming
<1> QED BY <1>1, <1>4, NothingIs DEF FlashInv

\* A page done.
LEMMA WrittenInv ==
  ASSUME TypeOK, writing # NoWrite, Written, Holds(writing.to, promised')
  PROVE  /\ store' \in Records /\ writing' = NoWrite
         /\ FlashInv'
<1>1. writing \in PageWrites /\ store' = writing.to /\ writing' = NoWrite
  BY DEF TypeOK, Written
<1>2. store' \in Records
  BY <1>1 DEF PageWrites
<1>3. PromisesKept' /\ Coming'
  BY <1>1 DEF PromisesKept, Coming, Holds
<1> QED BY <1>1, <1>2, <1>3 DEF FlashInv

\* A client come or gone.
LEMMA ApartInv ==
  ASSUME IInv, NEW is \in BOOLEAN, Apart(is), Forgotten
  PROVE  /\ SessionInv'
         /\ pending' \in Records \cup {NoEdit} /\ edit' \in Records \cup {NoEdit}
         /\ key' \in Keys \cup {NoKey} /\ mine' \in Keys \cup {NoKey}
         /\ replay' \in Keys \cup {NoKey}
         /\ age' \in 0..Ttl /\ since' \in 0..Ttl
         /\ present' \in BOOLEAN /\ answered' \in BOOLEAN
<1>1. OneEdit' /\ Elsewhere' /\ Answered'
  BY DEF Apart, Forgotten, OneEdit, Elsewhere, Answered
<1>2. 0 \in 0..Ttl
  BY NodeStoreOK DEF NodeStoreOK
<1> QED BY <1>1, <1>2 DEF Apart, Forgotten, SessionInv, IInv, TypeOK

\* What a boot reads is a value of each record it needs.
LEMMA ConfigIs ==
  /\ \A s \in Records : Config(s) \in [Kept -> AllValues \cup Values(Default)]
  /\ Default \in [Kept -> AllValues \cup Values(Default)]
<1>1. Default \in [Kept -> Values(Default)]
  BY NodeStoreOK DEF NodeStoreOK
<1>2. ASSUME NEW s \in Records PROVE Config(s) \in [Kept -> AllValues \cup Values(Default)]
  <2>1. \A t \in Kept : (IF t \in DOMAIN s THEN s[t] ELSE Default[t]) \in AllValues \cup Values(Default)
    BY <1>1, RecordIs
  <2> QED BY <2>1 DEF Config
<1> QED BY <1>1, <1>2

LEMMA InitInv == Init => IInv
<1> SUFFICES ASSUME Init PROVE IInv
  OBVIOUS
<1>1. TypeOK
  <2>1. 0 \in 0..Ttl
    BY NodeStoreOK DEF NodeStoreOK
  <2> QED BY <2>1, NothingIs, ConfigIs DEF Init, TypeOK
<1>2. FlashInv
  BY NothingIs DEF Init, FlashInv, PromisesKept, Coming
<1>3. SessionInv
  BY DEF Init, SessionInv, OneEdit, Elsewhere, Answered
<1> QED BY <1>1, <1>2, <1>3 DEF IInv

-----------------------------------------------------------------------------
(* A boot, and power.                                                       *)
LEMMA ProvisionInv == ASSUME IInv, Provision PROVE IInv'
<1>1. TypeOK /\ FlashInv /\ SessionInv /\ writing = NoWrite /\ store \in Records /\ promised \in Records
  BY DEF IInv, Provision, TypeOK
<1>2. Holds(store, promised)
  BY <1>1 DEF FlashInv, PromisesKept, Holds
<1>3. promised' \in Records /\ promised' = Without(promised, DOMAIN Declared)
      /\ Holds(store, promised')
  BY <1>1, <1>2, Less, PartHolds DEF Provision
<1>4. SessionInv'
  BY <1>1, SessionStill DEF Provision
<1>5. CASE Provisioned(store) = store
  <2>1. UNCHANGED flash /\ stage' = "ready"
    BY <1>5 DEF Provision
  <2>2. FlashInv'
    BY <1>1, <1>3, <2>1 DEF FlashInv, PromisesKept, Coming, Holds, flash
  <2>3. TypeOK'
    BY <1>1, <1>3, <2>1 DEF Provision, TypeOK, flash, session, client
  <2> QED BY <1>4, <2>2, <2>3 DEF IInv
<1>6. CASE Provisioned(store) # store
  <2>1. Write(Provisioned(store), "provision", Nothing, FALSE) /\ stage' = stage
    BY <1>6 DEF Provision
  <2>2. Provisioned(store) \in Records /\ Holds(Provisioned(store), promised')
    BY <1>1, <1>2, <1>3, ProvisionKeeps
  <2>3. Holds(Provisioned(store), Nothing) /\ Without(promised', DOMAIN Nothing) = promised'
    BY <1>3, NothingIs
  <2>4. store' \in Records /\ writing' \in PageWrites /\ FlashInv'
    <3> DEFINE page == Provisioned(store)
    <3> HIDE DEF page
    <3>1. page \in Records /\ Write(page, "provision", Nothing, FALSE) /\ Holds(page, promised')
      BY <2>1, <2>2 DEF page
    <3>2. Holds(page, Nothing) /\ Holds(page, Without(promised, DOMAIN Nothing)')
      BY <2>3, <3>1, NothingIs
    <3> QED BY <3>1, <3>2, NothingIs, WriteInv DEF Thens
  <2>5. TypeOK'
    BY <1>1, <1>3, <2>1, <2>4 DEF Provision, TypeOK, session, client
  <2> QED BY <1>4, <2>4, <2>5 DEF IInv
<1> QED BY <1>5, <1>6

\* A page that was not written for a reload, and now is.
LEMMA PlainWritten ==
  ASSUME IInv, writing # NoWrite, writing.then # "reload", Written, promised' = promised
  PROVE  /\ store' \in Records /\ writing' = NoWrite
         /\ FlashInv'
<1>1. TypeOK /\ promised \in Records /\ writing.sets = Nothing
      /\ Holds(writing.to, Without(promised, DOMAIN writing.sets))
  BY DEF IInv, FlashInv, Coming, TypeOK
<1>2. Holds(writing.to, promised')
  BY <1>1, NothingIs
<1> QED BY <1>1, <1>2, WrittenInv

LEMMA ProvisionEndsInv == ASSUME IInv, ProvisionEnds PROVE IInv'
<1>1. TypeOK /\ FlashInv /\ SessionInv
  BY DEF IInv
<1>2. store' \in Records /\ writing' = NoWrite /\ FlashInv'
  BY PlainWritten DEF ProvisionEnds
<1>3. SessionInv'
  BY <1>1, SessionStill DEF ProvisionEnds
<1>4. TypeOK'
  BY <1>1, <1>2 DEF ProvisionEnds, TypeOK, session, client
<1> QED BY <1>2, <1>3, <1>4 DEF IInv

LEMMA SavedInv == ASSUME IInv, Saved PROVE IInv'
<1>1. TypeOK /\ FlashInv /\ SessionInv
  BY DEF IInv
<1>2. store' \in Records /\ writing' = NoWrite /\ FlashInv'
  BY PlainWritten DEF Saved
<1>3. SessionInv'
  BY <1>1, SessionStill DEF Saved
<1>4. TypeOK'
  BY <1>1, <1>2 DEF Saved, TypeOK, node, session, client
<1> QED BY <1>2, <1>3, <1>4 DEF IInv

LEMMA StartInv == ASSUME IInv, Start PROVE IInv'
<1>1. TypeOK /\ FlashInv /\ SessionInv
  BY DEF IInv
<1>2. FlashInv' /\ SessionInv'
  BY <1>1, FlashStill, SessionStill DEF Start
<1>3. Config(store) \in [Kept -> AllValues \cup Values(Default)]
  BY <1>1, ConfigIs DEF TypeOK
<1>4. TypeOK'
  BY <1>1, <1>3 DEF Start, TypeOK, flash, session, client
<1> QED BY <1>2, <1>4 DEF IInv

\* Whatever was in memory is gone.
LEMMA DownInv ==
  ASSUME IInv, Down
  PROVE  /\ SessionInv'
         /\ store' \in Records /\ (writing' = NoWrite \/ writing' \in PageWrites)
              /\ promised' \in Records => TypeOK'
<1>1. SessionInv' /\ present' = FALSE
      /\ pending' \in Records \cup {NoEdit} /\ edit' \in Records \cup {NoEdit}
      /\ key' \in Keys \cup {NoKey} /\ mine' \in Keys \cup {NoKey}
      /\ replay' \in Keys \cup {NoKey}
      /\ age' \in 0..Ttl /\ since' \in 0..Ttl
      /\ present' \in BOOLEAN /\ answered' \in BOOLEAN
  BY ApartInv DEF Down, Apart
<1>2. stage' \in {"off", "ready", "up", "failed"} /\ pumped' \in BOOLEAN /\ ordered' \in BOOLEAN
      /\ due' = NoRestart /\ config' = Default /\ tuned' = Default
  BY DEF Down
<1> QED BY <1>1, <1>2, ConfigIs DEF TypeOK

LEMMA PowerFailsInv == ASSUME IInv, PowerFails PROVE IInv'
<1>1. TypeOK /\ FlashInv /\ SessionInv /\ store \in Records /\ promised \in Records
  BY DEF IInv, TypeOK
<1>2. Down /\ writing' = NoWrite
  BY DEF PowerFails
<1>3. store' \in Records /\ promised' \in Records /\ Holds(store, promised)'
  <2>1. CASE writing = NoWrite /\ UNCHANGED <<store, promised>>
    BY <1>1, <2>1 DEF FlashInv, PromisesKept, Holds
  <2>2. CASE store' = Nothing /\ promised' = Nothing
    BY <2>2, NothingIs DEF Holds
  <2>3. CASE /\ writing # NoWrite /\ store' = writing.to
             /\ promised' = Without(promised, DOMAIN writing.sets)
    <3>1. writing.to \in Records
      BY <1>1, <2>3 DEF TypeOK, PageWrites
    <3>2. Holds(writing.to, Without(promised, DOMAIN writing.sets))
      BY <1>1, <2>3 DEF FlashInv, Coming
    <3> QED BY <1>1, <2>3, <3>1, <3>2, Less DEF Holds
  <2> QED BY <2>1, <2>2, <2>3 DEF PowerFails
<1>4. FlashInv'
  BY <1>2, <1>3 DEF FlashInv, PromisesKept, Coming, Holds
<1> QED BY <1>2, <1>3, <1>4, DownInv DEF IInv

-----------------------------------------------------------------------------
(* The client.                                                              *)
LEMMA AttachInv == ASSUME IInv, Attach PROVE IInv'
<1>1. TypeOK /\ FlashInv /\ FlashInv'
  BY FlashStill DEF IInv, Attach
<1>2. Forgotten /\ Apart(TRUE) /\ due' = due
  BY DEF Attach, Reset
<1>3. TypeOK' /\ SessionInv'
  BY <1>1, <1>2, ApartInv DEF Attach, TypeOK, flash, node
<1> QED BY <1>1, <1>3 DEF IInv

LEMMA DetachInv == ASSUME IInv, Detach PROVE IInv'
<1>1. TypeOK /\ FlashInv /\ FlashInv'
  BY FlashStill DEF IInv, Detach
<1>2. Forgotten /\ Apart(FALSE) /\ due' = due
  BY DEF Detach, Reset
<1>3. TypeOK' /\ SessionInv'
  BY <1>1, <1>2, ApartInv DEF Detach, TypeOK, flash, node
<1> QED BY <1>1, <1>3 DEF IInv

LEMMA KeyIsNew ==
  ASSUME TypeOK
  PROVE  NewKey \in Keys /\ NewKey \notin {key, mine, replay}
<1>1. \E k \in Keys : k \notin {key, mine, replay}
  BY NodeStoreOK DEF NodeStoreOK, TypeOK
<1> QED BY <1>1 DEF NewKey

LEMMA ReadInv == ASSUME IInv, Read PROVE IInv'
<1>1. TypeOK /\ SessionInv /\ FlashInv'
  BY FlashStill DEF IInv, Read
<1>2. NewKey \in Keys /\ NewKey \notin {key, mine, replay} /\ NewKey # NoKey
  BY <1>1, KeyIsNew, NodeStoreOK DEF NodeStoreOK
<1>3. Rotate \in Nat \ {0} /\ Ttl \in Nat /\ Rotate < Ttl
  BY NodeStoreOK DEF NodeStoreOK
<1>4. age' \in 0..Ttl /\ age' < Rotate /\ key' \in Keys \cup {NoKey} /\ key' # NoKey
      /\ (key' = key \/ key' = NewKey)
  <2>1. age \in 0..Ttl /\ key \in Keys \cup {NoKey}
    BY <1>1 DEF TypeOK
  <2>2. CASE Stale
    <3>1. key' = NewKey /\ age' = 0
      BY <2>2 DEF Read
    <3> QED BY <1>2, <1>3, <3>1
  <2>3. CASE ~Stale
    <3>1. key' = key /\ age' = age /\ key # NoKey /\ ~(age >= Rotate)
      BY <2>3 DEF Read, Stale
    <3> QED BY <1>3, <2>1, <3>1
  <2> QED BY <2>2, <2>3
<1>5. answered' \in BOOLEAN /\ since' \in 0..Ttl /\ (present => ~answered')
  <2>1. answered \in BOOLEAN /\ since \in 0..Ttl
    BY <1>1 DEF TypeOK
  <2>2. CASE present
    <3>1. answered' = FALSE /\ since' = 0
      BY <2>2 DEF Read
    <3>2. 0 \in 0..Ttl
      BY <1>3
    <3> QED BY <3>1, <3>2
  <2>3. CASE ~present
    BY <2>1, <2>3 DEF Read
  <2> QED BY <2>2, <2>3
<1>6. TypeOK'
  BY <1>1, <1>4, <1>5 DEF Read, TypeOK, flash, node
<1>7. OneEdit' /\ Elsewhere'
  BY <1>1, <1>2, <1>4 DEF Read, SessionInv, OneEdit, Elsewhere
<1>8. age' < since' + Rotate
  <2>1. \A a, n \in 0..Ttl : a < Rotate => a < n + Rotate
    BY <1>3
  <2> QED BY <1>4, <1>5, <2>1
<1>9. Answered'
  BY <1>4, <1>5, <1>8 DEF Read, Answered
<1> QED BY <1>1, <1>6, <1>7, <1>9 DEF IInv, SessionInv

LEMMA ReadAnswerInv == ASSUME IInv, ReadAnswer PROVE IInv'
<1>1. TypeOK /\ SessionInv /\ FlashInv'
  BY FlashStill DEF IInv, ReadAnswer
<1>2. TypeOK'
  BY <1>1 DEF ReadAnswer, TypeOK, flash, node, session
<1>3. SessionInv'
  BY <1>1 DEF ReadAnswer, SessionInv, OneEdit, Elsewhere, Answered, session
<1> QED BY <1>1, <1>2, <1>3 DEF IInv

LEMMA BeginEditInv == ASSUME IInv, NEW k, BeginEdit(k) PROVE IInv'
<1>1. TypeOK /\ SessionInv /\ FlashInv'
  BY FlashStill DEF IInv, BeginEdit
<1>2. TypeOK'
  BY <1>1, NothingIs DEF BeginEdit, TypeOK, flash, node
<1>3. SessionInv'
  BY <1>1 DEF BeginEdit, SessionInv, OneEdit, Elsewhere, Answered
<1> QED BY <1>1, <1>2, <1>3 DEF IInv

\* What a client sets is a set of records.
LEMMA EditIs == \A e \in Edits : e \in Records
BY NodeStoreOK DEF NodeStoreOK

\* A store of records that come over the ones there are, which the client is
\* told of, and reload after it.
LEMMA StoreInv ==
  ASSUME IInv, writing = NoWrite, NEW values \in Records, Store(values, values)
  PROVE  /\ store' \in Records /\ (writing' = NoWrite \/ writing' \in PageWrites)
         /\ config' \in [Kept -> AllValues \cup Values(Default)]
         /\ promised' \in Records
         /\ FlashInv'
<1>1. TypeOK /\ FlashInv /\ store \in Records /\ promised \in Records
      /\ config \in [Kept -> AllValues \cup Values(Default)]
  BY DEF IInv, TypeOK
<1>2. Holds(store, promised)
  BY <1>1 DEF FlashInv, PromisesKept, Holds
<1>3. Merged(values) \in Records /\ Holds(Merged(values), values)
      /\ Holds(Merged(values), Without(promised, DOMAIN values))
  BY <1>1, <1>2, OverIs, MergeHolds DEF Merged
<1>4. CASE ~Storable(values)
  <2>1. UNCHANGED <<flash, config, promised>>
    BY <1>4 DEF Store
  <2> QED BY <1>1, <2>1, FlashStill DEF flash
<1>5. CASE Storable(values) /\ Merged(values) = store
  <2>1. config' = Config(store) /\ promised' = Confirmed(store, values) /\ UNCHANGED flash
    BY <1>5 DEF Store
  <2>2. promised' \in Records /\ Holds(store, promised')
    <3>1. CASE Resolved(store)
      <4>1. promised' = Over(values, promised)
        BY <2>1, <3>1 DEF Confirmed
      <4>2. Holds(store, values) /\ Holds(store, Without(promised, DOMAIN values))
        BY <1>3, <1>5
      <4> QED BY <1>1, <4>1, <4>2, Both, OverIs
    <3>2. CASE ~Resolved(store)
      <4>1. promised' = Without(promised, DOMAIN values)
        BY <2>1, <3>2 DEF Confirmed
      <4> QED BY <1>1, <1>3, <1>5, <4>1, Less
    <3> QED BY <3>1, <3>2
  <2>3. FlashInv'
    BY <2>1, <2>2 DEF FlashInv, PromisesKept, Coming, Holds, flash
  <2> QED BY <1>1, <2>1, <2>2, <2>3, ConfigIs DEF flash
<1>6. CASE Storable(values) /\ Merged(values) # store
  <2> DEFINE to == Merged(values)
  <2>1. Write(to, "reload", values, FALSE) /\ UNCHANGED <<config, promised>>
    BY <1>6 DEF Store
  <2>2. to \in Records /\ Holds(to, values) /\ Holds(to, Without(promised, DOMAIN values))
    BY <1>3
  <2> HIDE DEF to
  <2>3. Holds(to, Without(promised', DOMAIN values))
    BY <2>1, <2>2
  <2>4. store' \in Records /\ writing' \in PageWrites /\ FlashInv'
    BY <2>1, <2>2, <2>3, WriteInv DEF Thens
  <2> QED BY <1>1, <2>1, <2>4
<1> QED BY <1>4, <1>5, <1>6

LEMMA StoredInv == ASSUME IInv, Stored PROVE IInv'
<1>1. TypeOK /\ FlashInv /\ SessionInv /\ promised \in Records /\ writing # NoWrite /\ Written
      /\ promised' = Confirmed(writing.to, writing.sets) /\ config' = Config(writing.to)
  BY DEF IInv, Stored, TypeOK
<1> DEFINE to == writing.to
           sets == writing.sets
<1>2. to \in Records /\ sets \in Records
      /\ Holds(to, sets) /\ Holds(to, Without(promised, DOMAIN sets))
  BY <1>1 DEF TypeOK, PageWrites, FlashInv, Coming
<1>3. promised' = Confirmed(to, sets)
  BY <1>1
<1> HIDE DEF to, sets
<1>4. promised' \in Records /\ Holds(to, promised')
  <2>1. CASE Resolved(to)
    <3>1. promised' = Over(sets, promised)
      BY <1>3, <2>1 DEF Confirmed
    <3>2. Holds(to, Over(sets, promised)) /\ Over(sets, promised) \in Records
      BY <1>1, <1>2, Both, OverIs
    <3> QED BY <3>1, <3>2
  <2>2. CASE ~Resolved(to)
    <3>1. promised' = Without(promised, DOMAIN sets)
      BY <1>3, <2>2 DEF Confirmed
    <3> QED BY <1>1, <1>2, <3>1, Less
  <2> QED BY <2>1, <2>2
<1>5. store' \in Records /\ writing' = NoWrite /\ FlashInv'
  BY <1>1, <1>4, WrittenInv DEF to
<1>6. config' \in [Kept -> AllValues \cup Values(Default)]
  BY <1>1, <1>2, ConfigIs DEF to
<1>7. SessionInv'
  BY <1>1, SessionStill DEF Stored
<1>8. TypeOK'
  BY <1>1, <1>4, <1>5, <1>6 DEF Stored, TypeOK, session, client
<1> QED BY <1>5, <1>7, <1>8 DEF IInv

LEMMA SetInv == ASSUME IInv, NEW k, NEW values \in Edits, Set(k, values) PROVE IInv'
<1>1. /\ TypeOK /\ FlashInv /\ SessionInv /\ edit = pending /\ promised \in Records
      /\ pending \in Records \cup {NoEdit} /\ writing = NoWrite
  BY DEF IInv, SessionInv, OneEdit, TypeOK, Set, Quoted, Idle
<1>2. values \in Records
  BY EditIs
<1>3. UNCHANGED <<stage, tuned, key, age, due, pumped, present, mine, answered, since, replay, ordered>>
  BY DEF Set
<1>4. Elsewhere' /\ Answered'
  BY <1>1, <1>3 DEF SessionInv, Elsewhere, Answered
<1>5. CASE pending = NoEdit
  <2>1. Store(values, values) /\ pending' = pending /\ edit' = NoEdit
    BY <1>1, <1>5 DEF Set
  <2>2. /\ store' \in Records /\ (writing' = NoWrite \/ writing' \in PageWrites)
        /\ config' \in [Kept -> AllValues \cup Values(Default)]
        /\ promised' \in Records
        /\ FlashInv'
    BY <1>1, <1>2, <2>1, StoreInv
  <2>3. TypeOK'
    BY <1>1, <1>3, <2>1, <2>2 DEF TypeOK
  <2>4. OneEdit'
    BY <1>5, <2>1 DEF OneEdit
  <2> QED BY <1>4, <2>2, <2>3, <2>4 DEF IInv, SessionInv
<1>6. CASE pending # NoEdit
  <2>1. pending' = Over(values, pending) /\ edit' = Over(values, edit)
        /\ promised' = promised /\ UNCHANGED <<flash, config>>
    BY <1>1, <1>6 DEF Set
  <2>2. pending' \in Records /\ edit' = pending'
    BY <1>1, <1>2, <1>6, <2>1, OverIs
  <2>3. TypeOK'
    BY <1>1, <1>3, <2>1, <2>2 DEF TypeOK, flash
  <2>4. OneEdit' /\ FlashInv'
    BY <1>1, <2>1, <2>2, FlashStill DEF OneEdit
  <2> QED BY <1>4, <2>3, <2>4 DEF IInv, SessionInv
<1> QED BY <1>5, <1>6

LEMMA CommitEditInv == ASSUME IInv, NEW k, CommitEdit(k) PROVE IInv'
<1>1. /\ TypeOK /\ FlashInv /\ SessionInv /\ edit = pending /\ promised \in Records
      /\ pending \in Records \cup {NoEdit} /\ writing = NoWrite
  BY DEF IInv, SessionInv, OneEdit, TypeOK, CommitEdit, Quoted, Idle
<1>2. /\ pending' = NoEdit /\ edit' = NoEdit
      /\ UNCHANGED <<stage, tuned, key, age, due, pumped, present, mine, answered, since, replay, ordered>>
  BY DEF CommitEdit
<1>3. SessionInv'
  BY <1>1, <1>2 DEF SessionInv, OneEdit, Elsewhere, Answered
<1>4. CASE pending \in {NoEdit, Nothing}
  <2>1. Told = Nothing
    BY <1>1, <1>4 DEF Told
  <2>2. promised' = promised /\ UNCHANGED <<flash, config>>
    BY <1>1, <1>4, <2>1, NothingIs DEF CommitEdit
  <2>3. TypeOK' /\ FlashInv'
    BY <1>1, <1>2, <2>2, FlashStill DEF TypeOK, flash
  <2> QED BY <1>3, <2>3 DEF IInv
<1>5. CASE pending \notin {NoEdit, Nothing}
  <2>1. Store(pending, pending) /\ pending \in Records
    BY <1>1, <1>5 DEF CommitEdit, Told
  <2>2. /\ store' \in Records /\ (writing' = NoWrite \/ writing' \in PageWrites)
        /\ config' \in [Kept -> AllValues \cup Values(Default)]
        /\ promised' \in Records
        /\ FlashInv'
    BY <1>1, <2>1, StoreInv
  <2>3. TypeOK'
    BY <1>1, <1>2, <2>2 DEF TypeOK
  <2> QED BY <1>3, <2>2, <2>3 DEF IInv
<1> QED BY <1>4, <1>5

-----------------------------------------------------------------------------
(* Resets, saves of the cache, and the clock.                               *)
LEMMA RebootInv == ASSUME IInv, NEW k, NEW s \in Delays, Reboot(k, s) PROVE IInv'
<1>1. TypeOK /\ FlashInv' /\ SessionInv'
  BY FlashStill, SessionStill DEF IInv, Reboot
<1>2. due' = NoRestart \/ due' \in Nat
  <2>1. MinRestart \in Nat \ {0} /\ s \in Int
    BY NodeStoreOK DEF NodeStoreOK
  <2> QED BY <2>1 DEF Reboot, Delay, Max2
<1>3. ordered' \in BOOLEAN
  BY DEF Reboot
<1>4. TypeOK'
  BY <1>1, <1>2, <1>3 DEF Reboot, TypeOK, flash, node, session, client
<1> QED BY <1>1, <1>4 DEF IInv

LEMMA FactoryResetInv ==
  ASSUME IInv, NEW k, NEW full \in BOOLEAN, FactoryReset(k, full) PROVE IInv'
<1>1. TypeOK /\ SessionInv'
  BY SessionStill DEF IInv, FactoryReset
<1>2. Write(Nothing, "erase", Nothing, full) /\ promised' = Nothing
  BY DEF FactoryReset
<1>3. Holds(Nothing, Nothing) /\ Holds(Nothing, Without(promised, DOMAIN Nothing)')
  BY <1>2, NothingIs
<1>4. store' \in Records /\ writing' \in PageWrites /\ FlashInv'
  BY <1>2, <1>3, NothingIs, WriteInv DEF Thens
<1>5. TypeOK'
  BY <1>1, <1>2, <1>4, NothingIs DEF FactoryReset, TypeOK, node, session, client
<1> QED BY <1>1, <1>4, <1>5 DEF IInv

LEMMA ErasedInv == ASSUME IInv, Erased PROVE IInv'
<1>1. TypeOK /\ SessionInv' /\ promised' = promised
      /\ writing # NoWrite /\ writing.then = "erase" /\ promised = Nothing
  BY SessionStill DEF IInv, Erased, FlashInv, Coming
<1>2. CASE Write(Nothing, "erase", Nothing, FALSE) /\ UNCHANGED <<due, ordered>>
  <2>1. Holds(Nothing, Nothing) /\ Holds(Nothing, Without(promised, DOMAIN Nothing)')
    BY <1>1, NothingIs
  <2>2. store' \in Records /\ writing' \in PageWrites /\ FlashInv'
    BY <1>1, <1>2, <2>1, NothingIs, WriteInv DEF Thens
  <2>3. TypeOK'
    BY <1>1, <1>2, <2>2 DEF Erased, TypeOK, node, session, client
  <2> QED BY <1>1, <2>2, <2>3 DEF IInv
<1>3. CASE Written /\ due' = MinRestart /\ ordered' = TRUE
  <2>1. store' \in Records /\ writing' = NoWrite /\ FlashInv'
    BY <1>1, <1>3, PlainWritten
  <2>2. TypeOK'
    BY <1>1, <1>3, <2>1, NodeStoreOK DEF NodeStoreOK, Erased, TypeOK, node, session, client
  <2> QED BY <1>1, <2>1, <2>2 DEF IInv
<1> QED BY <1>2, <1>3 DEF Erased

\* The page is written again as it is.
LEMMA Rewritten ==
  ASSUME IInv, writing = NoWrite, NEW then \in Thens \ {"erase"},
         Write(store, then, Nothing, FALSE), promised' = promised
  PROVE  store' \in Records /\ writing' \in PageWrites /\ FlashInv'
<1>1. store \in Records /\ promised \in Records /\ Holds(store, promised)
  BY DEF IInv, TypeOK, FlashInv, PromisesKept, Holds
<1>2. Holds(store, Nothing) /\ Holds(store, Without(promised, DOMAIN Nothing)')
  BY <1>1, NothingIs
<1> QED BY <1>1, <1>2, NothingIs, WriteInv DEF Thens

LEMMA SaveCacheInv == ASSUME IInv, SaveCache PROVE IInv'
<1>1. TypeOK /\ SessionInv'
  BY SessionStill DEF IInv, SaveCache
<1>2. store' \in Records /\ writing' \in PageWrites /\ FlashInv'
  BY Rewritten DEF SaveCache, Idle, Thens
<1>3. TypeOK'
  BY <1>1, <1>2 DEF SaveCache, TypeOK, node, session, client
<1> QED BY <1>1, <1>2, <1>3 DEF IInv

LEMMA RestartInv == ASSUME IInv, Restart PROVE IInv'
<1>1. TypeOK /\ FlashInv /\ SessionInv /\ writing = NoWrite /\ promised' = promised
  BY DEF IInv, Restart, Idle
<1>2. CASE Down /\ UNCHANGED flash
  <2>1. FlashInv'
    BY <1>1, <1>2, FlashStill
  <2>2. SessionInv' /\ TypeOK'
    BY <1>1, <1>2, DownInv DEF TypeOK, flash
  <2> QED BY <2>1, <2>2 DEF IInv
<1>3. CASE Write(store, "reset", Nothing, FALSE)
           /\ UNCHANGED <<node, session, due, pumped, client, ordered>>
  <2>1. store' \in Records /\ writing' \in PageWrites /\ FlashInv'
    BY <1>1, <1>3, Rewritten DEF Thens
  <2>2. SessionInv'
    BY <1>1, <1>3, SessionStill
  <2>3. TypeOK'
    BY <1>1, <1>3, <2>1 DEF TypeOK, node, session, client
  <2> QED BY <2>1, <2>2, <2>3 DEF IInv
<1> QED BY <1>2, <1>3 DEF Restart

LEMMA RestartedInv == ASSUME IInv, Restarted PROVE IInv'
<1>1. store' \in Records /\ writing' = NoWrite /\ FlashInv'
  BY PlainWritten DEF Restarted
<1>2. promised' \in Records
  BY DEF IInv, TypeOK, Restarted
<1>3. SessionInv' /\ TypeOK'
  BY <1>1, <1>2, DownInv DEF Restarted
<1> QED BY <1>1, <1>3 DEF IInv

LEMMA TurnInv == ASSUME IInv, Turn PROVE IInv'
<1>1. TypeOK /\ FlashInv' /\ SessionInv'
  BY FlashStill, SessionStill DEF IInv, Turn
<1>2. TypeOK'
  BY <1>1 DEF Turn, TypeOK, flash, node, session, client
<1> QED BY <1>1, <1>2 DEF IInv

LEMMA TickInv == ASSUME IInv, Tick PROVE IInv'
<1>1. TypeOK /\ SessionInv /\ FlashInv'
  BY FlashStill DEF IInv, Tick
<1>2. Rotate \in Nat \ {0} /\ Ttl \in Nat
  BY NodeStoreOK DEF NodeStoreOK
<1>3. age \in 0..Ttl /\ since \in 0..Ttl
  BY <1>1 DEF TypeOK
<1>4. age' \in 0..Ttl
  BY <1>2, <1>3 DEF Tick
<1>5. since' \in 0..Ttl
  BY <1>2, <1>3 DEF Tick
<1>6. due' = NoRestart \/ due' \in Nat
  BY <1>1 DEF Tick, TypeOK, Max2
<1>7. TypeOK'
  BY <1>1, <1>4, <1>5, <1>6 DEF Tick, TypeOK, flash, node
<1>8. present /\ age < since + Rotate => age' < since' + Rotate
  <2>1. \A a, n \in 0..Ttl : a < n + Rotate => a < Ttl + Rotate
    BY <1>2
  <2>2. CASE since < Ttl /\ present
    <3>1. since' = since + 1 /\ age' <= age + 1
      BY <1>2, <1>3, <2>2 DEF Tick
    <3> QED BY <1>2, <1>3, <1>4, <3>1
  <2>3. CASE ~(since < Ttl)
    <3>1. since' = Ttl
      BY <1>2, <1>3, <2>3 DEF Tick
    <3> QED BY <1>2, <1>4, <3>1
  <2> QED BY <2>2, <2>3
<1>9. UNCHANGED <<pending, key, present, mine, answered, edit, replay>>
  BY DEF Tick
<1>10. SessionInv'
  BY <1>1, <1>8, <1>9 DEF SessionInv, OneEdit, Elsewhere, Answered
<1> QED BY <1>1, <1>7, <1>10 DEF IInv

-----------------------------------------------------------------------------
LEMMA StutterInv == ASSUME IInv, UNCHANGED vars PROVE IInv'
<1>1. FlashInv' /\ SessionInv'
  BY FlashStill, SessionStill DEF IInv, vars
<1>2. TypeOK'
  BY DEF IInv, TypeOK, vars, flash, node, session, client
<1> QED BY <1>1, <1>2 DEF IInv

LEMMA NextInv == IInv /\ [Next]_vars => IInv'
<1> SUFFICES ASSUME IInv, [Next]_vars PROVE IInv'
  OBVIOUS
<1>1. CASE Provision \/ Start \/ PowerFails
  BY <1>1, ProvisionInv, StartInv, PowerFailsInv
<1>2. CASE Attach \/ Detach \/ Read \/ ReadAnswer
  BY <1>2, AttachInv, DetachInv, ReadInv, ReadAnswerInv
<1>3. ASSUME NEW k \in Keys, BeginEdit(k) \/ CommitEdit(k) \/ \E e \in Edits : Set(k, e)
      PROVE  IInv'
  BY <1>3, BeginEditInv, CommitEditInv, SetInv
<1>4. CASE Rearm
  BY <1>4, RebootInv, ErasedInv DEF Rearm
<1>5. ASSUME NEW k \in Keys, NEW full \in BOOLEAN, FactoryReset(k, full) PROVE IInv'
  BY <1>5, FactoryResetInv
<1>6. CASE SaveCache \/ Pump \/ Tick
  BY <1>6, SaveCacheInv, TurnInv, RestartInv, TickInv DEF Pump
<1>7. CASE PageEnds
  BY <1>7, ProvisionEndsInv, StoredInv, SavedInv, RestartedInv DEF PageEnds
<1>8. CASE UNCHANGED vars
  BY <1>8, StutterInv
<1> QED BY <1>1, <1>2, <1>3, <1>4, <1>5, <1>6, <1>7, <1>8 DEF Next

LEMMA Always == Spec => []IInv
BY InitInv, NextInv, PTL DEF Spec

-----------------------------------------------------------------------------
(* Every variable keeps its type: a restart is never further off than a     *)
(* client may order one, and never in the past.                             *)
THEOREM StoreTypeCorrect == Spec => []TypeOK
<1>1. IInv => TypeOK
  BY DEF IInv
<1> QED BY Always, <1>1, PTL

(* What a client was told is stored since the page was last lost is what    *)
(* the page holds, across edits, clients, restarts, and saves of the cache. *)
(* A power failure while the page is being written takes the page and every *)
(* promise with it: of those this says nothing. One at any other time takes *)
(* neither.                                                                 *)
THEOREM PromiseKept == Spec => []PromisesKept
<1>1. IInv => PromisesKept
  BY DEF IInv, FlashInv
<1> QED BY Always, <1>1, PTL

(* A message captured in an earlier session is worth nothing.               *)
THEOREM ReplayRefused == Spec => []NoReplay
<1>1. IInv => NoReplay
  BY DEF IInv, SessionInv, Elsewhere, NoReplay, Accepts
<1> QED BY Always, <1>1, PTL

(* A client that has read the last answer made for it can write for the     *)
(* second half of a key's life.                                             *)
THEOREM AnswerLasts == Spec => []AnswerIsGood
<1>1. IInv => AnswerIsGood
  <2> SUFFICES ASSUME IInv, present, answered, mine # NoKey, since + Rotate <= Ttl
               PROVE  Accepts(mine)
    BY DEF AnswerIsGood
  <2>1. key = mine /\ age < since + Rotate
    BY DEF IInv, SessionInv, Answered
  <2>2. age \in 0..Ttl /\ since \in 0..Ttl /\ Rotate \in Nat /\ Ttl \in Nat
    BY NodeStoreOK DEF IInv, TypeOK, NodeStoreOK
  <2> QED BY <2>1, <2>2 DEF Accepts
<1> QED BY Always, <1>1, PTL

=============================================================================
