---------------------------- MODULE NodeDB_proofs ----------------------------
(* The node database's safety, for any number of peers, rows and records,   *)
(* and that it implements what Recent promises.                             *)
(* Of the frames it is fed: what a relay may change of one and what it may  *)
(* not, and what the counter block is good for, for every frame, key and    *)
(* keystream; and what a coarse position in one tells, for every size of    *)
(* square.                                                                  *)
EXTENDS NodeDB, Wire, Position, SequenceTheorems, FiniteSetTheorems, WellFoundedInduction, TLAPS

(* The inductive invariant.  Ages distinct rests on the tick being ahead of *)
(* every row; the saved copy being true after a restart rests on every     *)
(* record finding a row: the records name different nodes, none of them is  *)
(* in the table yet, and there is room for all that are left.  What is said *)
(* of flash holds while no packet has slipped into a save of stop(); so far *)
(* as such a save has come, its records are then those of the newest peers. *)
TickAhead == \A i \in Occupied(table) : table[i].seen <= tick

SavedOnce ==
  /\ \A r \in saved : r.num \in Peers
  /\ \A p, q \in saved : p.num = q.num => p = q

SavedFits == IsFiniteSet(saved) /\ Cardinality(saved) <= Limit

Loading ==
  stage = "loading" =>
    /\ \A r \in left : ~Has(table, r.num)
    /\ strays = 0
    /\ used + Cardinality(left) <= Limit
    /\ Facts(saved) \subseteq Facts(left) \cup Facts(Records)

Settled == (stage = "up" => left = {}) /\ (saving # "no" => stage = "up")

HalfWay ==
  /\ views \subseteq {ViewOf(i) : i \in Occupied(table)}
  /\ got = {RecordOf(i) : i \in {j \in Occupied(table) : ViewOf(j) \notin views}}
  /\ \A r \in got, v \in views : v.seen < r.seen
  /\ Weight(got) <= Room

Stopping ==
  /\ saving = "reading" => HalfWay \/ (views = {} /\ got = Fitting(Records))
  /\ saving = "wrote" => saved = Fitting(Records)

FlashFits == ~slipped => SavedOnce /\ SavedFits /\ Loading /\ Stopping

IInv ==
  /\ TypeOK /\ OneRowEach /\ TickAhead /\ NamesHaveRows /\ Counted
  /\ Settled /\ FlashFits /\ CleanIsTrue

-----------------------------------------------------------------------------
(* Lemmas on the scans.                                                    *)
LEMMA FiniteRows == IsFiniteSet(Rows) /\ Cardinality(Rows) = Limit
BY FS_Interval, NodeDBOK DEF Rows

LEMMA FiniteOccupied ==
  ASSUME NEW t
  PROVE  /\ Occupied(t) \in SUBSET Rows
         /\ IsFiniteSet(Occupied(t))
         /\ Cardinality(Occupied(t)) \in Nat
         /\ Cardinality(Occupied(t)) <= Limit
<1>1. Occupied(t) \in SUBSET Rows
  BY DEF Occupied
<1>2. IsFiniteSet(Occupied(t)) /\ Cardinality(Occupied(t)) <= Limit
  BY <1>1, FiniteRows, FS_Subset
<1> QED BY <1>1, <1>2, FS_CardinalityType

\* A table with fewer nodes than rows has a free one.
LEMMA RoomLeft ==
  ASSUME NEW t, Cardinality(Occupied(t)) < Limit
  PROVE  ~Full(t)
<1> SUFFICES ASSUME Full(t) PROVE FALSE
  OBVIOUS
<1>1. Occupied(t) = Rows
  BY DEF Full, At, Occupied
<1> QED BY <1>1, FiniteRows, FiniteOccupied, NodeDBOK

\* What the table and the names say of the nodes.
LEMMA KnownFact ==
  \A f : f \in Facts(Records) <=>
    \E i \in Occupied(table) :
      f = [num |-> table[i].num, id |-> table[i].id, name |-> names[table[i].num]]
<1>1. \A i : Fact(RecordOf(i)) =
        [num |-> table[i].num, id |-> table[i].id, name |-> names[table[i].num]]
  BY DEF Fact, RecordOf, ReadAs, ViewOf
<1>2. \A f : f \in Facts(Records) <=> \E i \in Occupied(table) : f = Fact(RecordOf(i))
  BY DEF Facts, Records
<1> QED BY <1>1, <1>2

LEMMA KnownFactNext ==
  \A f : f \in Facts(Records)' <=>
    \E i \in Occupied(table') :
      f = [num |-> table'[i].num, id |-> table'[i].id, name |-> names'[table'[i].num]]
<1>1. \A i : Fact(RecordOf(i)') =
        [num |-> table'[i].num, id |-> table'[i].id, name |-> names'[table'[i].num]]
  BY DEF Fact, RecordOf, ReadAs, ViewOf
<1>2. \A f : f \in Facts(Records)' <=> \E i \in Occupied(table') : f = Fact(RecordOf(i)')
  BY DEF Facts, Records, Occupied, Fact, RecordOf, ReadAs, ViewOf
<1> QED BY <1>1, <1>2

-----------------------------------------------------------------------------
(* What all of the records take in flash: two units with a name, one without. *)

Named(S) == {r \in S : r.name # Absent}

\* Any set of numbers has a least.
LEMMA Least ==
  ASSUME NEW S \in SUBSET Nat, S # {}
  PROVE  \E n \in S : \A m \in S : n <= m
<1> DEFINE R == {ss \in Nat \X Nat : ss[1] < ss[2]}
<1>1. IsWellFoundedOn(R, Nat)
  BY NatLessThanWellFounded DEF OpToRel
<1>2. \A x, y \in Nat : <<y, x>> \in R <=> y < x
  OBVIOUS
<1> HIDE DEF R
<1>3. PICK n \in S : \A m \in S : ~(<<m, n>> \in R)
  BY <1>1, WFMin
<1>4. \A m \in S : ~(m < n)
  <2> TAKE m \in S
  <2>1. m \in Nat /\ n \in Nat /\ ~(<<m, n>> \in R)
    BY <1>3
  <2> QED  BY <1>2, <2>1
<1> QED  BY <1>4

\* Things of one unit and of two, and what they come to.
Load(c, T) == Cardinality(T) + Cardinality({x \in T : c[x] = 2})

LEMMA LoadStep ==
  ASSUME NEW S, IsFiniteSet(S), NEW c \in [S -> {1, 2}], NEW T \in SUBSET S
  PROVE  /\ IsFiniteSet(T) /\ Cardinality(T) \in Nat /\ Load(c, T) \in Nat
         /\ \A x \in T : /\ Cardinality(T \ {x}) = Cardinality(T) - 1
                         /\ Load(c, T) = c[x] + Load(c, T \ {x})
<1> DEFINE Two(U) == {x \in U : c[x] = 2}
<1>1. ASSUME NEW U \in SUBSET S
      PROVE  /\ IsFiniteSet(U) /\ IsFiniteSet(Two(U))
             /\ Cardinality(U) \in Nat /\ Cardinality(Two(U)) \in Nat
             /\ Load(c, U) = Cardinality(U) + Cardinality(Two(U)) /\ Load(c, U) \in Nat
  <2>1. IsFiniteSet(U) /\ Cardinality(U) \in Nat
    BY FS_Subset, FS_CardinalityType
  <2>2. IsFiniteSet(Two(U)) /\ Cardinality(Two(U)) \in Nat
    BY <2>1, FS_Subset, FS_CardinalityType
  <2>3. Load(c, U) = Cardinality(U) + Cardinality(Two(U))
    BY DEF Load
  <2> HIDE DEF Two
  <2> QED  BY <2>1, <2>2, <2>3
<1>2. ASSUME NEW x \in T
      PROVE  /\ Cardinality(T \ {x}) = Cardinality(T) - 1
             /\ Load(c, T) = c[x] + Load(c, T \ {x})
  <2> DEFINE U == T \ {x}
  <2>1. U \in SUBSET S /\ c[x] \in {1, 2}
    OBVIOUS
  <2>2. Cardinality(U) = Cardinality(T) - 1
    BY <1>1, FS_RemoveElement
  <2>3. CASE c[x] = 1
    <3>1. Two(U) = Two(T)
      BY <2>3
    <3> HIDE DEF U, Two
    <3> QED  BY <1>1, <2>1, <2>2, <2>3, <3>1 DEF U
  <2>4. CASE c[x] = 2
    <3>1. Two(U) = Two(T) \ {x} /\ x \in Two(T)
      BY <2>4
    <3> HIDE DEF Two
    <3> DEFINE V == Two(T)
    <3>2. IsFiniteSet(V)
      BY <1>1
    <3> HIDE DEF V
    <3>3. x \in V /\ Two(U) = V \ {x}
      BY <3>1 DEF V
    <3>4. Cardinality(Two(U)) = Cardinality(V) - 1
      BY ONLY <3>2, <3>3, FS_RemoveElement
    <3> HIDE DEF U
    <3> QED  BY <1>1, <2>1, <2>2, <2>4, <3>4 DEF U, V
  <2> HIDE DEF U
  <2> QED  BY <2>1, <2>3, <2>4
<1> QED  BY <1>1, <1>2

\* The sum is that, in whatever order it is taken.
LEMMA SumIsLoad ==
  ASSUME NEW S, IsFiniteSet(S), NEW c \in [S -> {1, 2}]
  PROVE  SumFunctionOnSet(c, S) = Load(c, S)
<1> DEFINE Pick(T) == CHOOSE x \in T : TRUE
           w == [T \in SUBSET S |-> Load(c, T)]
           h == CHOOSE h : h = [s \in SUBSET S |->
                  IF s = {} THEN 0 ELSE c[Pick(s)] + h[s \ {Pick(s)}]]
<1>1. \A T : T # {} => Pick(T) \in T
  OBVIOUS
<1>2. SumFunctionOnSet(c, S) = h[S]
  BY DEF SumFunctionOnSet, FoldFunctionOnSet, MapThenFoldSet
<1>3. \A T \in SUBSET S : IsFiniteSet(T) /\ Cardinality(T) \in Nat /\ Load(c, T) \in Nat
  BY LoadStep
<1>4. Load(c, {}) = 0
  <2>1. {x \in {} : c[x] = 2} = {} /\ Cardinality({}) = 0
    BY FS_EmptySet
  <2> QED  BY <2>1 DEF Load
<1> HIDE DEF Pick
<1>5. \A T \in SUBSET S : T # {} =>
        /\ T \ {Pick(T)} \in SUBSET S /\ Cardinality(T \ {Pick(T)}) = Cardinality(T) - 1
        /\ Load(c, T) = c[Pick(T)] + Load(c, T \ {Pick(T)})
  BY <1>1, LoadStep
<1>6. w = [s \in SUBSET S |-> IF s = {} THEN 0 ELSE c[Pick(s)] + w[s \ {Pick(s)}]]
  <2> HIDE DEF h
  <2>1. \A s \in SUBSET S : Load(c, s) = IF s = {} THEN 0 ELSE c[Pick(s)] + w[s \ {Pick(s)}]
    BY <1>4, <1>5
  <2> QED  BY <2>1
<1>7. h = [s \in SUBSET S |-> IF s = {} THEN 0 ELSE c[Pick(s)] + h[s \ {Pick(s)}]]
  <2> HIDE DEF w
  <2> QED  BY <1>6
<1> HIDE DEF h, w
<1> DEFINE Odd == {T \in SUBSET S : h[T] # Load(c, T)}
           Sizes == {Cardinality(T) : T \in Odd}
<1>8. Odd = {}
  <2> SUFFICES ASSUME Odd # {}  PROVE FALSE
    OBVIOUS
  <2>1. Sizes \in SUBSET Nat /\ Sizes # {}
    BY <1>3
  <2>2. PICK n \in Sizes : \A k \in Sizes : n <= k
    BY <2>1, Least
  <2>3. PICK T \in Odd : Cardinality(T) = n
    BY <2>2
  <2>4. T \in SUBSET S /\ h[T] # Load(c, T) /\ n \in Nat
    BY <2>1, <2>3
  <2>5. T # {}
    BY <1>4, <1>7, <2>4
  <2> DEFINE U == T \ {Pick(T)}
  <2>6. U \in SUBSET S /\ Cardinality(U) = n - 1 /\ Load(c, T) = c[Pick(T)] + Load(c, U)
    BY <1>5, <2>3, <2>4, <2>5
  <2>7. h[T] = c[Pick(T)] + h[U]
    BY <1>7, <2>4, <2>5
  <2> HIDE DEF U
  <2>8. h[U] = Load(c, U)
    <3> SUFFICES ASSUME h[U] # Load(c, U)  PROVE FALSE
      OBVIOUS
    <3>1. U \in Odd
      BY <2>6
    <3>2. Cardinality(U) \in Sizes
      BY <3>1
    <3>3. n <= n - 1
      BY <2>2, <2>6, <3>2
    <3> QED  BY <2>4, <3>3
  <2> QED  BY <2>4, <2>6, <2>7, <2>8
<1>9. h[S] = Load(c, S)
  BY <1>8
<1> QED  BY <1>2, <1>9

\* What a set of records weighs.
LEMMA WeighIs ==
  ASSUME NEW S, IsFiniteSet(S)
  PROVE  Weight(S) = Cardinality(S) + Cardinality(Named(S))
<1> DEFINE c == [q \in S |-> Size(q)]
<1>1. c \in [S -> {1, 2}] /\ {x \in S : c[x] = 2} = Named(S)
  BY DEF Size, Named
<1> HIDE DEF c
<1>2. SumFunctionOnSet(c, S) = Load(c, S)
  BY <1>1, SumIsLoad
<1>3. Load(c, S) = Cardinality(S) + Cardinality(Named(S))
  BY <1>1 DEF Load
<1> QED  BY <1>2, <1>3 DEF c, Weight

\* Nothing more weighs less.
LEMMA WeightMore ==
  ASSUME NEW S, IsFiniteSet(S), NEW T \in SUBSET S
  PROVE  /\ Weight(T) \in Nat /\ Weight(S) \in Nat /\ Weight(T) <= Weight(S)
         /\ IsFiniteSet(T)
<1>1. Named(T) \in SUBSET Named(S) /\ Named(S) \in SUBSET S
  BY DEF Named
<1>2. IsFiniteSet(T) /\ Cardinality(T) <= Cardinality(S) /\ IsFiniteSet(Named(S))
  BY <1>1, FS_Subset
<1>3. IsFiniteSet(Named(T)) /\ Cardinality(Named(T)) <= Cardinality(Named(S))
  BY <1>1, <1>2, FS_Subset
<1>4. /\ Cardinality(S) \in Nat /\ Cardinality(T) \in Nat
      /\ Cardinality(Named(S)) \in Nat /\ Cardinality(Named(T)) \in Nat
  BY <1>2, <1>3, FS_CardinalityType
<1>5. /\ Weight(S) = Cardinality(S) + Cardinality(Named(S))
      /\ Weight(T) = Cardinality(T) + Cardinality(Named(T))
  BY <1>2, WeighIs
<1> QED  BY <1>2, <1>3, <1>4, <1>5

LEMMA NothingWeighs == Weight({}) = 0 /\ Weight({}) <= Room
<1>1. Named({}) = {} /\ Cardinality({}) = 0 /\ IsFiniteSet({})
  BY FS_EmptySet DEF Named
<1>2. Weight({}) = 0
  BY <1>1, WeighIs
<1> QED  BY <1>2, NodeDBOK

\* All of the records fit exactly when their weight does.
LEMMA AllFit ==
  ASSUME NEW S, IsFiniteSet(S), \A r \in S : r.seen \in Nat
  PROVE  Fitting(S) = S <=> Weight(S) <= Room
<1>3. Room \in Nat /\ Weight(S) \in Nat
  BY NodeDBOK, WeightMore
<1>4. ASSUME Fitting(S) = S  PROVE Weight(S) <= Room
  <2>1. CASE S = {}
    BY <2>1, NothingWeighs
  <2>2. CASE S # {}
    <3> DEFINE ages == {r.seen : r \in S}
    <3>1. ages \in SUBSET Nat /\ ages # {}
      BY <2>2
    <3>2. PICK n \in ages : \A m \in ages : n <= m
      BY <3>1, Least
    <3>3. PICK r \in S : r.seen = n
      BY <3>2
    <3>4. Newer(S, r) = S
      BY <3>1, <3>2, <3>3 DEF Newer
    <3>5. Weight(Newer(S, r)) <= Room
      BY <1>4 DEF Fitting
    <3> QED  BY <3>4, <3>5
  <2> QED  BY <2>1, <2>2
<1>5. ASSUME Weight(S) <= Room  PROVE Fitting(S) = S
  <2>1. ASSUME NEW r \in S  PROVE Weight(Newer(S, r)) <= Room
    <3> DEFINE N == Newer(S, r)
    <3>1. N \in SUBSET S
      BY DEF Newer
    <3> HIDE DEF N
    <3>2. Weight(N) \in Nat /\ Weight(N) <= Weight(S)
      BY <3>1, WeightMore
    <3>3. Weight(N) <= Room
      BY <1>3, <1>5, <3>2
    <3> QED  BY <3>3 DEF N
  <2> QED  BY <2>1 DEF Fitting
<1> QED  BY <1>4, <1>5

\* The newest of the records, up to the first that does not fit.
LEMMA FirstThatFails ==
  ASSUME NEW S, IsFiniteSet(S), \A q \in S : q.seen \in Nat,
         NEW G \in SUBSET S, NEW r \in S, \A g \in G : r.seen < g.seen,
         \A q \in S : q \notin G => q.seen <= r.seen,
         Weight(G) <= Room, ~(Weight(G \cup {r}) <= Room)
  PROVE  G = Fitting(S)
<1>1. Room \in Nat
  BY NodeDBOK
<1>2. ASSUME NEW q \in G  PROVE q \in Fitting(S)
  <2> DEFINE N == Newer(S, q)
  <2>1. N \in SUBSET G
    BY <1>2 DEF Newer
  <2> HIDE DEF N
  <2>2. IsFiniteSet(G)
    BY FS_Subset
  <2>3. Weight(N) \in Nat /\ Weight(G) \in Nat /\ Weight(N) <= Weight(G)
    BY <2>1, <2>2, WeightMore
  <2>4. Weight(N) <= Room
    BY <1>1, <2>3
  <2> QED  BY <1>2, <2>4 DEF Fitting, N
<1>3. ASSUME NEW q \in Fitting(S)  PROVE q \in G
  <2> SUFFICES ASSUME q \notin G  PROVE FALSE
    OBVIOUS
  <2> DEFINE N == Newer(S, q)
             H == G \cup {r}
  <2>1. q \in S /\ Weight(N) <= Room /\ q.seen <= r.seen
    BY <1>3 DEF Fitting
  <2>2. H \in SUBSET N /\ N \in SUBSET S
    BY <2>1 DEF Newer
  <2>3. ~(Weight(H) <= Room)
    OBVIOUS
  <2> HIDE DEF N, H
  <2>4. IsFiniteSet(N)
    BY <2>2, FS_Subset
  <2>5. Weight(H) \in Nat /\ Weight(N) \in Nat /\ Weight(H) <= Weight(N)
    BY <2>2, <2>4, WeightMore
  <2> QED  BY <1>1, <2>1, <2>3, <2>5
<1> QED  BY <1>2, <1>3

\* The records of a table in which each node has one row.
RecOf(t, ns, i) ==
  [num |-> t[i].num, seen |-> t[i].seen, count |-> t[i].count, id |-> t[i].id,
   name |-> ns[t[i].num]]
RecordsOf(t, ns) == {RecOf(t, ns, i) : i \in Occupied(t)}

LEMMA RecordsAre ==
  ASSUME NEW t \in [Rows -> Row], NEW ns,
         \A i, j \in Occupied(t) : i # j => t[i].num # t[j].num
  PROVE  LET S == RecordsOf(t, ns)
         IN /\ IsFiniteSet(S) /\ \A r \in S : r.seen \in Nat
            /\ \A p, q \in S : p.num = q.num => p = q
<1> DEFINE S == RecordsOf(t, ns)
           Of(i) == RecOf(t, ns, i)
<1>1. S = {Of(i) : i \in Occupied(t)}
  BY DEF RecordsOf
<1>2. IsFiniteSet(S)
  <2> DEFINE f == [i \in Occupied(t) |-> Of(i)]
  <2> HIDE DEF Of, S
  <2>1. f \in Surjection(Occupied(t), S)
    BY <1>1 DEF Surjection
  <2> HIDE DEF f
  <2> QED  BY <2>1, FiniteOccupied, FS_Surjection
<1>3. \A i \in Occupied(t) : Of(i).num = t[i].num /\ Of(i).seen = t[i].seen /\ t[i].seen \in Nat
  BY DEF Occupied, Row, RecOf
<1> HIDE DEF Of, S
<1>4. \A r \in S : r.seen \in Nat
  BY <1>1, <1>3
<1>5. ASSUME NEW p \in S, NEW q \in S, p.num = q.num  PROVE p = q
  <2>1. PICK i \in Occupied(t) : p = Of(i)
    BY <1>1
  <2>2. PICK j \in Occupied(t) : q = Of(j)
    BY <1>1
  <2> QED  BY <1>3, <1>5, <2>1, <2>2
<1> QED  BY <1>2, <1>4, <1>5 DEF S

-----------------------------------------------------------------------------
(* One row written for node n, which has no other.                          *)
LEMMA WriteRow ==
  ASSUME IInv, NEW n \in Peers, NEW at \in Rows, NEW row \in Row,
         row.num = n, row.seen = tick + 1,
         \A i \in Rows : i # at => table[i].num # n,
         table' = [table EXCEPT ![at] = row], tick' = tick + 1,
         used' = used + (IF table[at].num = Free THEN 1 ELSE 0), strays' = strays
  PROVE  /\ table' \in [Rows -> Row] /\ tick' \in Nat /\ used' \in Nat
         /\ OneRowEach' /\ TickAhead' /\ Counted'
         /\ Occupied(table') = Occupied(table) \cup {at}
<1> USE NodeDBOK
<1>1. table \in [Rows -> Row] /\ tick \in Nat /\ used \in Nat /\ strays \in Nat
  BY DEF IInv, TypeOK
<1>2. table' \in [Rows -> Row] /\ tick' \in Nat
  BY <1>1
<1>3. Occupied(table') = Occupied(table) \cup {at}
  BY <1>1 DEF Occupied
<1>4. \A i \in Rows : table'[i] = IF i = at THEN row ELSE table[i]
  BY <1>1
<1>5. TickAhead'
  <2> SUFFICES ASSUME NEW i \in Occupied(table') PROVE table'[i].seen <= tick'
    BY DEF TickAhead
  <2>1. CASE i = at
    BY <2>1, <1>1, <1>4
  <2>2. CASE i # at
    <3>1. i \in Occupied(table) /\ i \in Rows
      BY <2>2, <1>3 DEF Occupied
    <3>2. table[i].seen <= tick /\ table[i].seen \in Nat
      BY <3>1, <1>1 DEF IInv, TickAhead, Row
    <3> QED BY <3>1, <3>2, <2>2, <1>1, <1>4
  <2> QED BY <2>1, <2>2
<1>6. OneRowEach'
  <2> SUFFICES ASSUME NEW i \in Occupied(table'), NEW j \in Occupied(table'), i # j
               PROVE  table'[i].num # table'[j].num /\ table'[i].seen # table'[j].seen
    BY DEF OneRowEach
  <2>1. i \in Rows /\ j \in Rows /\ (i # at => i \in Occupied(table))
        /\ (j # at => j \in Occupied(table))
    BY <1>3 DEF Occupied
  <2>2. \A k \in Occupied(table) : table[k].seen \in Nat /\ table[k].seen <= tick
    BY <1>1 DEF IInv, TickAhead, Row, Occupied
  <2>3. CASE i # at /\ j # at
    BY <2>1, <2>3, <1>4 DEF IInv, OneRowEach
  <2>4. CASE i = at
    <3>1. j # at /\ table'[j] = table[j] /\ table'[i] = row
      BY <2>1, <2>4, <1>4
    <3> QED BY <3>1, <2>1, <2>2, <1>1
  <2>5. CASE j = at
    <3>1. i # at /\ table'[i] = table[i] /\ table'[j] = row
      BY <2>1, <2>5, <1>4
    <3> QED BY <3>1, <2>1, <2>2, <1>1
  <2> QED BY <2>3, <2>4, <2>5
<1>7. Counted' /\ used' \in Nat
  <2>1. Cardinality(Occupied(table')) =
          IF at \in Occupied(table) THEN Cardinality(Occupied(table))
          ELSE Cardinality(Occupied(table)) + 1
    BY <1>3, FiniteOccupied, FS_AddElement
  <2>2. at \in Occupied(table) <=> table[at].num # Free
    BY DEF Occupied
  <2>3. Cardinality(Occupied(table)) \in Nat /\ used = Cardinality(Occupied(table)) + strays
    BY FiniteOccupied DEF IInv, Counted
  <2>4. used' = Cardinality(Occupied(table')) + strays'
    BY <2>1, <2>2, <2>3, <1>1
  <2> QED BY <2>4, <1>1 DEF Counted
<1> QED BY <1>2, <1>3, <1>5, <1>6, <1>7

-----------------------------------------------------------------------------
(* An empty table.                                                         *)
LEMMA Emptied ==
  /\ NoRows \in [Rows -> Row]
  /\ NoNames \in [Peers -> Names \cup {Absent}]
  /\ Occupied(NoRows) = {}
  /\ 0 \in Nat /\ Cardinality({}) = 0 /\ IsFiniteSet({})
<1> USE NodeDBOK
<1>1. EmptyRow \in Row /\ EmptyRow.num = Free
  BY DEF EmptyRow, Row
<1>2. NoRows \in [Rows -> Row]
  BY <1>1 DEF NoRows
<1>3. NoNames \in [Peers -> Names \cup {Absent}]
  BY DEF NoNames
<1>4. Occupied(NoRows) = {}
  BY <1>1 DEF Occupied, NoRows
<1> QED BY <1>2, <1>3, <1>4, FS_EmptySet

LEMMA InitIInv == Init => IInv
<1> SUFFICES ASSUME Init PROVE IInv
  OBVIOUS
<1>1. TypeOK
  BY Emptied DEF Init, TypeOK
<1>2. Counted /\ OneRowEach /\ TickAhead
  BY Emptied DEF Init, Counted, OneRowEach, TickAhead
<1>3. NamesHaveRows
  BY DEF Init, NamesHaveRows, NoNames
<1>4. SavedOnce /\ SavedFits /\ Loading /\ CleanIsTrue /\ Settled /\ Stopping
  BY FS_EmptySet, NodeDBOK
  DEF Init, SavedOnce, SavedFits, Loading, Settled, CleanIsTrue, Facts, Stopping
<1> QED BY <1>1, <1>2, <1>3, <1>4 DEF IInv, FlashFits

LEMMA ForgetAllIInv == ASSUME IInv, ForgetAll PROVE IInv'
<1>1. TypeOK'
  BY Emptied DEF IInv, ForgetAll, TypeOK, stopping
<1>2. Counted' /\ OneRowEach' /\ TickAhead'
  BY Emptied DEF ForgetAll, Counted, OneRowEach, TickAhead
<1>3. NamesHaveRows'
  BY DEF ForgetAll, NamesHaveRows, NoNames
<1>4. FlashFits'
  BY DEF IInv, ForgetAll, stopping, FlashFits, SavedOnce, SavedFits, Loading, Stopping
<1>5. CleanIsTrue' /\ Settled'
  BY DEF IInv, ForgetAll, stopping, Settled, CleanIsTrue
<1> QED BY <1>1, <1>2, <1>3, <1>4, <1>5 DEF IInv

LEMMA FactoryResetIInv == ASSUME IInv, FactoryReset PROVE IInv'
<1>1. left = {}
  BY DEF IInv, FactoryReset, Settled
<1>2. TypeOK'
  BY <1>1, Emptied DEF IInv, FactoryReset, TypeOK, stopping
<1>3. Counted' /\ OneRowEach' /\ TickAhead'
  BY Emptied DEF FactoryReset, Counted, OneRowEach, TickAhead
<1>4. NamesHaveRows'
  BY DEF FactoryReset, NamesHaveRows, NoNames
<1>5. FlashFits' /\ CleanIsTrue' /\ Settled'
  BY <1>1, FS_EmptySet, NodeDBOK
     DEF FactoryReset, stopping, FlashFits, SavedOnce, SavedFits, Loading, Stopping, Settled,
         CleanIsTrue, Facts
<1> QED BY <1>2, <1>3, <1>4, <1>5 DEF IInv

LEMMA RestartIInv == ASSUME IInv, Restart PROVE IInv'
<1>1. TypeOK'
  BY Emptied DEF IInv, Restart, TypeOK
<1>2. Counted' /\ OneRowEach' /\ TickAhead'
  BY Emptied DEF Restart, Counted, OneRowEach, TickAhead
<1>3. NamesHaveRows'
  BY DEF Restart, NamesHaveRows, NoNames
<1>4. CleanIsTrue' /\ Settled'
  BY DEF IInv, Restart, CleanIsTrue, Settled
<1>5. FlashFits'
  <2> SUFFICES ASSUME ~slipped  PROVE SavedOnce' /\ SavedFits' /\ Loading' /\ Stopping'
    BY DEF Restart, FlashFits
  <2>1. \A m : ~Has(table', m)
    BY Emptied DEF Restart, Has, At, Occupied
  <2>2. used' + Cardinality(left') <= Limit
    BY FS_CardinalityType, NodeDBOK DEF IInv, FlashFits, Restart, SavedFits
  <2>3. Facts(saved)' \subseteq Facts(left)'
    BY DEF Restart, Facts
  <2>4. SavedOnce' /\ SavedFits' /\ Stopping'
    BY DEF IInv, FlashFits, Restart, SavedOnce, SavedFits, Stopping
  <2> QED BY <2>1, <2>2, <2>3, <2>4 DEF Restart, Loading
<1> QED BY <1>1, <1>2, <1>3, <1>4, <1>5 DEF IInv

\* A step that leaves the roster alone.
LEMMA SameRecords ==
  ASSUME UNCHANGED <<table, names>>
  PROVE  /\ Records' = Records /\ Fitting(Records)' = Fitting(Records)
         /\ Facts(Records)' = Facts(Records)
<1>1. Records' = Records
  BY DEF Records, RecordOf, ReadAs, ViewOf, Occupied
<1>2. Fitting(Records)' = Fitting(Records')
  BY DEF Fitting, Newer, Weight, Size
<1>3. Facts(Records)' = Facts(Records')
  BY DEF Facts, Fact
<1> QED  BY <1>1, <1>2, <1>3

LEMMA SameRoster ==
  ASSUME IInv, UNCHANGED book
  PROVE  OneRowEach' /\ TickAhead' /\ NamesHaveRows' /\ Counted'
BY DEF IInv, book, OneRowEach, TickAhead, NamesHaveRows, Counted, Occupied, Has, At

LEMMA LoadedIInv == ASSUME IInv, Loaded PROVE IInv'
<1>1. TypeOK'
  BY DEF IInv, Loaded, TypeOK, book, stopping
<1>2. Counted' /\ OneRowEach' /\ TickAhead' /\ NamesHaveRows'
  BY SameRoster DEF Loaded
<1>3. FlashFits' /\ Settled'
  BY DEF IInv, Loaded, stopping, FlashFits, SavedOnce, SavedFits, Loading, Settled, Stopping
<1>4. CleanIsTrue'
  <2> SUFFICES ASSUME ~slipped  PROVE Facts(saved)' \subseteq Facts(Records)'
    BY DEF CleanIsTrue, Loaded
  <2>1. Facts(left) = {} /\ Facts(saved) \subseteq Facts(left) \cup Facts(Records)
    BY DEF IInv, FlashFits, Loaded, Loading, Facts
  <2>2. Facts(Records)' = Facts(Records) /\ Facts(saved)' = Facts(saved)
    BY SameRecords DEF Loaded, book, Facts
  <2> QED BY <2>1, <2>2
<1> QED BY <1>1, <1>2, <1>3, <1>4 DEF IInv

-----------------------------------------------------------------------------
(* The records of the roster, and the saves.                               *)

LEMMA RecordsOfRoster ==
  ASSUME IInv
  PROVE  /\ IsFiniteSet(Records) /\ Records \subseteq Record
         /\ Cardinality(Records) \in Nat /\ Cardinality(Records) <= Limit
         /\ \A r \in Records : r.num \in Peers /\ r.seen \in Nat
         /\ \A p, q \in Records : p.num = q.num => p = q
         /\ \A i \in Occupied(table) :
              RecordOf(i).num = table[i].num /\ RecordOf(i).seen = table[i].seen
<1> USE NodeDBOK
<1>1. \A i \in Occupied(table) :
        /\ RecordOf(i) \in Record /\ RecordOf(i).num = table[i].num /\ table[i].num \in Peers
        /\ RecordOf(i).seen = table[i].seen /\ table[i].seen \in Nat
  <2> TAKE i \in Occupied(table)
  <2>1. table[i] \in Row /\ table[i].num # Free
    BY DEF Occupied, IInv, TypeOK
  <2>2. names[table[i].num] \in Names \cup {Absent} /\ table[i].num \in Peers
    BY <2>1 DEF Row, IInv, TypeOK
  <2> QED BY <2>1, <2>2 DEF RecordOf, ReadAs, ViewOf, Record, Row
<1> DEFINE Of(i) == RecordOf(i)
           S == Records
<1>2. S = {Of(i) : i \in Occupied(table)}
  BY DEF Records
<1>3. \A i, j \in Occupied(table) : i # j => table[i].num # table[j].num
  BY DEF IInv, OneRowEach
<1> HIDE DEF Of, S
<1>4. S \subseteq Record /\ \A r \in S : r.num \in Peers /\ r.seen \in Nat
  BY <1>1, <1>2 DEF Of
<1>5. ASSUME NEW p \in S, NEW q \in S, p.num = q.num  PROVE p = q
  <2>1. PICK i \in Occupied(table) : p = Of(i)
    BY <1>2
  <2>2. PICK j \in Occupied(table) : q = Of(j)
    BY <1>2
  <2> QED BY <1>1, <1>3, <1>5, <2>1, <2>2 DEF Of
<1>6. IsFiniteSet(S) /\ Cardinality(S) <= Cardinality(Occupied(table))
  <2> DEFINE f == [i \in Occupied(table) |-> Of(i)]
  <2>1. f \in Surjection(Occupied(table), S)
    BY <1>2 DEF Surjection
  <2> HIDE DEF f
  <2> QED  BY <2>1, FiniteOccupied, FS_Surjection
<1>7. Cardinality(S) \in Nat /\ Cardinality(S) <= Limit
  BY <1>6, FiniteOccupied, FS_CardinalityType
<1> QED  BY <1>1, <1>4, <1>5, <1>6, <1>7 DEF S

\* What fits of the roster, once it is in flash.
LEMMA KeptFits ==
  ASSUME IInv, UNCHANGED <<table, names>>, saved' = Fitting(Records)
  PROVE  /\ saved' \subseteq Record /\ SavedOnce' /\ SavedFits'
         /\ Facts(saved)' \subseteq Facts(Records)'
<1>1. saved' \subseteq Records
  BY DEF Fitting
<1>2. IsFiniteSet(saved') /\ Cardinality(saved') <= Cardinality(Records)
  BY <1>1, RecordsOfRoster, FS_Subset
<1>3. Cardinality(saved') \in Nat /\ Limit \in Nat
  BY <1>2, FS_CardinalityType, NodeDBOK
<1>4. SavedFits'
  BY <1>2, <1>3, RecordsOfRoster DEF SavedFits
<1>5. Facts(saved)' \subseteq Facts(Records)
  BY <1>1 DEF Facts
<1> QED  BY <1>1, <1>4, <1>5, RecordsOfRoster, SameRecords DEF SavedOnce

LEMMA SaveIInv == ASSUME IInv, Save PROVE IInv'
<1>1. /\ UNCHANGED <<book, table, names, left, stage, saving, views, got>>
      /\ stage = "up" /\ saving = "no"
      /\ saved' = Fitting(Records) /\ dirty' = FALSE /\ slipped' = FALSE
  BY DEF Save, book, stopping
<1>2. /\ saved' \subseteq Record /\ SavedOnce' /\ SavedFits'
      /\ Facts(saved)' \subseteq Facts(Records)'
  BY <1>1, KeptFits
<1>3. TypeOK' /\ Settled'
  BY <1>1, <1>2 DEF IInv, TypeOK, Settled, book
<1>4. FlashFits' /\ CleanIsTrue'
  BY <1>1, <1>2 DEF FlashFits, Loading, Stopping, CleanIsTrue
<1> QED BY <1>1, <1>3, <1>4, SameRoster DEF IInv

LEMMA StopLookIInv == ASSUME IInv, StopLook PROVE IInv'
<1>1. /\ UNCHANGED <<book, table, names, used, strays, dirty, saved, left, stage, slipped>>
      /\ saving = "no" /\ stage = "up" /\ saving' = "reading" /\ got' = {}
      /\ views' = {ViewOf(i) : i \in Occupied(table)}
  BY DEF StopLook, book
<1>2. TypeOK' /\ Settled'
  <2>1. ASSUME NEW i \in Occupied(table)  PROVE ViewOf(i) \in View
    <3>1. table[i] \in Row /\ table[i].num # Free /\ i \in Rows
      BY DEF Occupied, IInv, TypeOK
    <3> QED  BY <3>1 DEF ViewOf, View, Row
  <2>2. views' \subseteq View
    BY <1>1, <2>1
  <2> QED  BY <1>1, <2>2 DEF IInv, TypeOK, Settled, book
<1>3. HalfWay'
  <2>1. \A i : ViewOf(i)' = ViewOf(i)
    BY <1>1 DEF ViewOf
  <2>2. {ViewOf(i) : i \in Occupied(table)}' = {ViewOf(i) : i \in Occupied(table)}
    BY <1>1, <2>1 DEF Occupied
  <2>3. {j \in Occupied(table) : ViewOf(j) \notin views}' = {}
    BY <1>1, <2>1 DEF Occupied
  <2> QED  BY <1>1, <2>2, <2>3, NothingWeighs DEF HalfWay, Weight
<1>4. FlashFits' /\ CleanIsTrue'
  <2>1. Facts(Records)' = Facts(Records) /\ Facts(saved)' = Facts(saved)
    BY <1>1, SameRecords DEF Facts
  <2> QED  BY <1>1, <1>3, <2>1
    DEF IInv, FlashFits, SavedOnce, SavedFits, Loading, Stopping, CleanIsTrue
<1> QED BY <1>1, <1>2, <1>4, SameRoster DEF IInv

\* One more peer read.
LEMMA ReadPeerReads ==
  ASSUME IInv, ReadPeer, ~slipped
  PROVE  HalfWay' \/ (views' = {} /\ got' = Fitting(Records)')
<1>1. PICK v \in views :
        /\ \A w \in views : w.seen <= v.seen
        /\ IF Weight(got \cup {ReadAs(v)}) <= Room
             THEN got' = got \cup {ReadAs(v)} /\ views' = views \ {v}
             ELSE got' = got /\ views' = {}
  BY DEF ReadPeer
<1>2. HalfWay
  BY <1>1 DEF ReadPeer, IInv, FlashFits, Stopping
<1> DEFINE O == Occupied(table)
           V(i) == ViewOf(i)
           Of(i) == RecordOf(i)
<1>3. /\ views \subseteq {V(i) : i \in O}
      /\ got = {Of(i) : i \in {j \in O : V(j) \notin views}}
      /\ \A r \in got, w \in views : w.seen < r.seen
      /\ Weight(got) <= Room
  BY <1>2 DEF HalfWay
<1>4. UNCHANGED <<table, names>>
  BY DEF ReadPeer, book
<1>5. /\ \A i \in O : V(i).seen = table[i].seen /\ V(i).at = i /\ Of(i) = ReadAs(V(i))
      /\ \A i \in O : Of(i).seen = table[i].seen /\ table[i].seen \in Nat
      /\ \A i, j \in O : i # j => table[i].seen # table[j].seen
  <2>1. \A i \in O : V(i).seen = table[i].seen /\ V(i).at = i /\ Of(i) = ReadAs(V(i))
    BY DEF ViewOf, RecordOf
  <2>2. \A i \in O : Of(i).seen = table[i].seen
    BY RecordsOfRoster
  <2>3. \A i \in O : table[i].seen \in Nat
    BY DEF Occupied, IInv, TypeOK, Row
  <2> QED  BY <2>1, <2>2, <2>3 DEF IInv, OneRowEach
<1>6. (HalfWay' <=>
        /\ views' \subseteq {V(i) : i \in O}
        /\ got' = {Of(i) : i \in {j \in O : V(j) \notin views'}}
        /\ \A r \in got', w \in views' : w.seen < r.seen
        /\ Weight(got') <= Room)
  <2>1. /\ {ViewOf(i) : i \in Occupied(table)}' = {V(i) : i \in O}
        /\ {RecordOf(i) : i \in {j \in Occupied(table) : ViewOf(j) \notin views}}'
              = {Of(i) : i \in {j \in O : V(j) \notin views'}}
    BY <1>4 DEF ViewOf, RecordOf, ReadAs, Occupied
  <2>2. Weight(got)' = Weight(got')
    BY DEF Weight, Size
  <2> QED  BY <2>1, <2>2 DEF HalfWay
<1>7. Records = {Of(i) : i \in O}
  BY DEF Records
<1>8. PICK k \in O : v = V(k)
  BY <1>3
<1> DEFINE r == Of(k)
<1> HIDE DEF O, V, Of
<1>9. r.seen = table[k].seen /\ v.seen = table[k].seen /\ ReadAs(v) = r
  BY <1>5, <1>8
<1>10. CASE Weight(got \cup {r}) <= Room
  <2>1. got' = got \cup {r} /\ views' = views \ {v}
    BY <1>1, <1>9, <1>10
  <2>2. \A j \in O : V(j) \notin views' <=> V(j) \notin views \/ j = k
    BY <1>5, <1>8, <2>1
  <2>3. got' = {Of(i) : i \in {j \in O : V(j) \notin views'}}
    BY <1>3, <1>8, <2>1, <2>2
  <2>4. ASSUME NEW q \in got', NEW w \in views'  PROVE w.seen < q.seen
    <3>1. CASE q \in got
      BY <1>3, <2>1, <2>4, <3>1
    <3>2. CASE q = r
      <4>1. PICK j \in O : w = V(j)
        BY <1>3, <2>1, <2>4
      <4>2. j # k /\ w.seen = table[j].seen /\ table[j].seen \in Nat /\ table[k].seen \in Nat
        BY <1>5, <1>8, <2>1, <2>4, <4>1
      <4>3. w.seen <= table[k].seen /\ table[j].seen # table[k].seen
        BY <1>1, <1>5, <1>8, <1>9, <2>1, <2>4, <4>1, <4>2
      <4> QED  BY <1>9, <3>2, <4>2, <4>3
    <3> QED  BY <2>1, <2>4, <3>1, <3>2
  <2>5. views' \subseteq {V(i) : i \in O}
    BY <1>3, <2>1
  <2> QED  BY <1>6, <1>10, <2>1, <2>3, <2>4, <2>5
<1>11. CASE ~(Weight(got \cup {r}) <= Room)
  <2>1. got' = got /\ views' = {}
    BY <1>1, <1>9, <1>11
  <2> DEFINE S == Records
             G == got
  <2>2. S = {Of(i) : i \in O} /\ G = {Of(i) : i \in {j \in O : V(j) \notin views}}
    BY <1>3, <1>7
  <2>3. IsFiniteSet(S) /\ \A q \in S : q.seen \in Nat
    BY RecordsOfRoster
  <2>4. Weight(G) <= Room /\ ~(Weight(G \cup {r}) <= Room)
    BY <1>3, <1>11
  <2>5. \A g \in G : r.seen < g.seen
    BY <1>3, <1>9
  <2> HIDE DEF S, G
  <2>6. G \in SUBSET S /\ r \in S
    BY <2>2
  <2>7. ASSUME NEW q \in S, q \notin G  PROVE q.seen <= r.seen
    <3>1. PICK j \in O : q = Of(j)
      BY <2>2
    <3>2. V(j) \in views
      BY <2>2, <2>7, <3>1
    <3> QED  BY <1>1, <1>5, <1>9, <3>1, <3>2
  <2> HIDE DEF r
  <2>8. G = Fitting(S)
    BY <2>3, <2>4, <2>5, <2>6, <2>7, FirstThatFails
  <2>9. Fitting(S)' = Fitting(S)
    BY <1>4, SameRecords DEF S
  <2> QED  BY <2>1, <2>8, <2>9 DEF S, G
<1> QED BY <1>10, <1>11

LEMMA ReadPeerIInv == ASSUME IInv, ReadPeer PROVE IInv'
<1>1. /\ UNCHANGED <<book, table, names, used, tick, strays, dirty, saved, left, stage, slipped, saving>>
      /\ saving = "reading"
  BY DEF ReadPeer, book
<1>2. PICK v \in views : \/ got' = got \cup {ReadAs(v)} /\ views' = views \ {v}
                         \/ got' = got /\ views' = {}
  BY DEF ReadPeer
<1>3. ReadAs(v) \in Record
  <2>1. v.num \in Peers /\ v.at \in Rows /\ v.seen \in Nat
    BY DEF IInv, TypeOK, View
  <2>2. table[v.at] \in Row /\ names[v.num] \in Names \cup {Absent}
    BY <2>1 DEF IInv, TypeOK
  <2> QED  BY <2>1, <2>2 DEF ReadAs, Record, Row
<1>4. got' \subseteq Record /\ views' \subseteq View
  BY <1>2, <1>3 DEF IInv, TypeOK
<1>5. TypeOK' /\ Settled'
  BY <1>1, <1>4 DEF IInv, TypeOK, Settled
<1>6. FlashFits' /\ CleanIsTrue'
  <2>1. Facts(Records)' = Facts(Records) /\ Facts(saved)' = Facts(saved)
    BY <1>1, SameRecords DEF Facts
  <2>2. ~slipped => Stopping'
    BY <1>1, ReadPeerReads DEF Stopping
  <2> QED  BY <1>1, <2>1, <2>2
    DEF IInv, FlashFits, SavedOnce, SavedFits, Loading, CleanIsTrue, Settled
<1> QED BY <1>1, <1>5, <1>6, SameRoster DEF IInv

\* Once all are read, what is written is what fits.
LEMMA WritesWhatFits ==
  ASSUME IInv, StopWrite, ~slipped
  PROVE  saved' = Fitting(Records)
<1>1. saving = "reading" /\ views = {} /\ saved' = got
  BY DEF StopWrite
<1>2. CASE HalfWay
  <2>1. got = Records /\ Weight(got) <= Room
    BY <1>1, <1>2 DEF HalfWay, Records
  <2> QED  BY <1>1, <2>1, AllFit, RecordsOfRoster
<1> QED  BY <1>1, <1>2 DEF IInv, FlashFits, Stopping

LEMMA StopWriteIInv == ASSUME IInv, StopWrite PROVE IInv'
<1>1. /\ UNCHANGED <<book, table, names, used, tick, strays, dirty, left, stage, views, slipped>>
      /\ saving = "reading" /\ saving' = "wrote" /\ saved' = got /\ got' = {}
  BY DEF StopWrite, book
<1>2. stage = "up" /\ left = {}
  BY <1>1 DEF IInv, Settled
<1>3. TypeOK' /\ Settled'
  BY <1>1, <1>2 DEF IInv, TypeOK, Settled
<1>4. FlashFits' /\ CleanIsTrue'
  <2>1. CASE slipped
    BY <1>1, <2>1 DEF FlashFits, CleanIsTrue
  <2>2. CASE ~slipped
    <3>1. saved' = Fitting(Records)
      BY <2>2, WritesWhatFits
    <3>2. SavedOnce' /\ SavedFits' /\ Facts(saved)' \subseteq Facts(Records)'
          /\ Fitting(Records)' = Fitting(Records)
      BY <1>1, <3>1, KeptFits, SameRecords
    <3> QED  BY <1>1, <1>2, <3>1, <3>2 DEF FlashFits, Loading, Stopping, CleanIsTrue
  <2> QED  BY <2>1, <2>2
<1> QED BY <1>1, <1>3, <1>4, SameRoster DEF IInv

LEMMA StopDoneIInv == ASSUME IInv, StopDone PROVE IInv'
<1>1. /\ UNCHANGED <<book, table, names, used, tick, strays, saved, left, stage, views, got, slipped>>
      /\ saving = "wrote" /\ saving' = "no" /\ dirty' = FALSE
  BY DEF StopDone, book
<1>2. TypeOK' /\ Settled'
  BY <1>1 DEF IInv, TypeOK, Settled
<1>3. FlashFits' /\ CleanIsTrue'
  <2>1. ~slipped => Facts(saved)' \subseteq Facts(Records)'
    <3>1. ~slipped => saved' = Fitting(Records)
      BY <1>1 DEF IInv, FlashFits, Stopping
    <3> QED  BY <1>1, <3>1, KeptFits
  <2>2. Facts(Records)' = Facts(Records) /\ Facts(saved)' = Facts(saved)
    BY <1>1, SameRecords DEF Facts
  <2> QED  BY <1>1, <2>1, <2>2
    DEF IInv, FlashFits, SavedOnce, SavedFits, Loading, Stopping, Settled, CleanIsTrue
<1> QED BY <1>1, <1>2, <1>3, SameRoster DEF IInv

LEMMA StopFailsIInv == ASSUME IInv, StopFails PROVE IInv'
<1>1. /\ UNCHANGED <<book, table, names, used, tick, strays, dirty, saved, left, stage, slipped>>
      /\ saving # "no" /\ saving' = "no" /\ views' = {} /\ got' = {}
  BY DEF StopFails, book
<1>2. TypeOK' /\ Settled'
  BY <1>1 DEF IInv, TypeOK, Settled
<1>3. FlashFits' /\ CleanIsTrue'
  <2>1. Facts(Records)' = Facts(Records) /\ Facts(saved)' = Facts(saved)
    BY <1>1, SameRecords DEF Facts
  <2> QED  BY <1>1, <2>1
    DEF IInv, FlashFits, SavedOnce, SavedFits, Loading, Stopping, Settled, CleanIsTrue
<1> QED BY <1>1, <1>2, <1>3, SameRoster DEF IInv

-----------------------------------------------------------------------------
\* A sighting of n comes to one row, and to its name.
Sighted(n, claim, at, row) ==
  LET base == IF Evicts(n) THEN EmptyRow ELSE table[at] IN
  /\ Has(table, n) => table[at].num = n
  /\ ~Has(table, n) /\ ~Full(table) => at \in First(At(table, Free)) /\ table[at].num = Free
  /\ Evicts(n) => at \in Oldest(table) /\ table[at].num \in Peers \ {n}
  /\ \A i \in Rows : i # at => table[i].num # n
  /\ row = [num |-> n, seen |-> tick + 1, count |-> Capped(base.count),
            id |-> Said(base.id, claim.id)]
  /\ table' = [table EXCEPT ![at] = row]
  /\ names' \in [Peers -> Names \cup {Absent}] /\ names'[n] = Said(names[n], claim.name)
  /\ \A m \in Peers \ {n} :
       names'[m] = IF Evicts(n) /\ m = table[at].num THEN Absent ELSE names[m]
  /\ dirty' = (dirty \/ Fresh(n) \/ Changes(base.id, names[n], claim))

LEMMA ReceiveIs ==
  ASSUME IInv, NEW n \in Peers, NEW claim \in Claim, Receive(n, claim)
  PROVE  \E at \in Rows, row \in Row : Sighted(n, claim, at, row)
<1> USE NodeDBOK
<1>1. PICK at \in Place(table, n) :
        /\ table' = [Heard(n, at) EXCEPT ![at].id = Said(@, claim.id)]
        /\ names' = [NamesLeft(n, at) EXCEPT ![n] = Said(@, claim.name)]
        /\ dirty' = (dirty \/ Fresh(n)
                     \/ Changes(Heard(n, at)[at].id, NamesLeft(n, at)[n], claim))
  BY DEF Receive
<1>2. /\ table \in [Rows -> Row] /\ names \in [Peers -> Names \cup {Absent}]
      /\ tick \in Nat /\ n # Free
  BY DEF IInv, TypeOK
<1>3. /\ at \in Rows
      /\ Has(table, n) => table[at].num = n
      /\ ~Has(table, n) /\ ~Full(table) => at \in First(At(table, Free)) /\ table[at].num = Free
      /\ Evicts(n) => at \in Oldest(table) /\ table[at].num \in Peers \ {n}
  <2>1. CASE Has(table, n)
    BY <2>1, <1>2 DEF Place, First, At, Evicts
  <2>2. CASE ~Has(table, n) /\ ~Full(table)
    BY <2>2, <1>2 DEF Place, First, At, Evicts
  <2>3. CASE ~Has(table, n) /\ Full(table)
    <3>1. at \in Oldest(table) /\ at \in Occupied(table)
      BY <2>3, <1>1 DEF Place, Oldest
    <3>2. at \in Rows /\ table[at].num # Free /\ table[at].num \in Peers \cup {Free}
      BY <3>1, <1>2 DEF Occupied, Row
    <3> QED BY <3>1, <3>2, <2>3, <1>2 DEF Has, At
  <2> QED BY <2>1, <2>2, <2>3
<1> DEFINE base == IF Evicts(n) THEN EmptyRow ELSE table[at]
           row  == [Touched(base, n, tick + 1) EXCEPT !.id = Said(@, claim.id)]
<1>4. base \in Row /\ (base.num = n \/ base.num = Free)
  <2>1. EmptyRow \in Row /\ EmptyRow.num = Free
    BY DEF EmptyRow, Row
  <2>2. table[at] \in Row
    BY <1>2, <1>3
  <2> QED BY <2>1, <2>2, <1>3 DEF Evicts
<1>5. table' = [table EXCEPT ![at] = row] /\ Heard(n, at)[at].id = base.id
  BY <1>1, <1>2, <1>3 DEF Heard, Touched
<1> HIDE DEF base
<1>6. row \in Row /\ row = [num |-> n, seen |-> tick + 1, count |-> Capped(base.count),
                            id |-> Said(base.id, claim.id)]
  <2>1. Capped(base.count) \in 0..CountMax
    BY <1>4 DEF Capped, Row
  <2>2. Said(base.id, claim.id) \in Ids \cup {Unset}
    BY <1>4 DEF Said, Row, Claim
  <2>3. (IF base.num = Free THEN n ELSE base.num) = n
    BY <1>4
  <2>4. row = [num |-> n, seen |-> tick + 1, count |-> Capped(base.count),
               id |-> Said(base.id, claim.id)]
    BY <2>3, <1>4 DEF Touched
  <2> HIDE DEF row
  <2> QED BY <2>1, <2>2, <2>4, <1>2 DEF Row
<1>7. \A i \in Rows : i # at => table[i].num # n
  BY <1>2, <1>3 DEF IInv, OneRowEach, Occupied, Has, At
<1>8. /\ NamesLeft(n, at) \in [Peers -> Names \cup {Absent}]
      /\ NamesLeft(n, at)[n] = names[n]
      /\ \A m \in Peers \ {n} : NamesLeft(n, at)[m] =
           IF Evicts(n) /\ m = table[at].num THEN Absent ELSE names[m]
  BY <1>2, <1>3 DEF NamesLeft
<1>9. Said(names[n], claim.name) \in Names \cup {Absent}
  BY <1>2 DEF Said, Claim
<1>10. dirty' = (dirty \/ Fresh(n) \/ Changes(base.id, names[n], claim))
  BY <1>1, <1>5, <1>8
<1> HIDE DEF row
<1>11. /\ names' \in [Peers -> Names \cup {Absent}] /\ names'[n] = Said(names[n], claim.name)
       /\ \A m \in Peers \ {n} :
            names'[m] = IF Evicts(n) /\ m = table[at].num THEN Absent ELSE names[m]
  BY <1>1, <1>8, <1>9
<1>12. Sighted(n, claim, at, row)
  BY <1>3, <1>5, <1>6, <1>7, <1>10, <1>11 DEF Sighted, base
<1> QED BY <1>3, <1>6, <1>12

LEMMA ReceiveIInv ==
  ASSUME IInv, NEW n \in Peers, NEW claim \in Claim, Receive(n, claim)
  PROVE  IInv'
<1> USE NodeDBOK
<1>1. PICK at \in Rows, row \in Row : Sighted(n, claim, at, row)
  BY ReceiveIs
<1>3. /\ table \in [Rows -> Row] /\ names \in [Peers -> Names \cup {Absent}]
      /\ tick \in Nat /\ used \in Nat /\ strays \in Nat /\ n # Free
  BY DEF IInv, TypeOK
<1>2. /\ stage = "up" /\ stage' = "up" /\ saved' = saved /\ left' = left
      /\ saving' = saving /\ views' = views /\ got' = got
      /\ slipped' = (slipped \/ saving # "no")
      /\ tick' = tick + 1 /\ strays' = strays
      /\ used' = used + (IF Fresh(n) THEN 1 ELSE 0) - (IF Evicts(n) THEN 1 ELSE 0)
  BY <1>3 DEF Receive, stopping
<1> DEFINE base == IF Evicts(n) THEN EmptyRow ELSE table[at]
<1>4. /\ Has(table, n) => table[at].num = n
      /\ ~Has(table, n) /\ ~Full(table) => table[at].num = Free
      /\ Evicts(n) => table[at].num \in Peers \ {n}
      /\ \A i \in Rows : i # at => table[i].num # n
      /\ row.num = n /\ row.seen = tick + 1 /\ row.id = Said(base.id, claim.id)
      /\ table' = [table EXCEPT ![at] = row]
      /\ dirty' = (dirty \/ Fresh(n) \/ Changes(base.id, names[n], claim))
  BY <1>1 DEF Sighted
<1>5. /\ names' \in [Peers -> Names \cup {Absent}] /\ names'[n] = Said(names[n], claim.name)
      /\ \A m \in Peers \ {n} :
           names'[m] = IF Evicts(n) /\ m = table[at].num THEN Absent ELSE names[m]
  BY <1>1 DEF Sighted
<1> HIDE DEF base
<1>9. used' = used + (IF table[at].num = Free THEN 1 ELSE 0)
  <2>1. CASE Has(table, n)
    BY <2>1, <1>2, <1>3, <1>4 DEF Fresh, Evicts
  <2>2. CASE ~Has(table, n) /\ ~Full(table)
    BY <2>2, <1>2, <1>3, <1>4 DEF Fresh, Evicts
  <2>3. CASE Evicts(n)
    BY <2>3, <1>2, <1>3, <1>4 DEF Fresh, Evicts
  <2> QED BY <2>1, <2>2, <2>3 DEF Evicts
<1>10. /\ table' \in [Rows -> Row] /\ tick' \in Nat /\ used' \in Nat
       /\ OneRowEach' /\ TickAhead' /\ Counted'
       /\ Occupied(table') = Occupied(table) \cup {at}
  BY <1>2, <1>4, <1>9, WriteRow
<1>12. dirty' \in BOOLEAN /\ TypeOK'
  <2>1. dirty' \in BOOLEAN
    BY <1>4 DEF IInv, TypeOK, Fresh, Has, Changes
  <2>2. slipped' \in BOOLEAN
    BY <1>2 DEF IInv, TypeOK
  <2>3. stage' = "up" /\ tick' \in Nat /\ strays' = strays /\ used' \in Nat
    BY <1>2, <1>10
  <2> QED BY <2>1, <2>2, <2>3, <1>2, <1>5, <1>10 DEF IInv, TypeOK
<1>13. NamesHaveRows'
  <2> SUFFICES ASSUME NEW m \in Peers, names'[m] # Absent PROVE Has(table', m)
    BY DEF NamesHaveRows
  <2>1. CASE m = n
    BY <2>1, <1>3, <1>4 DEF Has, At
  <2>2. CASE m # n
    <3>1. names[m] # Absent /\ ~(Evicts(n) /\ m = table[at].num)
      BY <2>2, <1>5
    <3>2. PICK i \in Rows : table[i].num = m
      BY <3>1 DEF IInv, NamesHaveRows, Has, At
    <3>3. i # at
      BY <3>1, <3>2, <2>2, <1>3, <1>4 DEF Evicts
    <3>4. table'[i].num = m /\ m # Free
      BY <3>2, <3>3, <1>3, <1>4
    <3> QED BY <3>4 DEF Has, At
  <2> QED BY <2>1, <2>2
<1>14. FlashFits' /\ Settled'
  BY <1>2 DEF IInv, FlashFits, SavedOnce, SavedFits, Loading, Stopping, Settled
<1>15. CleanIsTrue'
  <2> SUFFICES ASSUME ~dirty', ~slipped, NEW f \in Facts(saved) PROVE f \in Facts(Records)'
    BY <1>2 DEF CleanIsTrue, Facts
  <2>1. ~dirty /\ Has(table, n) /\ ~Evicts(n) /\ base = table[at]
    BY <1>4 DEF Fresh, Evicts, base
  <2>2. row.id = table[at].id /\ names'[n] = names[n]
    BY <2>1, <1>4, <1>5 DEF Changes
  <2>4. f \in Facts(Records)
    BY <2>1, <1>2 DEF IInv, CleanIsTrue
  <2>5. PICK i \in Occupied(table) :
          f = [num |-> table[i].num, id |-> table[i].id, name |-> names[table[i].num]]
    BY <2>4, KnownFact
  <2>6. i \in Rows /\ i \in Occupied(table') /\ table[i].num \in Peers
    BY <1>3, <1>10 DEF Occupied, Row
  <2>7. table'[i].num = table[i].num /\ table'[i].id = table[i].id
    BY <2>1, <2>2, <2>6, <1>3, <1>4
  <2>8. names'[table[i].num] = names[table[i].num]
    BY <2>1, <2>2, <2>6, <1>5
  <2> QED BY <2>5, <2>6, <2>7, <2>8, KnownFactNext
<1> QED BY <1>10, <1>12, <1>13, <1>14, <1>15 DEF IInv

\* A packet from node 0 comes to the row it leaves free.
Passed(at) ==
  LET base == IF Full(table) THEN EmptyRow ELSE table[at] IN
  /\ IF Full(table) THEN at \in Oldest(table) /\ table[at].num \in Peers
                    ELSE at \in First(At(table, Free))
  /\ base \in Row /\ base.num = Free
  /\ table' = [table EXCEPT ![at] =
                 [num |-> Free, seen |-> tick + 1, count |-> Capped(base.count), id |-> base.id]]
  /\ names' = IF Full(table) THEN [names EXCEPT ![table[at].num] = Absent] ELSE names
  /\ dirty' = TRUE

LEMMA NobodyIs ==
  ASSUME IInv, NEW claim \in Claim, Receive(Free, claim)
  PROVE  \E at \in Rows : Passed(at)
<1> USE NodeDBOK
<1>1. ~Has(table, Free) /\ Fresh(Free) /\ (Evicts(Free) <=> Full(table))
  BY DEF Has, Fresh, Evicts
<1>2. PICK at \in Place(table, Free) :
        /\ table' = Heard(Free, at) /\ names' = NamesLeft(Free, at)
        /\ dirty' = (dirty \/ Fresh(Free))
  BY DEF Receive
<1>3. table \in [Rows -> Row]
  BY DEF IInv, TypeOK
<1>4. /\ at \in Rows
      /\ IF Full(table) THEN at \in Oldest(table) /\ table[at].num \in Peers
                        ELSE at \in First(At(table, Free)) /\ table[at].num = Free
  <2>1. CASE ~Full(table)
    BY <2>1, <1>1, <1>2 DEF Place, First, At
  <2>2. CASE Full(table)
    <3>1. at \in Oldest(table) /\ at \in Rows /\ table[at].num # Free
      BY <2>2, <1>1, <1>2 DEF Place, Oldest, Occupied
    <3> QED  BY <2>2, <3>1, <1>3 DEF Row
  <2> QED  BY <2>1, <2>2
<1> DEFINE base == IF Full(table) THEN EmptyRow ELSE table[at]
<1>5. base \in Row /\ base.num = Free
  BY <1>3, <1>4 DEF EmptyRow, Row
<1>6. table' = [table EXCEPT ![at] =
        [num |-> Free, seen |-> tick + 1, count |-> Capped(base.count), id |-> base.id]]
  <2>1. Heard(Free, at) = [table EXCEPT ![at] = Touched(base, Free, tick + 1)]
    BY <1>1 DEF Heard
  <2>2. (IF base.num = Free THEN Free ELSE base.num) = Free
    BY <1>5
  <2> HIDE DEF base
  <2> QED  BY <1>2, <2>1, <2>2 DEF Touched
<1>7. names' = IF Full(table) THEN [names EXCEPT ![table[at].num] = Absent] ELSE names
  BY <1>1, <1>2 DEF NamesLeft
<1>8. dirty' = TRUE
  BY <1>1, <1>2
<1> QED  BY <1>4, <1>5, <1>6, <1>7, <1>8 DEF Passed

LEMMA NobodyIInv ==
  ASSUME IInv, NEW claim \in Claim, Receive(Free, claim)
  PROVE  IInv'
<1> USE NodeDBOK
<1>1. PICK at \in Rows : Passed(at)
  BY NobodyIs
<1>2. /\ table \in [Rows -> Row] /\ names \in [Peers -> Names \cup {Absent}]
      /\ tick \in Nat /\ used \in Nat /\ strays \in Nat
  BY DEF IInv, TypeOK
<1>3. /\ stage = "up" /\ stage' = "up" /\ saved' = saved /\ left' = left
      /\ saving' = saving /\ views' = views /\ got' = got
      /\ slipped' = (slipped \/ saving # "no")
      /\ tick' = tick + 1 /\ strays' = strays + 1
      /\ used' = used + 1 - (IF Full(table) THEN 1 ELSE 0)
  BY <1>2 DEF Receive, stopping, Fresh, Evicts, Has
<1> DEFINE base == IF Full(table) THEN EmptyRow ELSE table[at]
           row  == [num |-> Free, seen |-> tick + 1, count |-> Capped(base.count), id |-> base.id]
<1>4. /\ IF Full(table) THEN at \in Oldest(table) /\ table[at].num \in Peers
                        ELSE at \in First(At(table, Free))
      /\ base \in Row /\ table' = [table EXCEPT ![at] = row]
      /\ names' = IF Full(table) THEN [names EXCEPT ![table[at].num] = Absent] ELSE names
      /\ dirty' = TRUE
  BY <1>1 DEF Passed
<1>5. row \in Row
  <2>1. Capped(base.count) \in 0..CountMax
    BY <1>4 DEF Capped, Row
  <2> QED  BY <1>2, <1>4, <2>1 DEF Row
<1>6. row.num = Free
  OBVIOUS
<1> HIDE DEF base, row
<1>7. \A i \in Rows : table'[i] = IF i = at THEN row ELSE table[i]
  BY <1>2, <1>4
<1>8. Occupied(table') = Occupied(table) \ {at}
  BY <1>6, <1>7 DEF Occupied
<1>9. TypeOK'
  <2>1. table' \in [Rows -> Row]
    BY <1>2, <1>4, <1>5
  <2>2. names' \in [Peers -> Names \cup {Absent}]
    BY <1>2, <1>4
  <2>3. used' \in Nat /\ strays' \in Nat /\ tick' \in Nat
    BY <1>2, <1>3
  <2>4. slipped' \in BOOLEAN /\ dirty' \in BOOLEAN
    BY <1>3, <1>4 DEF IInv, TypeOK
  <2> QED  BY <2>1, <2>2, <2>3, <2>4, <1>3 DEF IInv, TypeOK
<1>10. OneRowEach'
  BY <1>7, <1>8 DEF IInv, OneRowEach, Occupied
<1>11. TickAhead'
  <2> SUFFICES ASSUME NEW i \in Occupied(table')  PROVE table'[i].seen <= tick'
    BY DEF TickAhead
  <2>1. i \in Occupied(table) /\ i \in Rows /\ table'[i] = table[i]
    BY <1>7, <1>8 DEF Occupied
  <2>2. table[i].seen <= tick /\ table[i].seen \in Nat
    BY <2>1, <1>2 DEF IInv, TickAhead, Row
  <2> QED  BY <2>1, <2>2, <1>2, <1>3
<1>12. NamesHaveRows'
  <2> SUFFICES ASSUME NEW m \in Peers, names'[m] # Absent PROVE Has(table', m)
    BY DEF NamesHaveRows
  <2>1. names[m] # Absent /\ table[at].num # m
    <3>1. CASE Full(table)
      BY <3>1, <1>2, <1>4
    <3>2. CASE ~Full(table)
      BY <3>2, <1>4 DEF First, At
    <3> QED  BY <3>1, <3>2
  <2>2. PICK i \in Rows : table[i].num = m
    BY <2>1 DEF IInv, NamesHaveRows, Has, At
  <2>3. table'[i].num = m /\ m # Free
    BY <2>1, <2>2, <1>7
  <2> QED  BY <2>3 DEF Has, At
<1>13. Counted'
  <2>1. Cardinality(Occupied(table)) \in Nat /\ used = Cardinality(Occupied(table)) + strays
    BY FiniteOccupied DEF IInv, Counted
  <2>2. Cardinality(Occupied(table')) = Cardinality(Occupied(table)) - (IF Full(table) THEN 1 ELSE 0)
    <3>1. CASE Full(table)
      <4>1. at \in Occupied(table)
        BY <3>1, <1>4 DEF Oldest
      <4>2. Cardinality(Occupied(table) \ {at}) = Cardinality(Occupied(table)) - 1
        BY <4>1, FiniteOccupied, FS_RemoveElement
      <4> QED  BY <3>1, <4>2, <1>8
    <3>2. CASE ~Full(table)
      <4>1. Occupied(table') = Occupied(table)
        BY <3>2, <1>4, <1>8 DEF First, At, Occupied
      <4> QED  BY <3>2, <4>1, <2>1
    <3> QED  BY <3>1, <3>2
  <2> DEFINE c == Cardinality(Occupied(table))
             d == Cardinality(Occupied(table'))
             x == IF Full(table) THEN 1 ELSE 0
  <2>3. c \in Nat /\ x \in {0, 1} /\ used = c + strays /\ d = c - x
        /\ used' = used + 1 - x /\ strays' = strays + 1
    BY <1>3, <2>1, <2>2
  <2> HIDE DEF c, d, x
  <2>4. used' = d + strays'
    BY <1>2, <2>3
  <2> QED  BY <2>4 DEF Counted, d
<1>14. FlashFits' /\ Settled'
  BY <1>3 DEF IInv, FlashFits, SavedOnce, SavedFits, Loading, Stopping, Settled
<1>15. CleanIsTrue'
  BY <1>4 DEF CleanIsTrue
<1> QED BY <1>9, <1>10, <1>11, <1>12, <1>13, <1>14, <1>15 DEF IInv

-----------------------------------------------------------------------------
\* A record put back comes to one row, or to nothing.
PutBack(r, at) ==
  LET row == [num |-> r.num, seen |-> tick + 1, count |-> r.count, id |-> r.id] IN
  /\ at \in First(At(table, Free))
  /\ r.num \in Peers /\ row \in Row /\ ~Has(table, r.num)
  /\ table' = [table EXCEPT ![at] = row]
  /\ tick' = tick + 1 /\ used' = used + 1
  /\ names' \in [Peers -> Names \cup {Absent}] /\ names'[r.num] = r.name
  /\ \A m \in Peers \ {r.num} : names'[m] = names[m]

LEMMA RestoreIs ==
  ASSUME IInv, NEW r \in left, Restore(r)
  PROVE  \/ /\ UNCHANGED <<table, names, used, tick>>
            /\ r.num = Free \/ Has(table, r.num) \/ Full(table)
         \/ \E at \in Rows : PutBack(r, at)
<1> USE NodeDBOK
<1>1. /\ table \in [Rows -> Row] /\ names \in [Peers -> Names \cup {Absent}]
      /\ tick \in Nat /\ r \in Record
  BY DEF IInv, TypeOK
<1>2. CASE r.num = Free \/ Has(table, r.num) \/ Full(table)
  BY <1>2 DEF Restore
<1>3. CASE ~(r.num = Free \/ Has(table, r.num) \/ Full(table))
  <2> DEFINE row == [num |-> r.num, seen |-> tick + 1, count |-> r.count, id |-> r.id]
  <2>1. PICK at \in First(At(table, Free)) : table' = [table EXCEPT ![at] = row]
    BY <1>3 DEF Restore
  <2>2. r.num \in Peers /\ row \in Row
    BY <1>1, <1>3 DEF Record, Row
  <2>3. names[r.num] = Absent
    BY <1>3, <2>2 DEF IInv, NamesHaveRows
  <2>4. Said(names[r.num], r.name) = r.name /\ r.name \in Names \cup {Absent}
    BY <1>1, <2>3 DEF Said, Record
  <2>5. /\ names' = [names EXCEPT ![r.num] = Said(@, r.name)]
        /\ tick' = tick + 1 /\ used' = used + 1
    BY <1>3 DEF Restore
  <2>6. /\ names' \in [Peers -> Names \cup {Absent}] /\ names'[r.num] = r.name
        /\ \A m \in Peers \ {r.num} : names'[m] = names[m]
    BY <1>1, <2>2, <2>4, <2>5
  <2>7. at \in Rows
    BY <2>1 DEF First, At
  <2> HIDE DEF row
  <2>8. PutBack(r, at)
    BY <1>3, <2>1, <2>2, <2>5, <2>6 DEF PutBack, row
  <2> QED  BY <2>7, <2>8
<1> QED  BY <1>2, <1>3

\* Over a flash that no packet slipped out of, every record finds its row.
LEMMA RestoreFits ==
  ASSUME IInv, NEW r \in left, Restore(r), ~slipped
  PROVE  /\ r.num \in Peers /\ ~Has(table, r.num) /\ ~Full(table)
         /\ Cardinality(left \ {r}) \in Nat
         /\ used + 1 + Cardinality(left \ {r}) <= Limit
<1> USE NodeDBOK
<1>1. /\ used \in Nat /\ stage = "loading" /\ left \subseteq saved
      /\ SavedOnce /\ SavedFits /\ Loading
  BY DEF IInv, TypeOK, FlashFits, Restore
<1>2. r.num \in Peers /\ ~Has(table, r.num) /\ strays = 0 /\ used + Cardinality(left) <= Limit
  BY <1>1 DEF SavedOnce, Loading
<1>3. IsFiniteSet(left)
  BY <1>1, FS_Subset DEF SavedFits
<1>4. IsFiniteSet(left \ {r}) /\ Cardinality(left \ {r}) = Cardinality(left) - 1
  BY <1>3, FS_RemoveElement
<1>5. Cardinality(left) \in Nat /\ Cardinality(left \ {r}) \in Nat
  BY <1>3, <1>4, FS_CardinalityType
<1>6. used + 1 + Cardinality(left \ {r}) <= Limit
  BY <1>1, <1>2, <1>4, <1>5
<1>7. Cardinality(Occupied(table)) \in Nat /\ used = Cardinality(Occupied(table))
  BY <1>2, FiniteOccupied DEF IInv, Counted
<1>8. Cardinality(Occupied(table)) < Limit
  BY <1>1, <1>5, <1>6, <1>7
<1> QED  BY <1>2, <1>5, <1>6, <1>8, RoomLeft

\* What one record that is put back leaves of the loading.
LEMMA RestoreLoading ==
  ASSUME IInv, NEW r \in left, Restore(r), ~slipped, NEW at \in Rows, PutBack(r, at),
         Occupied(table') = Occupied(table) \cup {at}
  PROVE  Loading'
<1> USE NodeDBOK
<1>1. /\ table \in [Rows -> Row] /\ used \in Nat /\ saved \subseteq Record
      /\ left \subseteq saved /\ left' = left \ {r} /\ saved' = saved /\ stage' = stage
      /\ stage = "loading" /\ strays' = strays /\ SavedOnce /\ Loading
  BY DEF IInv, TypeOK, FlashFits, Restore
<1> DEFINE row == [num |-> r.num, seen |-> tick + 1, count |-> r.count, id |-> r.id]
<1>2. /\ table[at].num = Free /\ table' = [table EXCEPT ![at] = row]
      /\ r.num \in Peers /\ used' = used + 1 /\ names'[r.num] = r.name
      /\ \A m \in Peers \ {r.num} : names'[m] = names[m]
  BY DEF PutBack, First, At
<1>3. row.num = r.num /\ row.id = r.id
  OBVIOUS
<1> HIDE DEF row
<1>4. \A i \in Rows : table[i].num # r.num
  BY <1>2 DEF PutBack, Has, At
<1>5. ASSUME NEW q \in left' PROVE ~Has(table', q.num)
  <2>1. q \in left /\ q # r /\ q \in saved /\ r \in saved
    BY <1>1, <1>5
  <2>2. q.num # r.num /\ ~Has(table, q.num)
    BY <2>1, <1>1 DEF SavedOnce, Loading
  <2>3. \A i \in Rows : table'[i].num = IF i = at THEN r.num ELSE table[i].num
    BY <1>1, <1>2, <1>3
  <2> QED BY <2>2, <2>3 DEF Has, At
<1>6. used' + Cardinality(left') <= Limit
  BY <1>1, <1>2, RestoreFits
<1>7. ASSUME NEW f \in Facts(saved) PROVE f \in Facts(left)' \cup Facts(Records)'
  <2>1. CASE f \in Facts(left)
    <3>1. PICK q \in left : f = Fact(q)
      BY <2>1 DEF Facts
    <3>2. CASE q # r
      BY <3>1, <3>2, <1>1 DEF Facts
    <3>3. CASE q = r
      <4>1. at \in Occupied(table') /\ table'[at] = row
        BY <1>1, <1>2
      <4>2. f = [num |-> table'[at].num, id |-> table'[at].id,
                 name |-> names'[table'[at].num]]
        BY <4>1, <3>1, <3>3, <1>2, <1>3 DEF Fact
      <4> QED BY <4>1, <4>2, KnownFactNext
    <3> QED BY <3>2, <3>3
  <2>2. CASE f \in Facts(Records)
    <3>1. PICK i \in Occupied(table) :
            f = [num |-> table[i].num, id |-> table[i].id, name |-> names[table[i].num]]
      BY <2>2, KnownFact
    <3>2. i \in Occupied(table') /\ i # at /\ i \in Rows
      BY <1>2 DEF Occupied
    <3>3. table[i].num \in Peers \ {r.num}
      BY <3>2, <1>1, <1>4 DEF Occupied, Row
    <3>4. table'[i] = table[i] /\ names'[table[i].num] = names[table[i].num]
      BY <3>2, <3>3, <1>1, <1>2
    <3> QED BY <3>1, <3>2, <3>4, KnownFactNext
  <2> QED BY <2>1, <2>2, <1>1 DEF Loading
<1>8. Facts(saved)' = Facts(saved)
  BY <1>1 DEF Facts
<1>9. strays' = 0
  BY <1>1 DEF Loading
<1> QED BY <1>5, <1>6, <1>7, <1>8, <1>9 DEF Loading

LEMMA RestoreIInv ==
  ASSUME IInv, NEW r \in left, Restore(r)
  PROVE  IInv'
<1> USE NodeDBOK
<1>1. /\ table \in [Rows -> Row] /\ names \in [Peers -> Names \cup {Absent}]
      /\ tick \in Nat /\ used \in Nat /\ left \subseteq saved /\ r \in Record
  BY DEF IInv, TypeOK
<1>2. /\ left' = left \ {r} /\ saved' = saved /\ stage' = stage /\ stage = "loading"
      /\ dirty' = dirty /\ strays' = strays /\ slipped' = slipped
      /\ saving' = saving /\ views' = views /\ got' = got
  BY DEF Restore, stopping
<1>3. Settled' /\ CleanIsTrue' /\ saving # "reading" /\ saving # "wrote"
  BY <1>2 DEF IInv, Settled, CleanIsTrue
<1>4. CASE UNCHANGED <<table, names, used, tick>> /\ (r.num = Free \/ Has(table, r.num) \/ Full(table))
  <2>1. OneRowEach' /\ TickAhead' /\ NamesHaveRows' /\ Counted'
    BY <1>2, <1>4, SameRoster DEF book
  <2>2. slipped
    BY <1>4, RestoreFits, NodeDBOK
  <2>3. TypeOK'
    BY <1>1, <1>2, <1>4 DEF IInv, TypeOK
  <2> QED  BY <2>1, <2>2, <2>3, <1>2, <1>3 DEF IInv, FlashFits
<1>5. ASSUME NEW at \in Rows, PutBack(r, at)  PROVE IInv'
  <2> DEFINE row == [num |-> r.num, seen |-> tick + 1, count |-> r.count, id |-> r.id]
  <2>1. /\ at \in First(At(table, Free)) /\ r.num \in Peers /\ row \in Row /\ ~Has(table, r.num)
        /\ table' = [table EXCEPT ![at] = row]
        /\ tick' = tick + 1 /\ used' = used + 1
        /\ names' \in [Peers -> Names \cup {Absent}] /\ names'[r.num] = r.name
        /\ \A m \in Peers \ {r.num} : names'[m] = names[m]
    BY <1>5 DEF PutBack
  <2>2. row.num = r.num /\ row.seen = tick + 1
    OBVIOUS
  <2> HIDE DEF row
  <2>3. table[at].num = Free /\ \A i \in Rows : table[i].num # r.num
    BY <2>1 DEF First, At, Has
  <2>4. used' = used + (IF table[at].num = Free THEN 1 ELSE 0)
    BY <2>1, <2>3
  <2>5. /\ table' \in [Rows -> Row] /\ tick' \in Nat /\ used' \in Nat
        /\ OneRowEach' /\ TickAhead' /\ Counted'
        /\ Occupied(table') = Occupied(table) \cup {at}
    <3>1. PICK n \in Peers : n = r.num
      BY <2>1
    <3>2. row.num = n /\ \A i \in Rows : i # at => table[i].num # n
      BY <2>2, <2>3, <3>1
    <3>3. row \in Row /\ table' = [table EXCEPT ![at] = row] /\ tick' = tick + 1 /\ strays' = strays
      BY <1>2, <2>1
    <3> QED  BY <2>2, <2>4, <3>2, <3>3, WriteRow
  <2>6. TypeOK'
    BY <1>1, <1>2, <2>1, <2>5 DEF IInv, TypeOK
  <2>7. NamesHaveRows'
    <3> SUFFICES ASSUME NEW m \in Peers, names'[m] # Absent PROVE Has(table', m)
      BY DEF NamesHaveRows
    <3>1. CASE m = r.num
      BY <3>1, <1>1, <2>1, <2>2 DEF Has, At
    <3>2. CASE m # r.num
      <4>1. PICK i \in Rows : table[i].num = m
        BY <3>2, <2>1 DEF IInv, NamesHaveRows, Has, At
      <4>2. table'[i].num = m /\ m # Free
        BY <4>1, <1>1, <2>1, <2>3
      <4> QED BY <4>2 DEF Has, At
    <3> QED BY <3>1, <3>2
  <2>8. FlashFits'
    <3> SUFFICES ASSUME ~slipped  PROVE SavedOnce' /\ SavedFits' /\ Loading' /\ Stopping'
      BY <1>2 DEF FlashFits
    <3>1. SavedOnce' /\ SavedFits' /\ Stopping'
      BY <1>2, <1>3 DEF IInv, FlashFits, SavedOnce, SavedFits, Stopping
    <3>2. Loading'
      BY <1>5, <2>5, RestoreLoading
    <3> QED  BY <3>1, <3>2
  <2> QED  BY <1>3, <2>5, <2>6, <2>7, <2>8 DEF IInv
<1> QED BY <1>4, <1>5, RestoreIs

-----------------------------------------------------------------------------
LEMMA StutterIInv == ASSUME IInv, UNCHANGED vars PROVE IInv'
<1>1. /\ UNCHANGED <<table, names, used, tick, strays, dirty, saved, left, stage, saving, views,
                     got, slipped>>
      /\ UNCHANGED book
  BY DEF vars, book, stopping
<1>2. TypeOK' /\ Settled' /\ SavedOnce' = SavedOnce /\ SavedFits' = SavedFits
  BY <1>1 DEF IInv, TypeOK, SavedOnce, SavedFits, Settled
<1>3. Facts(saved)' = Facts(saved) /\ Facts(left)' = Facts(left)
  BY <1>1 DEF Facts
<1>4. Facts(Records)' = Facts(Records) /\ Fitting(Records)' = Fitting(Records)
  BY <1>1, SameRecords
<1>5. Loading' = Loading /\ CleanIsTrue'
  BY <1>1, <1>3, <1>4 DEF IInv, Loading, CleanIsTrue, Has, At
<1>6. Stopping' = Stopping
  <2>1. HalfWay' = HalfWay
    BY <1>1 DEF HalfWay, ViewOf, RecordOf, ReadAs, Occupied, Weight, Size
  <2> QED  BY <1>1, <1>4, <2>1 DEF Stopping
<1> QED BY <1>1, <1>2, <1>5, <1>6, SameRoster DEF IInv, FlashFits

LEMMA Inductive == Spec => []IInv
<1>1. IInv /\ [Next]_vars => IInv'
  <2> SUFFICES ASSUME IInv, [Next]_vars PROVE IInv'
    OBVIOUS
  <2>1. ASSUME NEW n \in Senders, NEW claim \in Claim, Receive(n, claim) PROVE IInv'
    BY <2>1, ReceiveIInv, NobodyIInv, NodeDBOK
  <2>2. ASSUME NEW r \in left, Restore(r) PROVE IInv'
    BY <2>2, RestoreIInv
  <2> QED BY <2>1, <2>2, ForgetAllIInv, FactoryResetIInv, SaveIInv, RestartIInv,
             LoadedIInv, StopLookIInv, ReadPeerIInv, StopWriteIInv, StopDoneIInv,
             StopFailsIInv, StutterIInv
          DEF Next
<1> QED BY InitIInv, <1>1, PTL DEF Spec

(* The table, the names, the counters and the saved copy keep their types,  *)
(* packets from node 0 and a save that packets slip into among the rest.    *)
THEOREM NodeDBTypeCorrect == Spec => []TypeOK
<1>1. IInv => TypeOK
  BY DEF IInv
<1> QED BY Inductive, <1>1, PTL

(* No node ever has two rows and no two rows tie in age, over sightings,    *)
(* evictions, forgetting and restarts: the eviction's choice is unique.     *)
(* The name dictionaries never outgrow the table, and len() is the number   *)
(* of occupied rows and of the packets from node 0, which have none.        *)
THEOREM RowsAreSound == Spec => []RowsSound
<1>1. IInv => RowsSound
  BY DEF IInv, RowsSound
<1> QED BY Inductive, <1>1, PTL

(* A clean database has nothing false in flash: eviction, a changed name,   *)
(* a forgotten roster, a save of stop() that no packet is filed during, and *)
(* a restart in the middle of all that raise `dirty` or leave the saved     *)
(* copy true.                                                               *)
THEOREM CleanFlashIsTrue == Spec => []CleanIsTrue
<1>1. IInv => CleanIsTrue
  BY DEF IInv
<1> QED BY Inductive, <1>1, PTL

-----------------------------------------------------------------------------
(* What the flash owes the roster.                                         *)

\* Different nodes have different facts: as many of the one as of the other.
LEMMA FactsCount ==
  ASSUME NEW S, IsFiniteSet(S), \A p, q \in S : p.num = q.num => p = q
  PROVE  IsFiniteSet(Facts(S)) /\ Cardinality(Facts(S)) = Cardinality(S)
<1> DEFINE f == [r \in S |-> Fact(r)]
<1>1. f \in Surjection(S, Facts(S))
  BY DEF Surjection, Facts
<1>2. f \in Injection(S, Facts(S))
  BY <1>1 DEF Surjection, Injection, IsInjective, Fact
<1> HIDE DEF f
<1> QED  BY <1>1, <1>2, FS_Surjection

\* What is true of the nodes says what their records take.
LEMMA FactsWeigh ==
  ASSUME NEW S, IsFiniteSet(S), \A p, q \in S : p.num = q.num => p = q
  PROVE  Weight(S) = Cardinality(Facts(S)) + Cardinality({f \in Facts(S) : f.name # Absent})
<1>1. Cardinality(Facts(S)) = Cardinality(S)
  BY FactsCount
<1>2. Facts(Named(S)) = {f \in Facts(S) : f.name # Absent}
  BY DEF Facts, Fact, Named
<1>3. Cardinality(Facts(Named(S))) = Cardinality(Named(S))
  <2>1. IsFiniteSet(Named(S)) /\ \A p, q \in Named(S) : p.num = q.num => p = q
    BY FS_Subset DEF Named
  <2> QED  BY <2>1, FactsCount
<1> QED  BY <1>1, <1>2, <1>3, WeighIs

\* A sighting that leaves the saved copy as good as it was changes no fact.
LEMMA NothingNew ==
  ASSUME IInv, NEW n \in Peers, NEW claim \in Claim, Receive(n, claim), ~dirty'
  PROVE  Facts(Records)' = Facts(Records)
<1> USE NodeDBOK
<1>1. PICK at \in Rows, row \in Row : Sighted(n, claim, at, row)
  BY ReceiveIs
<1>2. table \in [Rows -> Row] /\ names \in [Peers -> Names \cup {Absent}]
  BY DEF IInv, TypeOK
<1> DEFINE base == IF Evicts(n) THEN EmptyRow ELSE table[at]
<1>3. /\ Has(table, n) => table[at].num = n
      /\ row.num = n /\ row.id = Said(base.id, claim.id)
      /\ table' = [table EXCEPT ![at] = row]
      /\ dirty' = (dirty \/ Fresh(n) \/ Changes(base.id, names[n], claim))
  BY <1>1 DEF Sighted
<1>4. /\ names' \in [Peers -> Names \cup {Absent}] /\ names'[n] = Said(names[n], claim.name)
      /\ \A m \in Peers \ {n} :
           names'[m] = IF Evicts(n) /\ m = table[at].num THEN Absent ELSE names[m]
  BY <1>1 DEF Sighted
<1>5. Has(table, n) /\ ~Evicts(n) /\ base = table[at]
  BY <1>3 DEF Fresh, Evicts
<1> HIDE DEF base
<1>6. row.id = table[at].id /\ names'[n] = names[n]
  BY <1>3, <1>4, <1>5 DEF Changes
<1>7. \A m \in Peers : names'[m] = names[m]
  BY <1>4, <1>5, <1>6
<1>8. names' = names
  <2>1. names' = [m \in Peers |-> names'[m]] /\ names = [m \in Peers |-> names[m]]
    BY <1>2, <1>4
  <2> QED  BY <1>7, <2>1
<1>9. \A i \in Rows : table'[i].num = table[i].num /\ table'[i].id = table[i].id
  BY <1>2, <1>3, <1>5, <1>6
<1>10. Occupied(table') = Occupied(table)
  BY <1>9 DEF Occupied
<1>11. \A f : f \in Facts(Records)' <=> f \in Facts(Records)
  <2>1. Occupied(table) \in SUBSET Rows
    BY FiniteOccupied
  <2> QED  BY <1>8, <1>9, <1>10, <2>1, KnownFact, KnownFactNext
<1>12. Facts(Records)' = Facts(Records)
  <2> DEFINE X == Facts(Records)
  <2>1. \A f : f \in X' <=> f \in X
    BY <1>11
  <2> HIDE DEF X
  <2>2. X' = X
    BY <2>1
  <2> QED  BY <2>2 DEF X
<1> QED  BY <1>12

\* While nothing is owed to flash, what fits is there; and while loading, what
\* has come back came from there.
Whole ==
  /\ stage = "loading" /\ ~slipped => Facts(Records) \subseteq Facts(saved)
  /\ CleanIsWhole

LEMMA ReceiveWhole ==
  ASSUME IInv, IInv', Whole, NEW n \in Peers, NEW claim \in Claim, Receive(n, claim)
  PROVE  Whole'
<1>1. /\ stage = "up" /\ stage' = "up" /\ saved' = saved
      /\ (dirty => dirty') /\ (slipped => slipped')
  BY DEF Receive, IInv, TypeOK
<1>2. SUFFICES ASSUME ~dirty', ~slipped', (Fitting(Records) = Records)'
               PROVE  Facts(Records)' \subseteq Facts(saved)'
  BY <1>1 DEF Whole, CleanIsWhole
<1>3. Facts(Records)' = Facts(Records) /\ Facts(saved)' = Facts(saved) /\ ~dirty
  BY <1>1, <1>2, NothingNew DEF Facts
<1> DEFINE S == RecordsOf(table, names)
           T == RecordsOf(table', names')
<1>4. Records = S /\ Records' = T
  BY DEF Records, RecordOf, ReadAs, ViewOf, RecordsOf, RecOf
<1>5. /\ table \in [Rows -> Row] /\ table' \in [Rows -> Row]
      /\ \A i, j \in Occupied(table) : i # j => table[i].num # table[j].num
      /\ \A i, j \in Occupied(table') : i # j => table'[i].num # table'[j].num
  BY DEF IInv, TypeOK, OneRowEach
<1>6. /\ IsFiniteSet(S) /\ \A r \in S : r.seen \in Nat
      /\ \A p, q \in S : p.num = q.num => p = q
  BY <1>5, RecordsAre
<1>7. /\ IsFiniteSet(T) /\ \A r \in T : r.seen \in Nat
      /\ \A p, q \in T : p.num = q.num => p = q
  BY <1>5, RecordsAre
<1>8. Facts(T) = Facts(S) /\ Fitting(T) = T
  <2>1. Facts(Records)' = Facts(Records') /\ Fitting(Records)' = Fitting(Records')
    BY DEF Facts, Fact, Fitting, Newer, Weight, Size
  <2> QED  BY <1>2, <1>3, <1>4, <2>1
<1> HIDE DEF S, T
<1>9. Weight(S) = Weight(T)
  BY <1>6, <1>7, <1>8, FactsWeigh
<1>10. Weight(T) <= Room
  BY <1>7, <1>8, AllFit
<1>11. Fitting(S) = S
  BY <1>6, <1>9, <1>10, AllFit
<1> QED  BY <1>1, <1>2, <1>3, <1>4, <1>11 DEF Whole, CleanIsWhole

\* One record more comes back: what it says is in flash.
LEMMA RestoreWhole ==
  ASSUME IInv, Whole, NEW r \in left, Restore(r)
  PROVE  Whole'
<1> USE NodeDBOK
<1>1. /\ stage = "loading" /\ stage' = "loading" /\ saved' = saved /\ r \in saved
      /\ slipped' = slipped
      /\ table \in [Rows -> Row] /\ names \in [Peers -> Names \cup {Absent}]
  BY DEF Restore, IInv, TypeOK
<1>2. SUFFICES ASSUME ~slipped, NEW f, f \in Facts(Records)'  PROVE f \in Facts(saved)
  BY <1>1 DEF Whole, CleanIsWhole, Facts
<1>3. Facts(Records) \subseteq Facts(saved) /\ Fact(r) \in Facts(saved)
  BY <1>1, <1>2 DEF Whole, Facts
<1>4. PICK at \in Rows : PutBack(r, at)
  BY <1>2, RestoreIs, RestoreFits
<1> DEFINE row == [num |-> r.num, seen |-> tick + 1, count |-> r.count, id |-> r.id]
<1>5. /\ table' = [table EXCEPT ![at] = row] /\ ~Has(table, r.num) /\ r.num \in Peers
      /\ names'[r.num] = r.name /\ \A m \in Peers \ {r.num} : names'[m] = names[m]
  BY <1>4 DEF PutBack
<1>6. row.num = r.num /\ row.id = r.id
  OBVIOUS
<1> HIDE DEF row
<1>7. PICK i \in Occupied(table') :
        f = [num |-> table'[i].num, id |-> table'[i].id, name |-> names'[table'[i].num]]
  BY <1>2, KnownFactNext
<1>8. CASE i = at
  <2>1. table'[at] = row
    BY <1>1, <1>5
  <2>2. f = Fact(r)
    BY <1>5, <1>6, <1>7, <1>8, <2>1 DEF Fact
  <2> QED  BY <1>3, <2>2
<1>9. CASE i # at
  <2>1. i \in Rows /\ table'[i] = table[i] /\ table'[i].num # Free
    BY <1>1, <1>5, <1>7, <1>9 DEF Occupied
  <2>2. table[i].num \in Peers /\ table[i].num # r.num
    BY <1>1, <1>5, <2>1 DEF Row, Has, At
  <2>3. i \in Occupied(table)
    BY <2>1 DEF Occupied
  <2>4. f = [num |-> table[i].num, id |-> table[i].id, name |-> names[table[i].num]]
    BY <1>5, <1>7, <2>1, <2>2
  <2>5. f \in Facts(Records)
    BY <2>3, <2>4, KnownFact
  <2> QED  BY <1>3, <2>5
<1> QED  BY <1>8, <1>9

\* What has been saved of the roster as it is.
LEMMA SavedWhole ==
  ASSUME stage' = "up", UNCHANGED <<table, names>>, ~slipped' => saved' = Fitting(Records)
  PROVE  Whole'
<1> SUFFICES ASSUME ~slipped', (Fitting(Records) = Records)'
             PROVE  Facts(Records)' \subseteq Facts(saved)'
  BY DEF Whole, CleanIsWhole
<1>1. saved' = Records /\ Facts(Records)' = Facts(Records)
  BY SameRecords
<1> QED  BY <1>1 DEF Facts

\* A step that leaves the roster and the saved copy alone.
LEMMA SameWhole ==
  ASSUME Whole, UNCHANGED <<table, names, dirty, saved, stage, slipped>>
  PROVE  Whole'
<1>1. /\ Facts(Records)' = Facts(Records) /\ Facts(saved)' = Facts(saved)
      /\ Records' = Records /\ Fitting(Records)' = Fitting(Records)
  BY SameRecords DEF Facts
<1> QED  BY <1>1 DEF Whole, CleanIsWhole

(* Nor is anything missing: whenever nothing is owed to flash and all of    *)
(* the roster would fit, all of it is there, unless a packet slipped into    *)
(* the save of stop(); sightings may age the rows, and nothing else, without *)
(* a save (nodedb.py:200, meshcache.py:97).                                 *)
THEOREM CleanFlashIsWhole == Spec => []CleanIsWhole
<1> USE NodeDBOK
<1>1. Init => Whole
  <2> SUFFICES ASSUME Init  PROVE Whole
    OBVIOUS
  <2>1. Records = {} /\ stage = "loading"
    BY Emptied DEF Init, Records
  <2> QED  BY <2>1 DEF Whole, CleanIsWhole, Facts
<1>2. IInv /\ IInv' /\ Whole /\ [Next]_vars => Whole'
  <2> SUFFICES ASSUME IInv, IInv', Whole, [Next]_vars PROVE Whole'
    OBVIOUS
  <2>1. ASSUME NEW n \in Senders, NEW claim \in Claim, Receive(n, claim) PROVE Whole'
    <3>1. CASE n \in Peers
      BY <2>1, <3>1, ReceiveWhole
    <3>2. CASE n = Free
      <4>1. stage' = "up"
        BY <2>1 DEF Receive
      <4>2. dirty' = TRUE
        <5>1. \E at \in Rows : Passed(at)
          BY <2>1, <3>2, NobodyIs
        <5> QED  BY <5>1 DEF Passed
      <4> QED  BY <4>1, <4>2 DEF Whole, CleanIsWhole
    <3> QED  BY <3>1, <3>2
  <2>2. ASSUME NEW r \in left, Restore(r) PROVE Whole'
    BY <2>2, RestoreWhole
  <2>3. CASE ForgetAll
    BY <2>3 DEF ForgetAll, Whole, CleanIsWhole
  <2>4. CASE FactoryReset
    <3>1. Records' = {} /\ stage' = "up"
      BY <2>4, Emptied DEF FactoryReset, Records
    <3> QED  BY <3>1 DEF Whole, CleanIsWhole, Facts
  <2>5. CASE Restart
    <3>1. Records' = {} /\ stage' = "loading"
      BY <2>5, Emptied DEF Restart, Records
    <3> QED  BY <3>1 DEF Whole, CleanIsWhole, Facts
  <2>6. CASE Save
    <3>1. stage' = "up" /\ saved' = Fitting(Records) /\ UNCHANGED <<table, names>>
      BY <2>6 DEF Save, book
    <3> QED  BY <3>1, SavedWhole
  <2>7. CASE Loaded
    <3>1. Facts(Records)' = Facts(Records) /\ Facts(saved)' = Facts(saved)
      BY <2>7, SameRecords DEF Loaded, book, Facts
    <3> QED  BY <2>7, <3>1 DEF Loaded, Whole, CleanIsWhole
  <2>8. CASE StopLook \/ ReadPeer \/ StopFails \/ UNCHANGED vars
    <3>1. UNCHANGED <<table, names, dirty, saved, stage, slipped>>
      BY <2>8 DEF StopLook, ReadPeer, StopFails, vars, book
    <3> QED  BY <3>1, SameWhole
  <2>9. CASE StopWrite
    <3>1. stage' = "up" /\ slipped' = slipped /\ UNCHANGED <<table, names>>
      BY <2>9 DEF StopWrite, IInv, Settled, book
    <3> QED  BY <2>9, <3>1, WritesWhatFits, SavedWhole
  <2>10. CASE StopDone
    <3>1. stage' = "up" /\ slipped' = slipped /\ UNCHANGED <<table, names>> /\ saved' = saved
      BY <2>10 DEF StopDone, IInv, Settled, book
    <3>2. ~slipped' => saved' = Fitting(Records)
      BY <2>10, <3>1 DEF StopDone, IInv, FlashFits, Stopping
    <3> QED  BY <3>1, <3>2, SavedWhole
  <2> QED  BY <2>1, <2>2, <2>3, <2>4, <2>5, <2>6, <2>7, <2>8, <2>9, <2>10 DEF Next
<1>3. Whole => CleanIsWhole
  BY DEF Whole
<1> QED  BY Inductive, <1>1, <1>2, <1>3, PTL DEF Spec

-----------------------------------------------------------------------------
(* The order of the records.                                               *)

\* Records of which no two are of an age.
Aged(S) ==
  /\ IsFiniteSet(S) /\ \A r \in S : r.seen \in Nat
  /\ \A p, q \in S : p.seen = q.seen => p = q

\* e is all of S, by age.
InLine(e, S) ==
  /\ e \in [1..Cardinality(S) -> S]
  /\ \A r \in S : \E i \in 1..Cardinality(S) : e[i] = r
  /\ \A i, j \in 1..Cardinality(S) : i < j => e[i].seen < e[j].seen

\* The younger of two has more before it.
LEMMA RankIs ==
  ASSUME NEW S, Aged(S)
  PROVE  /\ Cardinality(S) \in Nat
         /\ \A r \in S : Cardinality(Older(S, r)) \in 0..(Cardinality(S) - 1)
         /\ \A p, q \in S : p.seen < q.seen => Cardinality(Older(S, p)) < Cardinality(Older(S, q))
         /\ \A p, q \in S : Cardinality(Older(S, p)) = Cardinality(Older(S, q)) => p = q
<1>1. /\ IsFiniteSet(S) /\ Cardinality(S) \in Nat /\ \A r \in S : r.seen \in Nat
      /\ \A p, q \in S : p.seen = q.seen => p = q
  BY FS_CardinalityType DEF Aged
<1>2. \A r \in S : IsFiniteSet(Older(S, r)) /\ Cardinality(Older(S, r)) \in Nat
  BY <1>1, FS_Subset, FS_CardinalityType DEF Older
<1>3. ASSUME NEW r \in S  PROVE Cardinality(Older(S, r)) \in 0..(Cardinality(S) - 1)
  <2>1. Older(S, r) \in SUBSET (S \ {r})
    BY <1>1 DEF Older
  <2>2. IsFiniteSet(S \ {r}) /\ Cardinality(S \ {r}) = Cardinality(S) - 1
    BY <1>1, FS_RemoveElement
  <2>3. Cardinality(Older(S, r)) <= Cardinality(S) - 1
    BY <2>1, <2>2, FS_Subset
  <2> QED  BY <1>1, <1>2, <2>3
<1>4. ASSUME NEW p \in S, NEW q \in S, p.seen < q.seen
      PROVE  Cardinality(Older(S, p)) < Cardinality(Older(S, q))
  <2>1. p \in Older(S, q) /\ Older(S, p) \in SUBSET (Older(S, q) \ {p})
    BY <1>1, <1>4 DEF Older
  <2>2. IsFiniteSet(Older(S, q) \ {p}) /\ Cardinality(Older(S, q) \ {p}) = Cardinality(Older(S, q)) - 1
    BY <1>2, <2>1, FS_RemoveElement
  <2>3. Cardinality(Older(S, p)) <= Cardinality(Older(S, q)) - 1
    BY <2>1, <2>2, FS_Subset
  <2> QED  BY <1>2, <2>3
<1>5. ASSUME NEW p \in S, NEW q \in S, Cardinality(Older(S, p)) = Cardinality(Older(S, q))
      PROVE  p = q
  <2>1. ~(p.seen < q.seen) /\ ~(q.seen < p.seen)
    BY <1>2, <1>4, <1>5
  <2> QED  BY <1>1, <2>1
<1> QED  BY <1>1, <1>3, <1>4, <1>5

\* There is a line, and InOrder is it.
LEMMA LinedUp ==
  ASSUME NEW S, Aged(S)
  PROVE  InLine(InOrder(S), S)
<1> DEFINE n == Cardinality(S)
           f == [r \in S |-> Cardinality(Older(S, r))]
           N == 0..(n - 1)
           e == InOrder(S)
<1>1. n \in Nat /\ IsFiniteSet(S) /\ \A r \in S : r.seen \in Nat
  BY RankIs DEF Aged
<1>2. /\ f \in [S -> N] /\ \A p, q \in S : f[p] = f[q] => p = q
      /\ \A p, q \in S : p.seen < q.seen => f[p] < f[q]
  BY RankIs
<1>3. IsFiniteSet(N) /\ Cardinality(N) = n
  <2> DEFINE z == n - 1
  <2>1. z \in Int /\ 0 \in Int /\ (IF 0 > z THEN 0 ELSE z - 0 + 1) = n
    <3> HIDE DEF n
    <3> QED  BY <1>1
  <2> HIDE DEF z
  <2>2. IsFiniteSet(0..z) /\ Cardinality(0..z) = n
    BY ONLY <2>1, FS_Interval
  <2> QED  BY <2>2 DEF z
<1> HIDE DEF f, N, n
<1>4. \A k \in N : \E r \in S : f[r] = k
  <2>1. f \in Injection(S, N)
    BY <1>2 DEF Injection, IsInjective
  <2>2. f \in Surjection(S, N)
    BY <1>1, <1>3, <2>1, FS_Injection DEF n
  <2> QED  BY <2>2 DEF Surjection
<1>5. \A i \in 1..n : i - 1 \in N
  BY <1>1 DEF N
<1>6. e = [i \in 1..n |-> CHOOSE r \in S : f[r] = i - 1]
  BY DEF InOrder, f, n
<1>7. \A i \in 1..n : e[i] \in S /\ f[e[i]] = i - 1
  BY <1>4, <1>5, <1>6
<1>8. e \in [1..n -> S]
  BY <1>6, <1>7
<1> HIDE DEF e
<1>9. \A r \in S : \E i \in 1..n : e[i] = r
  <2> TAKE r \in S
  <2> DEFINE i == f[r] + 1
  <2>1. i \in 1..n /\ i - 1 = f[r]
    BY <1>1, <1>2 DEF N
  <2> HIDE DEF i
  <2>2. e[i] = r
    BY <1>2, <1>7, <2>1
  <2> QED  BY <2>1, <2>2
<1>10. ASSUME NEW i \in 1..n, NEW j \in 1..n, i < j  PROVE e[i].seen < e[j].seen
  <2>1. e[i] \in S /\ e[j] \in S /\ f[e[i]] < f[e[j]] /\ e[i].seen \in Nat /\ e[j].seen \in Nat
    BY <1>1, <1>7, <1>10
  <2>2. e[i].seen # e[j].seen
    <3>1. e[i].seen = e[j].seen => e[i] = e[j]
      BY <2>1 DEF Aged
    <3>2. f[e[i]] # f[e[j]]
      BY <1>1, <1>7, <1>10
    <3> QED  BY <3>1, <3>2
  <2>3. ~(e[j].seen < e[i].seen)
    <3>1. f[e[i]] = i - 1 /\ f[e[j]] = j - 1
      BY <1>7
    <3>2. e[j].seen < e[i].seen => f[e[j]] < f[e[i]]
      BY <1>2, <2>1
    <3> QED  BY <1>1, <1>10, <3>1, <3>2
  <2> QED  BY <2>1, <2>2, <2>3
<1> QED  BY <1>8, <1>9, <1>10 DEF InLine, n, e

\* There is no other.
LEMMA OneLine ==
  ASSUME NEW S, Aged(S), NEW e, InLine(e, S)
  PROVE  e = InOrder(S)
<1> DEFINE n == Cardinality(S)
           o == InOrder(S)
<1>1. n \in Nat /\ \A r \in S : r.seen \in Nat
  BY RankIs DEF Aged
<1>2. ASSUME NEW g, InLine(g, S), NEW i \in 1..n  PROVE g[i] \in S /\ Cardinality(Older(S, g[i])) = i - 1
  <2> DEFINE k == i - 1
             h == [j \in 1..k |-> g[j]]
  <2>1. /\ g \in [1..n -> S] /\ \A r \in S : \E j \in 1..n : g[j] = r
        /\ \A a, b \in 1..n : a < b => g[a].seen < g[b].seen
    BY <1>2 DEF InLine
  <2>2. k \in Nat /\ \A j \in 1..k : j \in 1..n /\ j < i
    BY <1>1
  <2>3. \A j \in 1..n : j \notin 1..k => i = j \/ i < j
    BY <1>1
  <2> HIDE DEF n, k
  <2>4. \A j \in 1..k : g[j] \in Older(S, g[i])
    BY <2>1, <2>2 DEF Older
  <2>5. \A q \in Older(S, g[i]) : \E j \in 1..k : g[j] = q
    <3> TAKE q \in Older(S, g[i])
    <3>1. q \in S /\ q.seen < g[i].seen /\ q.seen \in Nat /\ g[i].seen \in Nat
      BY <1>1, <2>1 DEF Older
    <3>2. PICK j \in 1..n : g[j] = q
      BY <2>1, <3>1
    <3>3. j # i /\ ~(g[i].seen < g[j].seen)
      BY <3>1, <3>2
    <3> QED  BY <2>1, <2>3, <3>2, <3>3
  <2>6. h \in Surjection(1..k, Older(S, g[i]))
    BY <2>4, <2>5 DEF Surjection
  <2>7. h \in Injection(1..k, Older(S, g[i]))
    <3>1. ASSUME NEW a \in 1..k, NEW b \in 1..k, h[a] = h[b]  PROVE a = b
      <4>1. a \in 1..n /\ b \in 1..n /\ g[a] = g[b] /\ g[a].seen \in Nat
        BY <1>1, <2>1, <2>2, <3>1
      <4>2. ~(a < b) /\ ~(b < a)
        BY <2>1, <4>1
      <4> QED  BY <2>2, <4>2
    <3> QED  BY <2>4, <3>1 DEF Injection, IsInjective
  <2> HIDE DEF h
  <2>8. IsFiniteSet(1..k) /\ Cardinality(1..k) = k
    BY <2>2, FS_Interval
  <2>9. Cardinality(Older(S, g[i])) = k
    BY <2>6, <2>7, <2>8, FS_Surjection
  <2> QED  BY <2>1, <2>9 DEF k
<1>3. InLine(o, S)
  BY LinedUp
<1>4. \A i \in 1..n : e[i] = o[i]
  <2> TAKE i \in 1..n
  <2>1. e[i] \in S /\ o[i] \in S /\ Cardinality(Older(S, e[i])) = Cardinality(Older(S, o[i]))
    BY <1>2, <1>3
  <2> QED  BY <2>1, RankIs
<1>5. e \in [1..n -> S] /\ o \in [1..n -> S]
  BY <1>3 DEF InLine
<1> HIDE DEF o, n
<1>6. e = o
  <2>1. e = [i \in 1..n |-> e[i]] /\ o = [i \in 1..n |-> o[i]]
    BY <1>5
  <2> QED  BY <1>4, <2>1
<1> QED  BY <1>6 DEF o

Entries == [num : Peers \cup {Free}, count : 0..CountMax, id : Ids \cup {Unset}, name : Names \cup {Absent}]

\* What is shown, by place.
LEMMA ListedIs ==
  ASSUME NEW S \in SUBSET Record, Aged(S)
  PROVE  LET n == Cardinality(S)
             e == InOrder(S)
         IN /\ n \in Nat /\ Listed(S) \in Seq(Entries) /\ Len(Listed(S)) = n
            /\ \A i \in 1..n : e[i] \in S /\ Listed(S)[i] = Shown(e[i])
<1> DEFINE n == Cardinality(S)
           e == InOrder(S)
<1>1. n \in Nat /\ \A i \in 1..n : e[i] \in S
  BY RankIs, LinedUp DEF InLine
<1>2. Listed(S) = [i \in 1..n |-> Shown(e[i])]
  BY DEF Listed
<1> HIDE DEF n, e
<1>3. \A i \in 1..n : Shown(e[i]) \in Entries
  BY <1>1 DEF Shown, Entries, Record
<1>4. Listed(S) \in Seq(Entries) /\ Len(Listed(S)) = n
  <2> DEFINE s == [i \in 1..n |-> Shown(e[i])]
  <2>1. s \in [1..n -> Entries]
    BY <1>3
  <2> HIDE DEF s
  <2>2. s \in Seq(Entries) /\ Len(s) = n
    BY <1>1, <2>1
  <2> QED  BY <1>2, <2>2 DEF s
<1> QED  BY <1>1, <1>2, <1>4 DEF n, e

\* Part of what is there comes in the same order.
Picks(S, T, c, m) ==
  /\ c = Cardinality(T) /\ m \in [1..c -> 1..Cardinality(S)]
  /\ \A i, j \in 1..c : i < j => m[i] < m[j]
  /\ \A j \in 1..c : InOrder(S)[m[j]] \in T
  /\ \A r \in T : \E j \in 1..c : InOrder(S)[m[j]] = r

LEMMA Chosen ==
  ASSUME NEW S \in SUBSET Record, Aged(S), NEW T \in SUBSET S, NEW c, NEW m, Picks(S, T, c, m)
  PROVE  /\ Aged(T) /\ T \in SUBSET Record
         /\ Listed(T) \in Seq(Entries) /\ Len(Listed(T)) = c /\ c \in Nat
         /\ \A j \in 1..c : Listed(T)[j] = Listed(S)[m[j]]
<1> DEFINE o == InOrder(S)
           e == [j \in 1..c |-> o[m[j]]]
<1>0. /\ c = Cardinality(T) /\ m \in [1..c -> 1..Cardinality(S)]
      /\ \A i, j \in 1..c : i < j => m[i] < m[j]
      /\ \A j \in 1..c : o[m[j]] \in T
      /\ \A r \in T : \E j \in 1..c : o[m[j]] = r
  BY DEF Picks
<1>1. Aged(T) /\ T \in SUBSET Record
  BY FS_Subset DEF Aged
<1>2. \A i, j \in 1..Cardinality(S) : i < j => o[i].seen < o[j].seen
  BY LinedUp DEF InLine
<1>3. \A j \in 1..c : Listed(S)[m[j]] = Shown(o[m[j]])
  BY <1>0, ListedIs
<1> HIDE DEF o
<1>4. InLine(e, T)
  BY <1>0, <1>2 DEF InLine, o
<1>5. e = InOrder(T)
  <2> HIDE DEF e
  <2> QED  BY <1>1, <1>4, OneLine
<1>6. /\ c \in Nat /\ Listed(T) \in Seq(Entries) /\ Len(Listed(T)) = c
      /\ \A j \in 1..c : Listed(T)[j] = Shown(InOrder(T)[j])
  BY <1>0, <1>1, ListedIs
<1>7. \A j \in 1..c : InOrder(T)[j] = o[m[j]]
  BY <1>5
<1> QED  BY <1>0, <1>1, <1>3, <1>6, <1>7

\* The youngest comes last.
LEMMA AddLast ==
  ASSUME NEW S \in SUBSET Record, Aged(S), NEW r \in Record, \A q \in S : q.seen < r.seen
  PROVE  /\ Aged(S \cup {r}) /\ S \cup {r} \in SUBSET Record
         /\ Listed(S \cup {r}) = Append(Listed(S), Shown(r))
<1> DEFINE T == S \cup {r}
           n == Cardinality(S)
           z == n + 1
           o == InOrder(S)
           e == [i \in 1..z |-> IF i = z THEN r ELSE o[i]]
<1>1. /\ n \in Nat /\ \A q \in S : q.seen \in Nat /\ q.seen # r.seen
      /\ r.seen \in Nat /\ r \notin S /\ IsFiniteSet(S)
  BY RankIs DEF Aged, Record
<1>2. IsFiniteSet(T) /\ Cardinality(T) = z
  BY <1>1, FS_AddElement
<1>3. Aged(T) /\ T \in SUBSET Record
  BY <1>1, <1>2 DEF Aged
<1>4. /\ o \in [1..n -> S] /\ \A q \in S : \E i \in 1..n : o[i] = q
      /\ \A i, j \in 1..n : i < j => o[i].seen < o[j].seen
  BY LinedUp DEF InLine
<1> HIDE DEF T, n, o
<1>5. z \in 1..z /\ \A i \in 1..z : i = z \/ (i \in 1..n /\ i # z)
  BY <1>1
<1>6. \A i \in 1..n : i \in 1..z /\ i # z
  BY <1>1
<1>7. InLine(e, T)
  <2>1. e \in [1..z -> T]
    BY <1>4, <1>5 DEF T
  <2>2. ASSUME NEW q \in T  PROVE \E i \in 1..z : e[i] = q
    <3>1. CASE q = r
      BY <1>5, <3>1
    <3>2. CASE q # r
      BY <1>4, <1>6, <3>2 DEF T
    <3> QED  BY <3>1, <3>2
  <2>3. ASSUME NEW i \in 1..z, NEW j \in 1..z, i < j  PROVE e[i].seen < e[j].seen
    <3>1. i \in 1..n /\ e[i] = o[i]
      BY <1>1, <1>5, <2>3
    <3>2. CASE j = z
      BY <1>4, <3>1, <3>2
    <3>3. CASE j # z
      BY <1>4, <1>5, <2>3, <3>1, <3>3
    <3> QED  BY <3>2, <3>3
  <2> HIDE DEF e
  <2> QED  BY <1>2, <2>1, <2>2, <2>3 DEF InLine
<1>8. \A i \in 1..z : e[i] = IF i = z THEN r ELSE o[i]
  OBVIOUS
<1> HIDE DEF e
<1>9. e = InOrder(T)
  BY <1>3, <1>7, OneLine
<1>10. /\ Listed(T) \in Seq(Entries) /\ Len(Listed(T)) = z
       /\ \A i \in 1..z : Listed(T)[i] = Shown(e[i])
  BY <1>2, <1>3, <1>9, ListedIs
<1>11. /\ Listed(S) \in Seq(Entries) /\ Len(Listed(S)) = n
       /\ \A i \in 1..n : Listed(S)[i] = Shown(o[i])
  BY ListedIs DEF n, o
<1> DEFINE a == Append(Listed(S), Shown(r))
<1>12. /\ a \in Seq(Entries) /\ Len(a) = z /\ a[z] = Shown(r)
       /\ \A i \in 1..n : a[i] = Listed(S)[i]
  <2>1. Shown(r) \in Entries
    BY DEF Shown, Entries, Record
  <2> QED  BY <1>11, <2>1, AppendProperties
<1> HIDE DEF a
<1>13. \A i \in 1..z : Listed(T)[i] = a[i]
  BY <1>5, <1>8, <1>10, <1>11, <1>12
<1>14. Listed(T) = a
  <2> HIDE DEF z
  <2>1. Len(Listed(T)) = Len(a) /\ \A i \in 1..Len(Listed(T)) : Listed(T)[i] = a[i]
    BY <1>10, <1>12, <1>13
  <2> QED  BY <1>10, <1>12, <2>1, SeqEqual
<1> QED  BY <1>3, <1>14 DEF a, T

\* Part of a sequence.
LEMMA Slice ==
  ASSUME NEW E, NEW s \in Seq(E), NEW a \in Nat, NEW z \in Nat, a <= z, z <= Len(s)
  PROVE  /\ SubSeq(s, a + 1, z) \in Seq(E) /\ Len(SubSeq(s, a + 1, z)) = z - a
         /\ \A i \in 1..(z - a) : SubSeq(s, a + 1, z)[i] = s[a + i]
<1> DEFINE y == a + 1
           t == SubSeq(s, y, z)
<1>1. y \in Int /\ z \in Int /\ Len(s) \in Nat
  OBVIOUS
<1>2. \A i \in y..z : s[i] \in E
  <2>1. \A i \in y..z : i \in 1..Len(s)
    BY <1>1
  <2> HIDE DEF y
  <2> QED  BY <2>1
<1> HIDE DEF y
<1>3. /\ t \in Seq(E) /\ Len(t) = (IF y <= z THEN z - y + 1 ELSE 0)
      /\ \A i \in 1..(z - y + 1) : t[i] = s[y + i - 1]
  BY <1>1, <1>2, SubSeqProperties
<1> HIDE DEF t
<1>4. Len(t) = z - a /\ z - y + 1 = z - a
  BY <1>3 DEF y
<1>5. \A i \in 1..(z - a) : y + i - 1 = a + i
  BY DEF y
<1> QED  BY <1>3, <1>4, <1>5 DEF t, y

\* A sequence without its i-th.
LEMMA Without ==
  ASSUME NEW E, NEW s \in Seq(E), NEW i \in 1..Len(s)
  PROVE  LET t == Promise!RemoveAt(s, i)
         IN /\ t \in Seq(E) /\ Len(t) = Len(s) - 1
            /\ \A j \in 1..(Len(s) - 1) : t[j] = s[IF j < i THEN j ELSE j + 1]
<1> DEFINE n == Len(s)
           b == i - 1
           y == i + 1
           p == SubSeq(s, 1, b)
           q == SubSeq(s, y, n)
           t == p \o q
<1>1. n \in Nat /\ b \in Nat /\ i \in Nat /\ 0 <= b /\ b <= n /\ i <= n /\ 0 + 1 = 1
  OBVIOUS
<1>2. p \in Seq(E) /\ Len(p) = b /\ \A j \in 1..b : p[j] = s[j]
  <2> HIDE DEF b
  <2>1. /\ SubSeq(s, 0 + 1, b) \in Seq(E) /\ Len(SubSeq(s, 0 + 1, b)) = b - 0
        /\ \A j \in 1..(b - 0) : SubSeq(s, 0 + 1, b)[j] = s[0 + j]
    BY <1>1, Slice
  <2>2. b - 0 = b /\ \A j \in 1..b : 0 + j = j
    BY <1>1
  <2> QED  BY <1>1, <2>1, <2>2
<1>3. q \in Seq(E) /\ Len(q) = n - i /\ \A j \in 1..(n - i) : q[j] = s[i + j]
  BY <1>1, Slice
<1> HIDE DEF p, q
<1>4. /\ t \in Seq(E) /\ Len(t) = n - 1
      /\ \A j \in 1..(n - 1) : t[j] = IF j <= b THEN p[j] ELSE q[j - b]
  <2>1. b + (n - i) = n - 1
    BY <1>1
  <2> DEFINE d == n - i
             y1 == n - 1
  <2> HIDE DEF b, n, d, y1
  <2>2. /\ t \in Seq(E) /\ Len(t) = Len(p) + Len(q)
        /\ \A j \in 1..(Len(p) + Len(q)) : t[j] = IF j <= Len(p) THEN p[j] ELSE q[j - Len(p)]
    BY <1>2, <1>3, ConcatProperties
  <2>3. Len(p) = b /\ Len(q) = d /\ b + d = y1
    BY <1>2, <1>3, <2>1 DEF d, y1
  <2> HIDE DEF t
  <2> QED  BY <2>2, <2>3 DEF y1
<1> HIDE DEF t, n
<1>6. ASSUME NEW j \in 1..(n - 1)  PROVE t[j] = s[IF j < i THEN j ELSE j + 1]
  <2>1. CASE j < i
    <3>1. j \in 1..b /\ j <= b
      BY <1>1, <2>1
    <3> QED  BY <1>2, <1>4, <1>6, <2>1, <3>1
  <2>2. CASE ~(j < i)
    <3> DEFINE k == j - b
    <3>1. k \in 1..(n - i) /\ i + k = j + 1 /\ ~(j <= b)
      BY <1>1, <2>2
    <3>2. t[j] = q[k]
      BY <1>4, <1>6, <3>1
    <3> HIDE DEF k
    <3>3. q[k] = s[j + 1]
      BY <1>3, <3>1
    <3> QED  BY <2>2, <3>2, <3>3
  <2> QED  BY <2>1, <2>2
<1>7. Promise!RemoveAt(s, i) = t
  BY DEF Promise!RemoveAt, t, p, q, n
<1> DEFINE z == n - 1
<1>8. \A j \in 1..z : t[j] = s[IF j < i THEN j ELSE j + 1]
  BY <1>6
<1>9. t \in Seq(E) /\ Len(t) = z
  BY <1>4
<1> HIDE DEF z
<1> QED  BY <1>7, <1>8, <1>9 DEF n, z

LEMMA WithoutFirst ==
  ASSUME NEW E, NEW s \in Seq(E), s # <<>>
  PROVE  Promise!RemoveAt(s, 1) = Tail(s)
<1>1. SubSeq(s, 1, 1 - 1) = <<>>
  BY SubSeqEmpty
<1>2. Tail(s) = SubSeq(s, 1 + 1, Len(s)) /\ Tail(s) \in Seq(E)
  BY TailIsSubSeq, HeadTailProperties
<1>3. <<>> \o Tail(s) = Tail(s)
  BY <1>2, ConcatEmptySeq
<1> QED  BY <1>1, <1>2, <1>3 DEF Promise!RemoveAt

\* One record gone, one entry gone.
LEMMA TakeOut ==
  ASSUME NEW S \in SUBSET Record, Aged(S), NEW i \in 1..Cardinality(S)
  PROVE  LET T == S \ {InOrder(S)[i]}
         IN /\ Aged(T) /\ T \in SUBSET Record
            /\ Listed(T) = Promise!RemoveAt(Listed(S), i)
<1> DEFINE n == Cardinality(S)
           c == n - 1
           m == [j \in 1..c |-> IF j < i THEN j ELSE j + 1]
           o == InOrder(S)
           T == S \ {o[i]}
<1>1. n \in Nat /\ IsFiniteSet(S) /\ i \in 1..n /\ \A r \in S : r.seen \in Nat
  BY RankIs DEF Aged
<1>2. /\ o \in [1..n -> S] /\ \A r \in S : \E k \in 1..n : o[k] = r
      /\ \A a, b \in 1..n : a < b => o[a].seen < o[b].seen
  BY LinedUp DEF InLine
<1> HIDE DEF n, o
<1>3. \A a, b \in 1..n : a # b => o[a] # o[b]
  <2> SUFFICES ASSUME NEW a \in 1..n, NEW b \in 1..n, a # b, o[a] = o[b]  PROVE FALSE
    OBVIOUS
  <2>1. a < b \/ b < a
    BY <1>1
  <2>2. o[a].seen \in Nat /\ o[b].seen \in Nat
    BY <1>1, <1>2
  <2> QED  BY <1>2, <2>1, <2>2
<1>4. /\ \A j \in 1..c : (IF j < i THEN j ELSE j + 1) \in 1..n /\ (IF j < i THEN j ELSE j + 1) # i
      /\ \A a, b \in 1..c : a < b => (IF a < i THEN a ELSE a + 1) < (IF b < i THEN b ELSE b + 1)
  BY <1>1
<1>5. \A k \in 1..n : k # i => \E j \in 1..c : k = (IF j < i THEN j ELSE j + 1)
  <2> TAKE k \in 1..n
  <2> HAVE k # i
  <2>1. CASE k < i
    BY <1>1, <2>1
  <2>2. CASE ~(k < i)
    <3> DEFINE j == k - 1
    <3>1. j \in 1..c /\ ~(j < i) /\ j + 1 = k
      BY <1>1, <2>2
    <3> HIDE DEF j
    <3> QED  BY <3>1
  <2> QED  BY <2>1, <2>2
<1>6. c \in Nat /\ c = Cardinality(T)
  <2>1. o[i] \in S
    BY <1>1, <1>2
  <2>2. Cardinality(T) = Cardinality(S) - 1
    BY <1>1, <2>1, FS_RemoveElement
  <2> QED  BY <1>1, <2>2 DEF n
<1>7. /\ m \in [1..c -> 1..n] /\ \A a, b \in 1..c : a < b => m[a] < m[b]
      /\ \A j \in 1..c : m[j] # i /\ m[j] = IF j < i THEN j ELSE j + 1
      /\ \A k \in 1..n : k # i => \E j \in 1..c : m[j] = k
  <2> HIDE DEF c
  <2> QED  BY <1>4, <1>5
<1> HIDE DEF m, c
<1>8. \A j \in 1..c : o[m[j]] \in T
  BY <1>1, <1>2, <1>3, <1>7
<1>9. \A r \in T : \E j \in 1..c : o[m[j]] = r
  <2> TAKE r \in T
  <2>1. PICK k \in 1..n : o[k] = r
    BY <1>2
  <2>2. k # i
    BY <2>1
  <2> QED  BY <1>7, <2>1, <2>2
<1>10. T \in SUBSET S
  OBVIOUS
<1> HIDE DEF T
<1>11. /\ Aged(T) /\ T \in SUBSET Record
       /\ Listed(T) \in Seq(Entries) /\ Len(Listed(T)) = c
       /\ \A j \in 1..c : Listed(T)[j] = Listed(S)[m[j]]
  <2>1. Picks(S, T, c, m)
    BY <1>6, <1>7, <1>8, <1>9 DEF Picks, n, o
  <2> QED  BY <1>10, <2>1, Chosen
<1> DEFINE l == Listed(S)
           t == Promise!RemoveAt(l, i)
<1>12. l \in Seq(Entries) /\ Len(l) = n
  BY ListedIs DEF n
<1> HIDE DEF l
<1>13. /\ t \in Seq(Entries) /\ Len(t) = c
       /\ \A j \in 1..c : t[j] = l[IF j < i THEN j ELSE j + 1]
  BY <1>1, <1>12, Without DEF c
<1> HIDE DEF t
<1>14. \A j \in 1..c : Listed(T)[j] = t[j]
  BY <1>7, <1>11, <1>13 DEF l
<1>15. Listed(T) = t
  <2>1. Len(Listed(T)) = Len(t) /\ \A j \in 1..Len(Listed(T)) : Listed(T)[j] = t[j]
    BY <1>11, <1>13, <1>14
  <2> QED  BY <1>11, <1>13, <2>1, SeqEqual
<1> QED  BY <1>11, <1>15 DEF T, t, l, o

\* The oldest is the first.
LEMMA TakeFirst ==
  ASSUME NEW S \in SUBSET Record, Aged(S), NEW r \in S, \A q \in S : r.seen <= q.seen
  PROVE  /\ Listed(S) # <<>> /\ Head(Listed(S)) = Shown(r)
         /\ Aged(S \ {r}) /\ S \ {r} \in SUBSET Record
         /\ Listed(S \ {r}) = Tail(Listed(S))
<1> DEFINE n == Cardinality(S)
           o == InOrder(S)
<1>1. n \in Nat /\ \A q \in S : q.seen \in Nat
  BY RankIs DEF Aged
<1>2. /\ o \in [1..n -> S] /\ \A q \in S : \E k \in 1..n : o[k] = q
      /\ \A a, b \in 1..n : a < b => o[a].seen < o[b].seen
  BY LinedUp DEF InLine
<1>3. PICK k \in 1..n : o[k] = r
  BY <1>2
<1>4. k = 1 /\ 1 \in 1..n
  <2> HIDE DEF n
  <2>1. 1 \in 1..n /\ (k = 1 \/ 1 < k)
    BY <1>1
  <2>2. o[1] \in S /\ o[1].seen \in Nat /\ r.seen \in Nat /\ r.seen <= o[1].seen
    BY <1>1, <1>2, <2>1
  <2> QED  BY <1>2, <1>3, <2>1, <2>2
<1>5. /\ Listed(S) \in Seq(Entries) /\ Len(Listed(S)) = n /\ Listed(S)[1] = Shown(r)
  BY <1>3, <1>4, ListedIs
<1>6. Listed(S) # <<>>
  BY <1>4, <1>5
<1>7. Head(Listed(S)) = Listed(S)[1]
  BY <1>5, <1>6
<1>8. /\ Aged(S \ {r}) /\ S \ {r} \in SUBSET Record
      /\ Listed(S \ {r}) = Promise!RemoveAt(Listed(S), 1)
  BY <1>3, <1>4, TakeOut
<1> QED  BY <1>5, <1>6, <1>7, <1>8, WithoutFirst


\* The list costs what the records weigh.
LEMMA CostIs ==
  ASSUME NEW S \in SUBSET Record, Aged(S)
  PROVE  Promise!Cost(Listed(S)) = Weight(S)
<1> DEFINE n == Cardinality(S)
           D == 1..n
           l == Listed(S)
           o == InOrder(S)
           c == [i \in D |-> IF l[i].name = Absent THEN 1 ELSE 2]
           H == {i \in D : c[i] = 2}
           f == [i \in H |-> o[i]]
<1>1. n \in Nat /\ IsFiniteSet(S) /\ \A r \in S : r.seen \in Nat
  BY RankIs DEF Aged
<1>2. IsFiniteSet(D) /\ Cardinality(D) = n
  <2> HIDE DEF n
  <2> QED  BY <1>1, FS_Interval
<1>3. l \in Seq(Entries) /\ Len(l) = n /\ \A i \in D : o[i] \in S /\ l[i].name = o[i].name
  <2>1. l \in Seq(Entries) /\ Len(l) = n /\ \A i \in D : o[i] \in S /\ l[i] = Shown(o[i])
    BY ListedIs
  <2>2. ASSUME NEW i \in D  PROVE l[i].name = o[i].name
    <3>1. l[i] = Shown(o[i])
      BY <2>1
    <3> HIDE DEF l, o
    <3> QED  BY <3>1 DEF Shown
  <2> QED  BY <2>1, <2>2
<1>4. /\ \A r \in S : \E i \in D : o[i] = r
      /\ \A i, j \in D : i < j => o[i].seen < o[j].seen
  BY LinedUp DEF InLine
<1> HIDE DEF l, o
<1>5. Promise!Cost(l) = SumFunctionOnSet(c, D)
  <2>1. DOMAIN l = D /\ DOMAIN c = D
    BY <1>3
  <2>2. Promise!Cost(l) = Promise!SumFunction(c)
    BY <2>1 DEF Promise!Cost
  <2> HIDE DEF c, D
  <2>3. Promise!SumFunction(c) = SumFunctionOnSet(c, DOMAIN c)
    BY DEF Promise!SumFunction, Promise!SumFunctionOnSet, Promise!FoldFunctionOnSet,
           Promise!MapThenFoldSet, SumFunctionOnSet, FoldFunctionOnSet, MapThenFoldSet
  <2> QED  BY <2>1, <2>2, <2>3
<1>6. c \in [D -> {1, 2}] /\ \A i \in D : c[i] = 2 <=> l[i].name # Absent
  OBVIOUS
<1> HIDE DEF c
<1>7. SumFunctionOnSet(c, D) = n + Cardinality(H)
  <2>1. SumFunctionOnSet(c, D) = Load(c, D)
    <3> HIDE DEF D
    <3> QED  BY <1>2, <1>6, SumIsLoad
  <2> QED  BY <1>2, <2>1 DEF Load
<1>8. f \in Surjection(H, Named(S))
  BY <1>3, <1>4, <1>6 DEF Surjection, Named
<1>9. f \in Injection(H, Named(S))
  <2>1. ASSUME NEW i \in H, NEW j \in H, f[i] = f[j]  PROVE i = j
    <3>1. i \in D /\ j \in D /\ o[i] = o[j] /\ o[i].seen \in Nat
      BY <1>1, <1>3, <2>1
    <3>2. ~(i < j) /\ ~(j < i)
      BY <1>4, <3>1
    <3> QED  BY <1>1, <3>1, <3>2
  <2> QED  BY <1>8, <2>1 DEF Surjection, Injection, IsInjective
<1>10. IsFiniteSet(H)
  BY <1>2, FS_Subset
<1> HIDE DEF f, H
<1>11. Cardinality(H) = Cardinality(Named(S))
  BY <1>8, <1>9, <1>10, FS_Surjection
<1> QED  BY <1>1, <1>5, <1>7, <1>11, WeighIs DEF l, n

\* The newest records, from the k-th on.
Part(S, k) == {InOrder(S)[j] : j \in k..Cardinality(S)}

LEMMA PartIs ==
  ASSUME NEW S \in SUBSET Record, Aged(S), NEW k \in 1..(Cardinality(S) + 1)
  PROVE  /\ Part(S, k) \in SUBSET S /\ Aged(Part(S, k))
         /\ Listed(Part(S, k)) = SubSeq(Listed(S), k, Cardinality(S))
<1> DEFINE n == Cardinality(S)
           o == InOrder(S)
           T == Part(S, k)
           b == k - 1
           c == n - b
           m == [j \in 1..c |-> b + j]
           g == [j \in 1..c |-> o[m[j]]]
<1>1. n \in Nat /\ IsFiniteSet(S) /\ \A r \in S : r.seen \in Nat
  BY RankIs DEF Aged
<1>2. /\ o \in [1..n -> S]
      /\ \A i, j \in 1..n : i < j => o[i].seen < o[j].seen
  BY LinedUp DEF InLine
<1>3. T = {o[j] : j \in k..n}
  BY DEF Part
<1> HIDE DEF n, o, T
<1>4. b \in Nat /\ c \in Nat /\ b + 1 = k /\ b <= n
  BY <1>1 DEF n
<1>5. \A j \in 1..c : b + j \in 1..n /\ b + j \in k..n
  BY <1>1, <1>4
<1>6. \A i \in k..n : i \in 1..n /\ \E j \in 1..c : b + j = i
  <2> TAKE i \in k..n
  <2> DEFINE j == i - b
  <2>1. j \in 1..c /\ b + j = i /\ i \in 1..n
    BY <1>1, <1>4
  <2> HIDE DEF j
  <2> QED  BY <2>1
<1>7. /\ m \in [1..c -> 1..n] /\ \A j \in 1..c : m[j] = b + j
      /\ \A i, j \in 1..c : i < j => m[i] < m[j]
  <2>1. \A i, j \in 1..c : i < j => b + i < b + j
    BY <1>4
  <2> HIDE DEF b, c
  <2> QED  BY <1>5, <2>1
<1> HIDE DEF m, c, b
<1>8. T \in SUBSET S
  BY <1>2, <1>3, <1>6
<1>9. (\A j \in 1..c : o[m[j]] \in T) /\ \A r \in T : \E j \in 1..c : o[m[j]] = r
  BY <1>3, <1>5, <1>6, <1>7
<1>10. c = Cardinality(T)
  <2>1. g \in Surjection(1..c, T)
    BY <1>9 DEF Surjection
  <2>2. g \in Injection(1..c, T)
    <3>1. ASSUME NEW i \in 1..c, NEW j \in 1..c, g[i] = g[j]  PROVE i = j
      <4>1. m[i] \in 1..n /\ m[j] \in 1..n /\ o[m[i]] = o[m[j]] /\ o[m[i]].seen \in Nat
        BY <1>1, <1>2, <1>7, <3>1
      <4>2. ~(m[i] < m[j]) /\ ~(m[j] < m[i])
        BY <1>2, <4>1
      <4>3. ~(i < j) /\ ~(j < i)
        BY <1>7, <4>2
      <4> QED  BY <1>4, <4>3
    <3> QED  BY <1>9, <3>1 DEF Injection, IsInjective
  <2> HIDE DEF g
  <2>3. c \in Nat
    BY <1>4
  <2>4. IsFiniteSet(1..c) /\ Cardinality(1..c) = c
    BY ONLY <2>3, FS_Interval
  <2> QED  BY <2>1, <2>2, <2>4, FS_Surjection
<1>11. /\ Aged(T) /\ Listed(T) \in Seq(Entries) /\ Len(Listed(T)) = c
       /\ \A j \in 1..c : Listed(T)[j] = Listed(S)[m[j]]
  <2>1. Picks(S, T, c, m)
    BY <1>7, <1>9, <1>10 DEF Picks, n, o
  <2> QED  BY <1>8, <2>1, Chosen
<1> DEFINE l == Listed(S)
           p == SubSeq(l, k, n)
<1>12. l \in Seq(Entries) /\ Len(l) = n
  BY ListedIs DEF n
<1> HIDE DEF l
<1>13. p \in Seq(Entries) /\ Len(p) = c /\ \A j \in 1..c : p[j] = l[b + j]
  <2>1. /\ SubSeq(l, b + 1, n) \in Seq(Entries) /\ Len(SubSeq(l, b + 1, n)) = n - b
        /\ \A j \in 1..(n - b) : SubSeq(l, b + 1, n)[j] = l[b + j]
    BY <1>1, <1>4, <1>12, Slice DEF n
  <2> QED  BY <1>4, <2>1 DEF c
<1> HIDE DEF p
<1>14. \A j \in 1..c : Listed(T)[j] = p[j]
  BY <1>7, <1>11, <1>13 DEF l
<1>15. Listed(T) = p
  <2>1. Len(Listed(T)) = Len(p) /\ \A j \in 1..Len(Listed(T)) : Listed(T)[j] = p[j]
    BY <1>11, <1>13, <1>14
  <2> QED  BY <1>11, <1>13, <2>1, SeqEqual
<1> QED  BY <1>8, <1>11, <1>15 DEF T, p, l, n

\* What _fill keeps is the longest newest part that fits.
Keeps(S, k) ==
  /\ k \in 1..(Cardinality(S) + 1)
  /\ Fitting(S) = Part(S, k) /\ Weight(Part(S, k)) <= Room
  /\ k > 1 => Weight(Part(S, k - 1)) > Room

LEMMA NewestKept ==
  ASSUME NEW S \in SUBSET Record, Aged(S)
  PROVE  \E k : Keeps(S, k)
<1> DEFINE n == Cardinality(S)
           o == InOrder(S)
           K == {k \in 1..(n + 1) : Weight(Part(S, k)) <= Room}
<1>1. n \in Nat /\ IsFiniteSet(S) /\ \A r \in S : r.seen \in Nat
  BY RankIs DEF Aged
<1>2. /\ o \in [1..n -> S] /\ \A r \in S : \E i \in 1..n : o[i] = r
      /\ \A i, j \in 1..n : i < j => o[i].seen < o[j].seen
  BY LinedUp DEF InLine
<1>3. \A k : Part(S, k) = {o[j] : j \in k..n}
  BY DEF Part
<1>4. Room \in Nat
  BY NodeDBOK
<1>5. \A k \in 1..(n + 1) : Part(S, k) \in SUBSET S
  BY PartIs
<1>6. \A k \in 1..(n + 1) : Weight(Part(S, k)) \in Nat
  BY <1>1, <1>5, WeightMore
<1> HIDE DEF n, o
<1>7. K # {}
  <2>1. n + 1 \in 1..(n + 1) /\ (n + 1)..n = {}
    BY <1>1
  <2> DEFINE z == n + 1
  <2> HIDE DEF z
  <2>2. Part(S, z) = {}
    BY <1>3, <2>1 DEF z
  <2>4. z \in K
    BY <2>1, <2>2, NothingWeighs DEF z
  <2> QED  BY <2>4
<1>8. K \in SUBSET Nat
  BY <1>1
<1>9. PICK k \in K : \A i \in K : k <= i
  <2> HIDE DEF K
  <2> QED  BY <1>7, <1>8, Least
<1>10. k \in 1..(n + 1) /\ Weight(Part(S, k)) <= Room
  BY <1>9
<1>11. k > 1 => Weight(Part(S, k - 1)) > Room
  <2> SUFFICES ASSUME k > 1  PROVE Weight(Part(S, k - 1)) > Room
    OBVIOUS
  <2> DEFINE i == k - 1
  <2>1. i \in 1..(n + 1) /\ ~(k <= i)
    BY <1>1, <1>10
  <2> HIDE DEF i
  <2>2. i \notin K
    BY <1>9, <2>1
  <2>3. Weight(Part(S, i)) \in Nat /\ ~(Weight(Part(S, i)) <= Room)
    BY <1>6, <2>1, <2>2
  <2> QED  BY <1>4, <2>3 DEF i
<1>12. \A i \in 1..n : {q \in S : q.seen >= o[i].seen} = Part(S, i)
  <2> TAKE i \in 1..n
  <2>1. ASSUME NEW q \in S  PROVE q.seen >= o[i].seen <=> \E j \in i..n : q = o[j]
    <3>1. PICK j \in 1..n : o[j] = q
      BY <1>2
    <3>2. o[i].seen \in Nat /\ o[j].seen \in Nat
      BY <1>1, <1>2
    <3>3. CASE j < i
      <4>1. o[j].seen < o[i].seen
        BY <1>2, <3>3
      <4>2. ASSUME NEW h \in i..n, q = o[h]  PROVE FALSE
        <5>1. h \in 1..n /\ j < h
          BY <1>1, <3>3
        <5>2. o[j].seen < o[h].seen
          BY <1>2, <5>1
        <5> QED  BY <3>1, <3>2, <4>2, <5>2
      <4> QED  BY <3>1, <3>2, <4>1, <4>2
    <3>4. CASE i <= j
      <4>1. j \in i..n /\ (i = j \/ i < j)
        BY <1>1, <3>4
      <4>2. o[j].seen >= o[i].seen
        BY <1>2, <3>2, <4>1
      <4> QED  BY <3>1, <4>1, <4>2
    <3> QED  BY <1>1, <3>3, <3>4
  <2>2. \A j \in i..n : o[j] \in S
    BY <1>1, <1>2
  <2> QED  BY <1>3, <2>1, <2>2
<1>13. Fitting(S) = {r \in S : Weight({q \in S : q.seen >= r.seen}) <= Room}
  BY DEF Fitting, Newer
<1>14. ASSUME NEW r \in Fitting(S)  PROVE r \in Part(S, k)
  <2>1. r \in S /\ Weight({q \in S : q.seen >= r.seen}) <= Room
    BY <1>13
  <2>2. PICK i \in 1..n : o[i] = r
    BY <1>2, <2>1
  <2>3. Weight(Part(S, i)) <= Room
    BY <1>12, <2>1, <2>2
  <2>4. i \in K
    BY <1>1, <2>3
  <2>5. i \in k..n
    BY <1>1, <1>8, <1>9, <2>4
  <2> QED  BY <1>3, <2>2, <2>5
<1>15. ASSUME NEW r \in Part(S, k)  PROVE r \in Fitting(S)
  <2>1. PICK i \in k..n : r = o[i]
    BY <1>3
  <2>2. i \in 1..n /\ i \in 1..(n + 1) /\ \A j \in i..n : j \in k..n
    BY <1>1, <1>10
  <2>3. Part(S, i) \in SUBSET Part(S, k) /\ IsFiniteSet(Part(S, k))
    BY <1>1, <1>3, <1>5, <1>10, <2>2, FS_Subset
  <2>4. Weight(Part(S, i)) <= Weight(Part(S, k))
    BY <2>3, WeightMore
  <2>5. Weight(Part(S, i)) <= Room
    BY <1>4, <1>6, <1>10, <2>2, <2>4
  <2>6. r \in S /\ Weight({q \in S : q.seen >= r.seen}) <= Room
    BY <1>2, <1>12, <2>1, <2>2, <2>5
  <2> QED  BY <1>13, <2>6
<1>16. Fitting(S) = Part(S, k)
  BY <1>14, <1>15
<1> QED  BY <1>10, <1>11, <1>16 DEF Keeps, n


-----------------------------------------------------------------------------
(* The records of a table.                                                 *)

Apart(t) ==
  \A i, j \in Occupied(t) : i # j => t[i].num # t[j].num /\ t[i].seen # t[j].seen

LEMMA RecordsSeen ==
  ASSUME NEW t \in [Rows -> Row], NEW ns \in [Peers -> Names \cup {Absent}], Apart(t)
  PROVE  LET S == RecordsOf(t, ns)
         IN /\ S \in SUBSET Record /\ Aged(S)
            /\ Cardinality(S) = Cardinality(Occupied(t))
            /\ \A i, j \in Occupied(t) : RecOf(t, ns, i) = RecOf(t, ns, j) => i = j
<1> DEFINE S == RecordsOf(t, ns)
           f == [i \in Occupied(t) |-> RecOf(t, ns, i)]
<1>1. \A i \in Occupied(t) :
        RecOf(t, ns, i) \in Record /\ RecOf(t, ns, i).seen = t[i].seen /\ t[i].seen \in Nat
  <2> TAKE i \in Occupied(t)
  <2>1. t[i] \in Row /\ t[i].num # Free
    BY DEF Occupied
  <2>2. t[i].num \in Peers
    BY <2>1 DEF Row
  <2>3. ns[t[i].num] \in Names \cup {Absent}
    BY <2>2
  <2> QED  BY <2>1, <2>2, <2>3 DEF RecOf, Row, Record
<1>2. S = {RecOf(t, ns, i) : i \in Occupied(t)}
  BY DEF RecordsOf
<1>3. \A i, j \in Occupied(t) : RecOf(t, ns, i).seen = RecOf(t, ns, j).seen => i = j
  BY <1>1 DEF Apart
<1> HIDE DEF S
<1>4. f \in Surjection(Occupied(t), S)
  BY <1>2 DEF Surjection
<1>5. f \in Injection(Occupied(t), S)
  BY <1>3, <1>4 DEF Surjection, Injection, IsInjective
<1> HIDE DEF f
<1>6. IsFiniteSet(S) /\ Cardinality(S) = Cardinality(Occupied(t))
  BY <1>4, <1>5, FiniteOccupied, FS_Surjection
<1>7. Aged(S)
  BY <1>1, <1>2, <1>3, <1>6 DEF Aged
<1> QED  BY <1>1, <1>2, <1>3, <1>6, <1>7 DEF S

\* Nothing but the name at one row is another.
NamesStay(t, ns, at, ms) ==
  \A i \in Occupied(t) : i # at => ms[t[i].num] = ns[t[i].num]

\* One row is written: its old record goes, if it had one.
OneWritten(t, ns, at, row, ms) ==
  RecordsOf([t EXCEPT ![at] = row], ms) =
    (RecordsOf(t, ns) \ (IF t[at].num = Free THEN {} ELSE {RecOf(t, ns, at)}))
      \cup {[num |-> row.num, seen |-> row.seen, count |-> row.count, id |-> row.id,
             name |-> ms[row.num]]}

LEMMA Written ==
  ASSUME NEW t \in [Rows -> Row], NEW ns \in [Peers -> Names \cup {Absent}], Apart(t),
         NEW at \in Rows, NEW row \in Row, row.num \in Peers, NEW ms,
         NamesStay(t, ns, at, ms)
  PROVE  OneWritten(t, ns, at, row, ms)
<1> DEFINE u == [t EXCEPT ![at] = row]
           S == RecordsOf(t, ns)
           T == RecordsOf(u, ms)
           gone == IF t[at].num = Free THEN {} ELSE {RecOf(t, ns, at)}
           new == [num |-> row.num, seen |-> row.seen, count |-> row.count, id |-> row.id,
                   name |-> ms[row.num]]
<1>1. S = {RecOf(t, ns, i) : i \in Occupied(t)} /\ T = {RecOf(u, ms, i) : i \in Occupied(u)}
  BY DEF RecordsOf
<1>2. row.num # Free
  BY NodeDBOK
<1>3. at \in Occupied(u) /\ RecOf(u, ms, at) = new
  BY <1>2 DEF Occupied, RecOf
<1>4. \A i \in Rows : i # at => (i \in Occupied(u) <=> i \in Occupied(t))
  BY DEF Occupied
<1>5. \A i \in Occupied(t) : i # at => RecOf(u, ms, i) = RecOf(t, ns, i)
  BY DEF NamesStay, Occupied, RecOf
<1>6. \A i \in Occupied(t) : i # at => RecOf(t, ns, i) \notin gone
  <2> TAKE i \in Occupied(t)
  <2> HAVE i # at
  <2>1. CASE t[at].num = Free
    BY <2>1
  <2>2. CASE t[at].num # Free
    <3>1. at \in Occupied(t)
      BY <2>2 DEF Occupied
    <3>2. RecOf(t, ns, i) # RecOf(t, ns, at)
      BY <3>1, RecordsSeen
    <3> QED  BY <2>2, <3>2
  <2> QED  BY <2>1, <2>2
<1>7. at \in Occupied(t) => RecOf(t, ns, at) \in gone
  BY DEF Occupied
<1>8. \A i : i \in Occupied(u) \/ i \in Occupied(t) => i \in Rows
  BY DEF Occupied
<1> HIDE DEF u, S, T, gone, new
<1>9. ASSUME NEW r \in T  PROVE r \in (S \ gone) \cup {new}
  <2>1. PICK i \in Occupied(u) : r = RecOf(u, ms, i)
    BY <1>1
  <2>2. CASE i = at
    BY <1>3, <2>1, <2>2
  <2>3. CASE i # at
    <3>1. i \in Occupied(t) /\ r = RecOf(t, ns, i)
      BY <1>4, <1>5, <1>8, <2>1, <2>3
    <3> QED  BY <1>1, <1>6, <2>3, <3>1
  <2> QED  BY <2>2, <2>3
<1>10. ASSUME NEW r \in (S \ gone) \cup {new}  PROVE r \in T
  <2>1. CASE r = new
    BY <1>1, <1>3, <2>1
  <2>2. CASE r \in S \ gone
    <3>1. PICK i \in Occupied(t) : r = RecOf(t, ns, i)
      BY <1>1, <2>2
    <3>2. i # at
      BY <1>7, <2>2, <3>1
    <3>3. i \in Occupied(u) /\ r = RecOf(u, ms, i)
      BY <1>4, <1>5, <1>8, <3>1, <3>2
    <3> QED  BY <1>1, <3>3
  <2> QED  BY <2>1, <2>2
<1>11. T = (S \ gone) \cup {new}
  BY <1>9, <1>10
<1> QED  BY <1>11 DEF OneWritten, T, S, gone, new, u


-----------------------------------------------------------------------------
(* What the module promises, step by step.                                 *)

LEMMA TableIs ==
  ASSUME IInv
  PROVE  /\ table \in [Rows -> Row] /\ names \in [Peers -> Names \cup {Absent}] /\ Apart(table)
         /\ Records = RecordsOf(table, names)
         /\ Records \in SUBSET Record /\ Aged(Records)
         /\ Cardinality(Records) = Cardinality(Occupied(table))
         /\ tick \in Nat /\ \A r \in Records : r.seen <= tick
<1>1. table \in [Rows -> Row] /\ names \in [Peers -> Names \cup {Absent}] /\ tick \in Nat
  BY DEF IInv, TypeOK
<1>2. Apart(table)
  BY DEF IInv, OneRowEach, Apart
<1>3. Records = RecordsOf(table, names)
  BY DEF Records, RecordOf, ReadAs, ViewOf, RecordsOf, RecOf
<1>4. \A r \in Records : r.seen <= tick
  BY DEF IInv, TickAhead, Records, RecordOf, ReadAs, ViewOf
<1>5. /\ RecordsOf(table, names) \in SUBSET Record /\ Aged(RecordsOf(table, names))
      /\ Cardinality(RecordsOf(table, names)) = Cardinality(Occupied(table))
  BY <1>1, <1>2, RecordsSeen
<1> QED  BY <1>1, <1>2, <1>3, <1>4, <1>5

LEMMA NextRecords == Records' = RecordsOf(table', names')
BY DEF Records, RecordOf, ReadAs, ViewOf, RecordsOf, RecOf

LEMMA NextLists ==
  /\ Listed(Records)' = Listed(Records')
  /\ Listed(saved)' = Listed(saved') /\ Listed(left)' = Listed(left')
  /\ Spare(table)' = Spare(table')
BY DEF Listed, Shown, InOrder, Older, Spare, Full, First, At

LEMMA NoneListed == Listed({}) = <<>>
<1> DEFINE l == Listed({})
<1>1. Cardinality({}) = 0 /\ Aged({})
  BY FS_EmptySet DEF Aged
<1>2. l \in Seq(Entries) /\ Len(l) = 0
  BY <1>1, ListedIs
<1> HIDE DEF l
<1>3. l = <<>>
  BY <1>2
<1> QED  BY <1>3 DEF l

\* What the free rows are, and the count of the first of them.
LEMMA FirstOf ==
  ASSUME NEW t, ~Full(t)
  PROVE  \E i \in Rows : i \in First(At(t, Free)) /\ First(At(t, Free)) = {i}
<1>1. At(t, Free) \in SUBSET Nat /\ At(t, Free) # {} /\ At(t, Free) \in SUBSET Rows
  BY NodeDBOK DEF Full, At, Rows
<1>2. PICK i \in At(t, Free) : \A j \in At(t, Free) : i <= j
  BY <1>1, Least
<1>3. \A j \in First(At(t, Free)) : j = i
  <2> TAKE j \in First(At(t, Free))
  <2>1. j \in Nat /\ i \in Nat /\ i <= j /\ j <= i
    BY <1>1, <1>2 DEF First
  <2> QED  BY <2>1
<1>4. i \in First(At(t, Free))
  BY <1>2 DEF First
<1> QED  BY <1>1, <1>3, <1>4

LEMMA SpareIs ==
  ASSUME NEW t, NEW at \in First(At(t, Free))
  PROVE  Spare(t) = t[at].count
<1>1. ~Full(t)
  BY DEF Full, First
<1>2. PICK i \in Rows : i \in First(At(t, Free)) /\ First(At(t, Free)) = {i}
  BY <1>1, FirstOf
<1>3. at = i /\ (CHOOSE j \in First(At(t, Free)) : TRUE) = i
  BY <1>2
<1> QED  BY <1>1, <1>3 DEF Spare

LEMMA NoSpare ==
  ASSUME NEW t, \A i \in First(At(t, Free)) : t[i].count = 0
  PROVE  Spare(t) = 0
<1>1. CASE Full(t)
  BY <1>1 DEF Spare
<1>2. CASE ~Full(t)
  BY <1>2, FirstOf, SpareIs
<1> QED  BY <1>1, <1>2

LEMMA SameSpare ==
  ASSUME NEW t, NEW u, At(u, Free) = At(t, Free),
         \A i \in At(t, Free) : u[i].count = t[i].count
  PROVE  Spare(u) = Spare(t)
<1>1. CASE Full(t)
  BY <1>1 DEF Spare, Full
<1>2. CASE ~Full(t)
  <2>1. PICK i \in Rows : i \in First(At(t, Free))
    BY <1>2, FirstOf
  <2>2. i \in First(At(u, Free)) /\ u[i].count = t[i].count
    BY <2>1 DEF First
  <2> QED  BY <2>1, <2>2, SpareIs
<1> QED  BY <1>1, <1>2

LEMMA Nothing0 == Spare(NoRows) = 0
BY NoSpare DEF NoRows, EmptyRow, First, At

\* A free row has no id, and only the first of them may have a count, left by
\* node 0; no two records in flash are of an age, unless a packet slipped in.
Tidy ==
  /\ \A i \in Rows : table[i].num = Free =>
       /\ table[i].id = Unset
       /\ table[i].count = 0 \/ (stage = "up" /\ i \in First(At(table, Free)))
  /\ ~slipped => \A p, q \in saved : p.seen = q.seen => p = q

LEMMA FlashIs ==
  ASSUME IInv, Tidy, ~slipped
  PROVE  saved \in SUBSET Record /\ Aged(saved) /\ left \in SUBSET Record /\ Aged(left)
<1>1. saved \in SUBSET Record /\ left \in SUBSET saved /\ IsFiniteSet(saved)
  BY DEF IInv, TypeOK, FlashFits, SavedFits
<1>2. IsFiniteSet(left)
  BY <1>1, FS_Subset
<1>3. \A r \in Record : r.seen \in Nat
  BY DEF Record
<1> QED  BY <1>1, <1>2, <1>3 DEF Tidy, Aged

\* What has been saved of the roster as it is.
LEMMA TidySaved ==
  ASSUME IInv, Tidy, UNCHANGED <<table, stage>>, ~slipped' => saved' = Fitting(Records)
  PROVE  Tidy'
<1>1. ~slipped' => saved' \in SUBSET Records
  BY DEF Fitting
<1>2. Aged(Records)
  BY TableIs
<1> QED  BY <1>1, <1>2 DEF Tidy, Aged, First, At

LEMMA TidyNext ==
  ASSUME IInv, Tidy, [Next]_vars
  PROVE  Tidy'
<1> USE NodeDBOK
<1>0. table \in [Rows -> Row]
  BY TableIs
<1>1. ASSUME NEW n \in Peers, NEW claim \in Claim, Receive(n, claim)  PROVE Tidy'
  <2>1. saved' = saved /\ (~slipped' => ~slipped) /\ stage' = "up"
    BY <1>1 DEF Receive
  <2>2. PICK at \in Rows, row \in Row : Sighted(n, claim, at, row)
    BY <1>1, ReceiveIs
  <2>3. table' = [table EXCEPT ![at] = row] /\ row.num # Free
    BY <2>2 DEF Sighted
  <2>4. ASSUME NEW i \in Rows, table'[i].num = Free
        PROVE  /\ i # at /\ table'[i] = table[i]
               /\ i \in First(At(table, Free)) => i \in First(At(table', Free))
    <3>1. \A j \in Rows : table'[j] = IF j = at THEN row ELSE table[j]
      BY <1>0, <2>3
    <3> QED  BY <2>3, <2>4, <3>1 DEF First, At
  <2> QED  BY <2>1, <2>4 DEF Tidy
<1>2. ASSUME NEW claim \in Claim, Receive(Free, claim)  PROVE Tidy'
  <2>1. saved' = saved /\ (~slipped' => ~slipped) /\ stage' = "up"
    BY <1>2 DEF Receive
  <2>2. PICK at \in Rows : Passed(at)
    BY <1>2, NobodyIs
  <2> DEFINE base == IF Full(table) THEN EmptyRow ELSE table[at]
             row  == [num |-> Free, seen |-> tick + 1, count |-> Capped(base.count), id |-> base.id]
  <2>3. /\ table' = [table EXCEPT ![at] = row] /\ row.num = Free
        /\ row.id = (IF Full(table) THEN EmptyRow ELSE table[at]).id
    BY <2>2 DEF Passed
  <2> HIDE DEF row
  <2>4. row.id = Unset
    BY <2>2, <2>3 DEF Passed, Tidy, EmptyRow, First, At
  <2>5. at \in First(At(table', Free))
        /\ \A i \in Rows : i # at /\ table'[i].num = Free =>
             table'[i] = table[i] /\ i \notin First(At(table, Free))
    <3>1. \A j \in Rows : table'[j] = IF j = at THEN row ELSE table[j]
      BY <1>0, <2>3
    <3>2. CASE Full(table)
      <4>1. At(table', Free) = {at}
        BY <2>3, <3>1, <3>2 DEF Full, At
      <4> QED  BY <3>1, <3>2, <4>1 DEF First, Full, At, Rows
    <3>3. CASE ~Full(table)
      <4>1. At(table', Free) = At(table, Free) /\ at \in First(At(table, Free))
        BY <2>2, <2>3, <3>1, <3>3 DEF Passed, First, At
      <4>2. \A i \in First(At(table, Free)) : i = at
        BY <3>3, <4>1, FirstOf
      <4> QED  BY <3>1, <4>1, <4>2
    <3> QED  BY <3>2, <3>3
  <2>6. table'[at] = row
    BY <1>0, <2>3
  <2> QED  BY <2>1, <2>3, <2>4, <2>5, <2>6 DEF Tidy
<1>3. ASSUME NEW r \in left, Restore(r)  PROVE Tidy'
  <2>1. saved' = saved /\ slipped' = slipped /\ stage = "loading" /\ stage' = "loading"
    BY <1>3 DEF Restore
  <2>2. CASE table' = table
    BY <2>1, <2>2 DEF Tidy
  <2>3. ASSUME NEW at \in Rows, PutBack(r, at)  PROVE Tidy'
    <3> DEFINE row == [num |-> r.num, seen |-> tick + 1, count |-> r.count, id |-> r.id]
    <3>1. table' = [table EXCEPT ![at] = row] /\ r.num # Free
      BY <2>3 DEF PutBack
    <3>2. row.num # Free
      BY <3>1
    <3> HIDE DEF row
    <3>3. \A i \in Rows : table'[i].num = Free => table'[i] = table[i]
      BY <1>0, <3>1, <3>2
    <3> QED  BY <2>1, <3>3 DEF Tidy
  <2> QED  BY <1>3, <2>2, <2>3, RestoreIs
<1>4. ASSUME table' = NoRows, (saved' = saved /\ slipped' = slipped) \/ saved' = {}  PROVE Tidy'
  BY <1>4 DEF Tidy, NoRows, EmptyRow
<1>5. CASE Save
  BY <1>5, TidySaved DEF Save, book
<1>6. CASE StopWrite
  BY <1>6, WritesWhatFits, TidySaved DEF StopWrite, book
<1>7. CASE Loaded
  BY <1>7 DEF Tidy, Loaded, book
<1>8. CASE StopLook \/ ReadPeer \/ StopDone \/ StopFails \/ UNCHANGED vars
  <2>1. UNCHANGED <<table, stage, saved, slipped>>
    BY <1>8 DEF StopLook, ReadPeer, StopDone, StopFails, vars, book
  <2> QED  BY <2>1 DEF Tidy, First, At
<1> QED  BY <1>1, <1>2, <1>3, <1>4, <1>5, <1>6, <1>7, <1>8
         DEF Next, ForgetAll, FactoryReset, Restart


LEMMA ReceiveStep ==
  ASSUME IInv, Tidy, NEW n \in Peers, NEW claim \in Claim, Receive(n, claim)
  PROVE  Promise!Next
<1> USE NodeDBOK
<1>1. PICK at \in Rows, row \in Row : Sighted(n, claim, at, row)
  BY ReceiveIs
<1>2. /\ stage = "up" /\ stage' = "up"
      /\ Listed(saved)' = Listed(saved) /\ Listed(left)' = Listed(left)
  BY NextLists DEF Receive
<1>3. /\ table \in [Rows -> Row] /\ names \in [Peers -> Names \cup {Absent}] /\ Apart(table)
      /\ Records = RecordsOf(table, names) /\ Records \in SUBSET Record /\ Aged(Records)
      /\ Cardinality(Records) = Cardinality(Occupied(table))
      /\ tick \in Nat /\ \A r \in Records : r.seen <= tick
  BY TableIs
<1> DEFINE base == IF Evicts(n) THEN EmptyRow ELSE table[at]
           S == Records
           l == Listed(S)
           old == RecOf(table, names, at)
           gone == IF table[at].num = Free THEN {} ELSE {old}
           new == [num |-> row.num, seen |-> row.seen, count |-> row.count, id |-> row.id,
                   name |-> names'[row.num]]
           told(e) == Promise!Told(e, claim.id, claim.name)
<1>4. /\ Has(table, n) => table[at].num = n
      /\ ~Has(table, n) /\ ~Full(table) => at \in First(At(table, Free)) /\ table[at].num = Free
      /\ Evicts(n) => at \in Oldest(table) /\ table[at].num \in Peers \ {n}
      /\ \A i \in Rows : i # at => table[i].num # n
      /\ row.num = n /\ row.seen = tick + 1 /\ row.count = Capped(base.count)
      /\ row.id = Said(base.id, claim.id)
      /\ table' = [table EXCEPT ![at] = row]
  BY <1>1 DEF Sighted
<1>5. /\ names' \in [Peers -> Names \cup {Absent}] /\ names'[n] = Said(names[n], claim.name)
      /\ \A m \in Peers \ {n} :
           names'[m] = IF Evicts(n) /\ m = table[at].num THEN Absent ELSE names[m]
  BY <1>1 DEF Sighted
<1> HIDE DEF base
<1>6. \A i \in Occupied(table) : i # at => names'[table[i].num] = names[table[i].num]
  <2> TAKE i \in Occupied(table)
  <2> HAVE i # at
  <2>1. i \in Rows /\ table[i].num \in Peers /\ table[i].num # n
    BY <1>3, <1>4 DEF Occupied, Row
  <2>2. Evicts(n) => table[i].num # table[at].num
    BY <1>3, <1>4 DEF Oldest, Apart
  <2> QED  BY <1>5, <2>1, <2>2
<1>7. Records' = (S \ gone) \cup {new}
  <2>1. RecordsOf([table EXCEPT ![at] = row], names') = (S \ gone) \cup {new}
    <3>1. NamesStay(table, names, at, names') /\ row.num \in Peers
      BY <1>4, <1>6 DEF NamesStay
    <3>2. OneWritten(table, names, at, row, names')
      BY <1>3, <3>1, Written
    <3> QED  BY <1>3, <3>2 DEF OneWritten
  <2> QED  BY <1>4, <2>1, NextRecords
<1>8. Listed(Records)' = Listed((S \ gone) \cup {new})
  BY <1>7, NextLists
<1>9. new \in Record /\ (\A q \in S : q.seen < new.seen)
      /\ Shown(new) = [num |-> n, count |-> Capped(base.count),
                       id |-> Said(base.id, claim.id), name |-> Said(names[n], claim.name)]
  <2>1. new \in Record
    BY <1>4, <1>5 DEF Row, Record
  <2>2. \A q \in S : q.seen \in Nat /\ q.seen <= tick
    BY <1>3 DEF Record
  <2>3. new.seen = tick + 1
    BY <1>4
  <2>4. Shown(new) = [num |-> n, count |-> Capped(base.count),
                      id |-> Said(base.id, claim.id), name |-> Said(names[n], claim.name)]
    BY <1>4, <1>5 DEF Shown
  <2> HIDE DEF new, S
  <2>5. \A q \in S : q.seen < new.seen
    BY <1>3, <2>2, <2>3
  <2> QED  BY <2>1, <2>4, <2>5
<1> HIDE DEF new
<1>10. /\ l \in Seq(Entries) /\ Len(l) = Cardinality(S) /\ Cardinality(S) \in Nat
       /\ \A i \in 1..Cardinality(S) : InOrder(S)[i] \in S /\ l[i] = Shown(InOrder(S)[i])
  BY <1>3, ListedIs
<1>11. \A r \in Record : \A x \in 0..CountMax : Shown(r).count = x => r.count = x
  BY DEF Shown
<1>12. DOMAIN l = 1..Cardinality(S)
  BY <1>10
<1>13. CASE Has(table, n)
  <2>1. table[at].num = n /\ n # Free /\ at \in Occupied(table) /\ base = table[at]
    BY <1>4, <1>13 DEF Occupied, Evicts, base
  <2>2. old \in S /\ gone = {old}
    BY <1>3, <2>1 DEF RecordsOf
  <2>3. PICK i \in 1..Cardinality(S) : InOrder(S)[i] = old
    BY <1>3, <2>2, LinedUp DEF InLine
  <2>4. /\ Aged(S \ {old}) /\ S \ {old} \in SUBSET Record
        /\ Listed(S \ {old}) = Promise!RemoveAt(l, i)
    BY <1>3, <2>3, TakeOut
  <2>5. Listed((S \ {old}) \cup {new}) = Append(Listed(S \ {old}), Shown(new))
    <3> DEFINE T == S \ {old}
    <3>1. \A q \in T : q.seen < new.seen
      BY <1>9
    <3> HIDE DEF T
    <3>2. Listed(T \cup {new}) = Append(Listed(T), Shown(new))
      BY <1>9, <2>4, <3>1, AddLast DEF T
    <3> QED  BY <3>2 DEF T
  <2>6. Shown(new) = told(l[i])
    <3>1. l[i] = [num |-> n, count |-> table[at].count, id |-> table[at].id, name |-> names[n]]
      BY <1>10, <2>1, <2>3 DEF Shown, RecOf
    <3> HIDE DEF l
    <3> QED  BY <1>9, <2>1, <3>1 DEF Promise!Told, Promise!Entry, Promise!Capped, Capped, Said
  <2>7. Listed(Records)' \in Promise!Moved(l)
    <3>1. Listed(Records)' = Append(Promise!RemoveAt(l, i), told(l[i]))
      BY <1>8, <2>2, <2>4, <2>5, <2>6
    <3> HIDE DEF l
    <3> QED  BY <1>12, <3>1 DEF Promise!Moved, Claim
  <2>8. Spare(table)' = Spare(table)
    <3>1. At(table', Free) = At(table, Free) /\ \A j \in At(table, Free) : table'[j] = table[j]
      BY <1>3, <1>4, <2>1 DEF At
    <3> QED  BY <3>1, SameSpare, NextLists
  <2> QED  BY <1>2, <2>7, <2>8 DEF Promise!Next, Promise!Again
<1>14. CASE ~Has(table, n)
  <2>1. names[n] = Absent /\ base.count = Spare(table) /\ base.id = Unset
    <3>1. names[n] = Absent
      BY <1>14 DEF IInv, NamesHaveRows
    <3>2. CASE Full(table)
      BY <1>14, <3>1, <3>2 DEF base, Evicts, EmptyRow, Spare
    <3>3. CASE ~Full(table)
      <4>1. base = table[at] /\ Spare(table) = table[at].count /\ table[at].num = Free
        BY <1>4, <1>14, <3>3, SpareIs DEF base, Evicts
      <4> QED  BY <3>1, <4>1 DEF Tidy
    <3> QED  BY <3>2, <3>3
  <2>7. Spare(table)' = 0
    <3>1. ASSUME NEW i \in First(At(table', Free))  PROVE table'[i].count = 0
      <4>1. /\ i \in Rows /\ table'[i] = table[i] /\ i # at
            /\ table[i].num = Free
        BY <1>3, <1>4, <3>1 DEF First, At
      <4>2. i \notin First(At(table, Free))
        <5>1. ~Full(table) /\ at \in First(At(table, Free))
          BY <1>4, <1>14, <4>1 DEF Full, At
        <5> QED  BY <4>1, <5>1, FirstOf
      <4> QED  BY <4>1, <4>2 DEF Tidy
    <3> QED  BY <3>1, NoSpare, NextLists
  <2>2. Shown(new) = told(Promise!Entry(n, Spare(table), Unset, Absent))
    BY <1>9, <2>1 DEF Promise!Told, Promise!Entry, Promise!Capped, Capped, Said
  <2>3. \A i \in DOMAIN l : l[i].num # n
    <3> TAKE i \in DOMAIN l
    <3>1. PICK j \in Occupied(table) : InOrder(S)[i] = RecOf(table, names, j)
      BY <1>3, <1>10, <1>12 DEF RecordsOf
    <3>2. l[i].num = table[j].num
      BY <1>10, <1>12, <3>1 DEF Shown, RecOf
    <3>3. table[j].num # n
      BY <1>14 DEF Has, At, Occupied
    <3> QED  BY <3>2, <3>3
  <2>6. ASSUME NEW rest, Listed(Records)' = Append(rest, Shown(new)),
               rest = IF Len(l) = Limit THEN Tail(l) ELSE l
        PROVE  Promise!Next
    <3>1. n \in Promise!Strangers(l)
      <4> HIDE DEF l
      <4> QED  BY <2>3 DEF Promise!Strangers
    <3>2. Listed(Records)' \in Promise!Joined(l, Spare(table))
      BY <2>2, <2>6, <3>1 DEF Promise!Joined, Claim
    <3> QED  BY <1>2, <2>7, <3>2 DEF Promise!Next, Promise!Meet
  <2>4. CASE ~Full(table)
    <3>1. table[at].num = Free /\ gone = {}
      BY <1>4, <1>14, <2>4
    <3>2. Len(l) # Limit
      <4>1. Occupied(table) \in SUBSET (Rows \ {at})
        BY <3>1 DEF Occupied
      <4>2. IsFiniteSet(Rows \ {at}) /\ Cardinality(Rows \ {at}) = Limit - 1
        BY FiniteRows, FS_RemoveElement
      <4>3. Cardinality(Occupied(table)) <= Limit - 1
        BY <4>1, <4>2, FS_Subset
      <4> QED  BY <1>3, <1>10, <4>3
    <3>3. Listed(S \cup {new}) = Append(l, Shown(new))
      BY <1>3, <1>9, AddLast
    <3>4. Listed(Records)' = Append(l, Shown(new))
      BY <1>8, <3>1, <3>3
    <3> QED  BY <2>6, <3>2, <3>4
  <2>5. CASE Full(table)
    <3>1. at \in Oldest(table) /\ at \in Occupied(table) /\ table[at].num # Free
      BY <1>4, <1>14, <2>5 DEF Evicts, Oldest, Occupied
    <3>2. Len(l) = Limit
      <4>1. Occupied(table) = Rows
        BY <2>5 DEF Full, At, Occupied
      <4> QED  BY <1>3, <1>10, <4>1, FiniteRows
    <3>3. old \in S /\ gone = {old} /\ \A q \in S : old.seen <= q.seen
      <4>1. old \in S /\ gone = {old}
        BY <1>3, <3>1 DEF RecordsOf
      <4>2. ASSUME NEW q \in S  PROVE old.seen <= q.seen
        <5>1. PICK j \in Occupied(table) : q = RecOf(table, names, j)
          BY <1>3 DEF RecordsOf
        <5>2. old.seen = table[at].seen /\ q.seen = table[j].seen
          BY <5>1 DEF RecOf
        <5>3. table[at].seen \in Nat /\ table[j].seen \in Nat
          BY <1>3 DEF Row, Occupied
        <5>4. table[at].seen < table[j].seen \/ table[at].seen = table[j].seen
          BY <3>1 DEF Oldest
        <5> HIDE DEF old
        <5> QED  BY <5>2, <5>3, <5>4
      <4> QED  BY <4>1, <4>2
    <3> HIDE DEF old
    <3>4. /\ Aged(S \ {old}) /\ S \ {old} \in SUBSET Record /\ Listed(S \ {old}) = Tail(l)
      BY <1>3, <3>3, TakeFirst
    <3>5. Listed((S \ {old}) \cup {new}) = Append(Tail(l), Shown(new))
      <4> DEFINE T == S \ {old}
      <4>1. \A q \in T : q.seen < new.seen
        BY <1>9
      <4> HIDE DEF T
      <4>2. Listed(T \cup {new}) = Append(Listed(T), Shown(new))
        BY <1>9, <3>4, <4>1, AddLast DEF T
      <4> QED  BY <3>4, <4>2 DEF T
    <3>6. Listed(Records)' = Append(Tail(l), Shown(new))
      BY <1>8, <3>3, <3>5
    <3> QED  BY <2>6, <3>2, <3>6
  <2> QED  BY <2>4, <2>5
<1> QED  BY <1>13, <1>14

\* A packet from node 0 is one from nobody.
LEMMA NobodyStep ==
  ASSUME IInv, Tidy, NEW claim \in Claim, Receive(Free, claim)
  PROVE  Promise!Next
<1> USE NodeDBOK
<1>1. PICK at \in Rows : Passed(at)
  BY NobodyIs
<1>2. /\ stage = "up" /\ stage' = "up"
      /\ Listed(saved)' = Listed(saved) /\ Listed(left)' = Listed(left)
  BY NextLists DEF Receive
<1>3. /\ table \in [Rows -> Row] /\ names \in [Peers -> Names \cup {Absent}] /\ Apart(table)
      /\ Records = RecordsOf(table, names) /\ Records \in SUBSET Record /\ Aged(Records)
      /\ Cardinality(Records) = Cardinality(Occupied(table))
  BY TableIs
<1> DEFINE base == IF Full(table) THEN EmptyRow ELSE table[at]
           row  == [num |-> Free, seen |-> tick + 1, count |-> Capped(base.count), id |-> base.id]
           S == Records
           l == Listed(S)
           old == RecOf(table, names, at)
<1>4. /\ IF Full(table) THEN at \in Oldest(table) /\ table[at].num \in Peers
                        ELSE at \in First(At(table, Free))
      /\ table' = [table EXCEPT ![at] = row]
      /\ names' = IF Full(table) THEN [names EXCEPT ![table[at].num] = Absent] ELSE names
  BY <1>1 DEF Passed
<1>5. row.num = Free /\ row.count = Capped(base.count)
  OBVIOUS
<1> HIDE DEF row
<1>6. \A i \in Rows : table'[i] = IF i = at THEN row ELSE table[i]
  BY <1>3, <1>4
<1>7. Spare(table)' = Capped(Spare(table))
  <2>1. at \in First(At(table', Free))
    <3>1. CASE Full(table)
      <4>1. At(table', Free) = {at}
        BY <1>5, <1>6, <3>1 DEF Full, At
      <4> QED  BY <4>1 DEF First, Rows
    <3>2. CASE ~Full(table)
      <4>1. At(table', Free) = At(table, Free)
        BY <1>4, <1>5, <1>6, <3>2 DEF First, At
      <4> QED  BY <1>4, <3>2, <4>1
    <3> QED  BY <3>1, <3>2
  <2>2. base.count = Spare(table)
    <3>1. CASE Full(table)
      BY <3>1 DEF Spare, EmptyRow
    <3>2. CASE ~Full(table)
      BY <1>4, <3>2, SpareIs
    <3> QED  BY <3>1, <3>2
  <2>3. Spare(table') = row.count
    BY <1>6, <2>1, SpareIs
  <2> QED  BY <1>5, <2>2, <2>3, NextLists
<1>8. l \in Seq(Entries) /\ Len(l) = Cardinality(S)
  BY <1>3, ListedIs
<1>9. Records' = {RecOf(table', names', i) : i \in Occupied(table')}
      /\ S = {RecOf(table, names, i) : i \in Occupied(table)}
  BY <1>3, NextRecords DEF RecordsOf
<1> HIDE DEF base
<1>10. CASE ~Full(table)
  <2>1. Occupied(table') = Occupied(table) /\ at \notin Occupied(table) /\ names' = names
    BY <1>4, <1>5, <1>6, <1>10 DEF First, At, Occupied
  <2>2. \A i \in Occupied(table) : RecOf(table', names', i) = RecOf(table, names, i)
    BY <1>6, <2>1 DEF RecOf, Occupied
  <2>3. Records' = S
    <3> HIDE DEF S
    <3> QED  BY <1>9, <2>1, <2>2
  <2>4. Len(l) # Limit
    <3>1. Occupied(table) \in SUBSET (Rows \ {at})
      BY <2>1 DEF Occupied
    <3>2. IsFiniteSet(Rows \ {at}) /\ Cardinality(Rows \ {at}) = Limit - 1
      BY FiniteRows, FS_RemoveElement
    <3>3. Cardinality(Occupied(table)) <= Limit - 1
      BY <3>1, <3>2, FS_Subset
    <3>4. Cardinality(Occupied(table)) \in Nat
      BY FiniteOccupied
    <3> QED  BY <1>3, <1>8, <3>3, <3>4
  <2>5. Listed(Records)' = l
    BY <2>3, NextLists
  <2> QED  BY <1>2, <1>7, <2>4, <2>5 DEF Promise!Next, Promise!Nobody, Promise!Capped, Capped
<1>11. CASE Full(table)
  <2>1. /\ at \in Oldest(table) /\ at \in Occupied(table) /\ table[at].num \in Peers
        /\ names' = [names EXCEPT ![table[at].num] = Absent]
    BY <1>4, <1>11 DEF Oldest
  <2>2. Occupied(table') = Occupied(table) \ {at}
    BY <1>5, <1>6 DEF Occupied
  <2>3. ASSUME NEW i \in Occupied(table), i # at
        PROVE  /\ RecOf(table', names', i) = RecOf(table, names, i)
               /\ RecOf(table, names, i) # old
    <3>1. i \in Rows /\ table'[i] = table[i] /\ table[i].num # table[at].num
      BY <1>3, <1>6, <2>1, <2>3 DEF Occupied, Apart
    <3>2. table[i].num \in Peers
      BY <1>3, <2>3 DEF Occupied, Row
    <3>3. names'[table[i].num] = names[table[i].num]
      BY <1>3, <2>1, <3>1, <3>2
    <3>4. RecOf(table, names, i) # old
      BY <1>3, <2>1, <2>3, RecordsSeen
    <3> QED  BY <3>1, <3>3, <3>4 DEF RecOf
  <2> HIDE DEF old
  <2>4. Records' = S \ {old}
    <3>1. Records' = {RecOf(table, names, i) : i \in Occupied(table) \ {at}}
      BY <1>9, <2>2, <2>3
    <3>2. {RecOf(table, names, i) : i \in Occupied(table)}
            = {RecOf(table, names, i) : i \in Occupied(table) \ {at}} \cup {old}
      BY <2>1 DEF old
    <3>3. old \notin {RecOf(table, names, i) : i \in Occupied(table) \ {at}}
      BY <2>3
    <3> QED  BY <1>9, <3>1, <3>2, <3>3
  <2>5. old \in S /\ \A q \in S : old.seen <= q.seen
    <3>1. old \in S
      BY <1>9, <2>1 DEF old
    <3>2. ASSUME NEW q \in S  PROVE old.seen <= q.seen
      <4>1. PICK j \in Occupied(table) : q = RecOf(table, names, j)
        BY <1>9
      <4>2. old.seen = table[at].seen /\ q.seen = table[j].seen
        BY <4>1 DEF RecOf, old
      <4>3. table[at].seen \in Nat /\ table[j].seen \in Nat
        BY <1>3 DEF Row, Occupied
      <4>4. table[at].seen < table[j].seen \/ table[at].seen = table[j].seen
        BY <2>1 DEF Oldest
      <4> QED  BY <4>2, <4>3, <4>4
    <3> QED  BY <3>1, <3>2
  <2>6. Listed(S \ {old}) = Tail(l)
    BY <1>3, <2>5, TakeFirst
  <2>7. Len(l) = Limit
    <3>1. Occupied(table) = Rows
      BY <1>11 DEF Full, At, Occupied
    <3> QED  BY <1>3, <1>8, <3>1, FiniteRows
  <2>8. Listed(Records)' = Tail(l)
    BY <2>4, <2>6, NextLists
  <2> QED  BY <1>2, <1>7, <2>7, <2>8 DEF Promise!Next, Promise!Nobody, Promise!Capped, Capped
<1> QED  BY <1>10, <1>11


LEMMA RestoreStep ==
  ASSUME IInv, Tidy, NEW r \in left, Restore(r), ~slipped
  PROVE  Promise!Next
<1> USE NodeDBOK
<1>1. /\ table \in [Rows -> Row] /\ names \in [Peers -> Names \cup {Absent}] /\ Apart(table)
      /\ Records = RecordsOf(table, names) /\ Records \in SUBSET Record /\ Aged(Records)
      /\ tick \in Nat /\ \A q \in Records : q.seen <= tick
  BY TableIs
<1>2. left \in SUBSET Record /\ Aged(left) /\ r \in Record
  BY FlashIs
<1>3. /\ stage = "loading" /\ stage' = stage /\ \A q \in left : r.seen <= q.seen
      /\ left' = left \ {r} /\ saved' = saved
  BY DEF Restore
<1>4. PICK at \in Rows : PutBack(r, at)
  BY RestoreIs, RestoreFits
<1> DEFINE row == [num |-> r.num, seen |-> tick + 1, count |-> r.count, id |-> r.id]
           S == Records
           new == [num |-> row.num, seen |-> row.seen, count |-> row.count, id |-> row.id,
                   name |-> names'[row.num]]
<1>5. /\ r.num \in Peers /\ ~Has(table, r.num) /\ row \in Row
      /\ names' \in [Peers -> Names \cup {Absent}]
      /\ names'[r.num] = r.name /\ \A m \in Peers \ {r.num} : names'[m] = names[m]
      /\ at \in First(At(table, Free)) /\ table' = [table EXCEPT ![at] = row]
  BY <1>4 DEF PutBack
<1>7. table[at].num = Free
  BY <1>5 DEF First, At
<1>8. row.num = r.num /\ row.seen = tick + 1 /\ row.count = r.count /\ row.id = r.id
  OBVIOUS
<1> HIDE DEF row
<1>9. NamesStay(table, names, at, names')
  <2>1. \A i \in Occupied(table) : table[i].num \in Peers /\ table[i].num # r.num
    BY <1>1, <1>5 DEF Occupied, Row, Has, At
  <2> QED  BY <1>5, <2>1 DEF NamesStay
<1>11. Records' = S \cup {new}
  <2>1. OneWritten(table, names, at, row, names')
    BY <1>1, <1>5, <1>8, <1>9, Written
  <2> QED  BY <1>1, <1>5, <1>7, <2>1, NextRecords DEF OneWritten
<1>12. new \in Record /\ Shown(new) = Shown(r) /\ \A q \in S : q.seen < new.seen
  <2>1. new = [num |-> r.num, seen |-> tick + 1, count |-> r.count, id |-> r.id, name |-> r.name]
    BY <1>5, <1>8
  <2>2. new \in Record /\ Shown(new) = Shown(r)
    BY <1>1, <1>2, <2>1 DEF Record, Shown
  <2>3. \A q \in S : q.seen \in Nat
    BY <1>1 DEF Record
  <2> QED  BY <1>1, <1>8, <2>2, <2>3
<1> HIDE DEF new
<1>13. Listed(Records)' = Append(Listed(Records), Shown(r))
  BY <1>1, <1>11, <1>12, AddLast, NextLists
<1>14. /\ Listed(left) # <<>> /\ Head(Listed(left)) = Shown(r)
       /\ Listed(left)' = Tail(Listed(left))
  BY <1>2, <1>3, TakeFirst, NextLists
<1>15. Listed(saved)' = Listed(saved)
  BY <1>3, NextLists
<1>16. Spare(table) = 0 /\ Spare(table') = 0
  <2>1. \A i \in Rows : table[i].num = Free => table[i].count = 0
    BY <1>3 DEF Tidy
  <2>2. \A i \in First(At(table, Free)) : i \in Rows /\ table[i].num = Free
    BY DEF First, At
  <2>3. \A i \in First(At(table', Free)) : i \in Rows /\ table[i].num = Free /\ table'[i] = table[i]
    <3>1. \A i \in Rows : table'[i] = IF i = at THEN row ELSE table[i]
      BY <1>1, <1>5
    <3> QED  BY <1>5, <1>8, <3>1 DEF First, At
  <2> QED  BY <2>1, <2>2, <2>3, NoSpare
<1>17. Promise!Recall
  BY <1>3, <1>13, <1>14, <1>15, <1>16, NextLists DEF Promise!Recall
<1> QED  BY <1>17 DEF Promise!Next

LEMMA SaveStep ==
  ASSUME IInv, stage = "up", UNCHANGED <<table, names, stage, left>>, saved' = Fitting(Records)
  PROVE  Promise!Next
<1> DEFINE S == Records
           n == Cardinality(S)
           l == Listed(S)
<1>1. S \in SUBSET Record /\ Aged(S)
  BY TableIs
<1>2. l \in Seq(Entries) /\ Len(l) = n /\ n \in Nat
  BY <1>1, ListedIs
<1>3. PICK k : Keeps(S, k)
  BY <1>1, NewestKept
<1>4. /\ k \in 1..(n + 1) /\ Fitting(S) = Part(S, k) /\ Weight(Part(S, k)) <= Room
      /\ k > 1 => Weight(Part(S, k - 1)) > Room
  BY <1>3 DEF Keeps
<1>5. ASSUME NEW j \in 1..(n + 1)
      PROVE  /\ Listed(Part(S, j)) = SubSeq(l, j, n)
             /\ Promise!Cost(SubSeq(l, j, n)) = Weight(Part(S, j))
  <2>1. /\ Part(S, j) \in SUBSET S /\ Aged(Part(S, j))
        /\ Listed(Part(S, j)) = SubSeq(l, j, n)
    BY <1>1, PartIs
  <2>2. Part(S, j) \in SUBSET Record
    BY <1>1, <2>1
  <2>3. Promise!Cost(Listed(Part(S, j))) = Weight(Part(S, j))
    BY <2>1, <2>2, CostIs
  <2> QED  BY <2>1, <2>3
<1>6. /\ stage = "up" /\ stage' = "up" /\ table' = table /\ names' = names
      /\ left' = left /\ saved' = Fitting(S)
  OBVIOUS
<1>7. /\ Listed(Records)' = l /\ Listed(left)' = Listed(left) /\ Listed(saved)' = SubSeq(l, k, n)
      /\ Spare(table)' = Spare(table)
  <2>1. Records' = Records
    BY <1>6, SameRecords
  <2>2. Listed(saved') = SubSeq(l, k, n)
    BY <1>4, <1>5, <1>6
  <2> QED  BY <1>6, <2>1, <2>2, NextLists
<1>8. k > 1 => Promise!Cost(SubSeq(l, k - 1, n)) > Room
  <2> SUFFICES ASSUME k > 1  PROVE Promise!Cost(SubSeq(l, k - 1, n)) > Room
    OBVIOUS
  <2>1. k - 1 \in 1..(n + 1)
    BY <1>2, <1>4
  <2> QED  BY <1>4, <1>5, <2>1
<1>9. Promise!Cost(SubSeq(l, k, n)) <= Room
  BY <1>4, <1>5
<1> HIDE DEF l, n
<1>10. Promise!Keep
  BY <1>2, <1>4, <1>6, <1>7, <1>8, <1>9 DEF Promise!Keep, l
<1> QED  BY <1>10 DEF Promise!Next

(* Whatever the rows and the ticks are, what a reader of the roster sees is *)
(* the promised list: who was heard longest ago makes room for a stranger,  *)
(* nobody's entry is another's, and a restart brings back, in order, the    *)
(* longest recent part that fitted (nodedb.py:200, meshcache.py:97).        *)
THEOREM KeepsItsPromise == Spec => RefinesRecent
<1> USE NodeDBOK
<1>1. Init => Tidy
  BY DEF Init, Tidy, NoRows, EmptyRow
<1>2. IInv /\ Tidy /\ [Next]_vars => Tidy'
  BY TidyNext
<1>3. Init => Promise!Init
  <2> SUFFICES ASSUME Init  PROVE Promise!Init
    OBVIOUS
  <2>1. Records = {} /\ saved = {} /\ left = {} /\ stage # "up"
    BY Emptied DEF Init, Records
  <2>2. Spare(table) = 0
    BY Nothing0 DEF Init
  <2> QED  BY <2>1, <2>2, NoneListed DEF Promise!Init
<1>4. IInv /\ Tidy /\ [Next]_vars => [slipped \/ slipped' \/ Promise!Next]_(Promise!vars)
  <2> SUFFICES ASSUME IInv, Tidy, [Next]_vars, ~slipped, ~slipped'
               PROVE  Promise!Next \/ UNCHANGED Promise!vars
    OBVIOUS
  <2>1. ASSUME NEW n \in Senders, NEW claim \in Claim, Receive(n, claim)  PROVE Promise!Next
    BY <2>1, ReceiveStep, NobodyStep
  <2>2. ASSUME NEW r \in left, Restore(r)  PROVE Promise!Next
    BY <2>2, RestoreStep
  <2>3. table' = NoRows => Listed(Records)' = <<>> /\ Spare(table)' = 0
    <3> SUFFICES ASSUME table' = NoRows  PROVE Listed(Records)' = <<>> /\ Spare(table)' = 0
      OBVIOUS
    <3>1. Records' = {}
      BY Emptied DEF Records
    <3> QED  BY <3>1, NoneListed, Nothing0, NextLists
  <2>4. CASE ForgetAll
    <3>1. Promise!Forget
      BY <2>3, <2>4, NextLists DEF ForgetAll, Promise!Forget
    <3> QED  BY <3>1 DEF Promise!Next
  <2>5. CASE FactoryReset
    <3>1. Promise!Erase
      BY <2>3, <2>5, NextLists, NoneListed DEF FactoryReset, Promise!Erase
    <3> QED  BY <3>1 DEF Promise!Next
  <2>6. CASE Restart
    <3>1. Promise!Reset
      BY <2>3, <2>6, NextLists DEF Restart, Promise!Reset
    <3> QED  BY <3>1 DEF Promise!Next
  <2>7. CASE Save
    BY <2>7, SaveStep DEF Save, book
  <2>8. CASE StopWrite
    <3>1. saved' = Fitting(Records)
      BY <2>8, WritesWhatFits
    <3>2. stage = "up"
      BY <2>8 DEF StopWrite, IInv, Settled
    <3> QED  BY <2>8, <3>1, <3>2, SaveStep DEF StopWrite, book
  <2>9. table' = table /\ names' = names =>
          Listed(Records)' = Listed(Records) /\ Spare(table)' = Spare(table)
    BY SameRecords, NextLists
  <2>10. CASE Loaded
    <3>1. Promise!Ready
      BY <2>9, <2>10, NextLists, NoneListed DEF Loaded, book, Promise!Ready
    <3> QED  BY <3>1 DEF Promise!Next
  <2>11. CASE StopLook \/ ReadPeer \/ StopDone \/ StopFails \/ UNCHANGED vars
    <3>1. UNCHANGED <<table, names, saved, left, stage>>
      BY <2>11 DEF StopLook, ReadPeer, StopDone, StopFails, vars, book
    <3> QED  BY <2>9, <3>1, NextLists DEF Promise!vars
  <2> QED  BY <2>1, <2>2, <2>4, <2>5, <2>6, <2>7, <2>8, <2>10, <2>11, NodeDBOK DEF Next
<1> QED  BY Inductive, <1>1, <1>2, <1>3, <1>4, PTL DEF Spec, RefinesRecent


-----------------------------------------------------------------------------
(* Frames.                                                                  *)

\* The flags of a header say what they were built from (header.rs:118).
THEOREM FlagsBack ==
  ASSUME NEW limit \in 0..7, NEW start \in 0..7, NEW ack \in BOOLEAN, NEW mqtt \in BOOLEAN
  PROVE  LET f == Flags(limit, ack, mqtt, start)
         IN /\ f \in Byte
            /\ HopLimit(f) = limit /\ HopStart(f) = start
            /\ WantAck(f) = ack /\ ViaMqtt(f) = mqtt
<1> DEFINE a == IF ack THEN 1 ELSE 0
           m == IF mqtt THEN 1 ELSE 0
           f == Flags(limit, ack, mqtt, start)
<1>1. f = limit + 8 * a + 16 * m + 32 * start
  BY DEF Flags, LeastOf, HopMax
<1>2. a \in 0..1 /\ m \in 0..1
  OBVIOUS
<1>3. \A l, s \in 0..7, x, y \in 0..1 :
        LET g == l + 8 * x + 16 * y + 32 * s
        IN /\ g \in 0..255
           /\ g % 8 = l /\ (g \div 8) % 2 = x /\ (g \div 16) % 2 = y /\ (g \div 32) % 8 = s
  OBVIOUS
<1> HIDE DEF f
<1>4. /\ f \in 0..255 /\ f % 8 = limit /\ (f \div 8) % 2 = a
      /\ (f \div 16) % 2 = m /\ (f \div 32) % 8 = start
  <2> HIDE DEF a, m
  <2>1. QED  BY <1>1, <1>2, <1>3
<1>5. QED  BY <1>4 DEF Byte, HopLimit, HopStart, WantAck, ViaMqtt, f

\* Two packets share a counter block only if they are one packet: of the same
\* sender and the same number (mesh_protocol.py:322).
THEOREM BlocksDiffer ==
  ASSUME NEW p \in Seq(Byte), NEW q \in Seq(Byte),
         Len(p) >= HeaderLen, Len(q) >= HeaderLen, Nonce(p) = Nonce(q)
  PROVE  \A i \in 5..12 : p[i] = q[i]
<1>1. \A i \in 1..16 : Nonce(p)[i] = Nonce(q)[i]
  OBVIOUS
<1>2. \A i \in 1..4 : p[8 + i] = q[8 + i]
  BY <1>1 DEF Nonce
<1>3. \A i \in 9..12 : p[i - 4] = q[i - 4]
  BY <1>1 DEF Nonce
<1>4. ASSUME NEW i \in 5..12  PROVE  p[i] = q[i]
  <2>1. CASE i \in 5..8
    <3>1. i + 4 \in 9..12 /\ (i + 4) - 4 = i  BY <2>1
    <3>2. QED  BY <1>3, <3>1
  <2>2. CASE i \in 9..12
    <3>1. i - 8 \in 1..4 /\ 8 + (i - 8) = i  BY <2>2
    <3>2. QED  BY <1>2, <3>1
  <2>3. QED  BY <2>1, <2>2
<1>5. QED  BY <1>4

\* A header that a relay has changed, but for who sent the packet and its
\* number, opens it as the sender's own does (mesh_protocol.py:337).
THEOREM RelayOpens ==
  ASSUME NEW sent \in Seq(Byte), NEW heard \in Seq(Byte), NEW body \in Seq(Byte), NEW key,
         \A i \in 5..12 : heard[i] = sent[i],
         \A x, y \in Byte : Xor(x, y) \in Byte /\ Xor(Xor(x, y), y) = x,
         \A k, n, i : Stream(k, n)[i] \in Byte
  PROVE  Crypt(heard, Crypt(sent, body, key), key) = body
<1>1. Nonce(heard) = Nonce(sent)
  <2>1. \A i \in 1..4 : heard[8 + i] = sent[8 + i]  BY SMTT(30)
  <2>2. \A i \in 9..12 : heard[i - 4] = sent[i - 4]  BY SMTT(30)
  <2>3. QED  BY <2>1, <2>2 DEF Nonce
<1>2. CASE key = <<>>
  BY <1>2 DEF Crypt
<1>3. CASE key # <<>>
  <2> DEFINE pad(i) == Stream(key, Nonce(sent))[i]
             sealed == [i \in DOMAIN body |-> Xor(body[i], pad(i))]
             opened == [i \in DOMAIN sealed |-> Xor(sealed[i], pad(i))]
  <2>1. Crypt(sent, body, key) = sealed  BY <1>3 DEF Crypt
  <2>2. Crypt(heard, sealed, key) = opened  BY <1>1, <1>3 DEF Crypt
  <2>3. \A i \in DOMAIN body : opened[i] = body[i]
    <3>1. \A i \in DOMAIN body : body[i] \in Byte /\ pad(i) \in Byte  OBVIOUS
    <3>2. \A i \in DOMAIN body : opened[i] = Xor(Xor(body[i], pad(i)), pad(i))  OBVIOUS
    <3> HIDE DEF pad, opened
    <3>3. QED  BY <3>1, <3>2
  <2>4. opened = [i \in DOMAIN body |-> opened[i]] /\ body = [i \in DOMAIN body |-> body[i]]
    OBVIOUS
  <2> HIDE DEF opened, sealed
  <2>5. QED  BY <2>1, <2>2, <2>3, <2>4
<1>4. QED  BY <1>2, <1>3

-----------------------------------------------------------------------------
(* Coarse positions.                                                       *)

\* A number is so many sides, and a part of one.
LEMMA Divided ==
  ASSUME NEW x \in Int, NEW side \in Nat \ {0}
  PROVE  /\ x \div side \in Int
         /\ x % side \in 0..(side - 1)
         /\ x = side * (x \div side) + (x % side)
OBVIOUS

\* A part of a side is none of them.
LEMMA WholeSides ==
  ASSUME NEW n \in Int, NEW m \in Int, NEW side \in Nat \ {0}, NEW part \in 0..(side - 1),
         NEW other \in 0..(side - 1), side * n + part = side * m + other
  PROVE  n = m
<1>1. side * (n - m) = other - part  OBVIOUS
<1>2. n - m \in Int  OBVIOUS
<1>3. CASE n - m >= 1
  <2>1. side * (n - m) >= side  BY <1>3, <1>2
  <2> QED  BY <2>1, <1>1
<1>4. CASE n - m <= -1
  <2>1. side * (n - m) <= -side  BY <1>4, <1>2
  <2> QED  BY <2>1, <1>1
<1> QED  BY <1>2, <1>3, <1>4

\* The centre of a square, and that half a side is a part of one.
LEMMA Half == ASSUME NEW side \in Nat \ {0} PROVE side \div 2 \in 0..(side - 1)
OBVIOUS

LEMMA CentreIs ==
  ASSUME NEW x \in Int, NEW side \in Nat \ {0}
  PROVE  CentreOf(x, side) = side * (x \div side) + (side \div 2)
<1> DEFINE n == x \div side
           part == x % side
           half == side \div 2
<1>1. /\ n \in Int /\ part \in 0..(side - 1) /\ half \in 0..(side - 1)
      /\ x = side * n + part
  BY Divided, Half
<1>2. side * n \in Int  BY <1>1
<1>3. CentreOf(x, side) = x - part + half  BY DEF CentreOf
<1> HIDE DEF n, part, half
<1>4. x - part + half = side * n + half  BY <1>1, <1>2
<1> QED  BY <1>3, <1>4 DEF n, half

\* However coarse the squares are, a node's statement is that of every place in
\* its square and of no other, so that it does not tell where it is in it.
THEOREM SquareAlone ==
  \A side \in Nat \ {0} : \A x, y \in Int : OneSquare(x, y, side)
<1> SUFFICES ASSUME NEW side \in Nat \ {0}, NEW x \in Int, NEW y \in Int
             PROVE  OneSquare(x, y, side)
  OBVIOUS
<1> DEFINE n == x \div side
           m == y \div side
           half == side \div 2
<1>1. n \in Int /\ m \in Int  BY Divided
<1>2. half \in 0..(side - 1)  BY Half
<1>3. CentreOf(x, side) = side * n + half /\ CentreOf(y, side) = side * m + half  BY CentreIs
<1> HIDE DEF n, m, half
<1>4. side * n + half = side * m + half => n = m  BY <1>1, <1>2, WholeSides
<1>5. n = m => side * n + half = side * m + half  OBVIOUS
<1> QED  BY <1>3, <1>4, <1>5 DEF OneSquare, n, m

\* And it is never farther from the truth than half a side, nor in another square.
THEOREM NearTheTruth ==
  \A side \in Nat \ {0} : \A x \in Int : Centred(x, side)
<1> SUFFICES ASSUME NEW side \in Nat \ {0}, NEW x \in Int
             PROVE  Centred(x, side)
  OBVIOUS
<1> DEFINE c == CentreOf(x, side)
           n == x \div side
           half == side \div 2
           part == x % side
           there == c \div side
<1>1. /\ n \in Int /\ part \in 0..(side - 1) /\ half \in 0..(side - 1)
      /\ x = side * n + part
  BY Divided, Half
<1>2. c = side * n + half  BY CentreIs
<1>3. c = x - part + half  BY DEF CentreOf
<1>4. c \in Int  BY <1>1, <1>3
<1>5. /\ there \in Int /\ c % side \in 0..(side - 1)
      /\ c = side * there + (c % side)
  BY <1>4, Divided
<1> HIDE DEF c, n, half, part, there
<1>6. there = n
  <2>1. side * there + (c % side) = side * n + half  BY <1>2, <1>5
  <2> QED  BY <2>1, <1>1, <1>5, WholeSides
<1>7. c - x <= half /\ x - c < side - half  BY <1>1, <1>3, <1>4
<1> QED  BY <1>6, <1>7 DEF Centred, c, half, there, n

=============================================================================
