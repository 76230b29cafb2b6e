------------------------- MODULE InboxArena_proofs -------------------------
(***************************************************************************)
(* Theorems about InboxArena for every arena, limit and set of texts.      *)
(***************************************************************************)
EXTENDS InboxArena, SequenceTheorems, FiniteSetTheorems, WellFoundedInduction, TLAPS

-----------------------------------------------------------------------------
(* Folds over finite sets, and sums.  The library's theorems on induction take *)
(* a predicate; that a proper subset is smaller, and that every nonempty set   *)
(* of numbers has a least element, do without one.                             *)

LEMMA Least ==
  ASSUME NEW S \in SUBSET Nat, S # {}
  PROVE  \E n \in S : \A m \in S : n <= m
<1> DEFINE R == {ss \in Nat \X Nat : ss[1] < ss[2]}
<1>1. IsWellFoundedOn(R, Nat)
  BY NatLessThanWellFounded DEF OpToRel
<1>2. \A x, y \in Nat : <<y, x>> \in R <=> y < x
  OBVIOUS
<1> HIDE DEF R
<1>3. PICK n \in S : \A m \in S : ~(<<m, n>> \in R)
  BY <1>1, WFMin
<1>4. \A m \in S : ~(m < n)
  <2> TAKE m \in S
  <2>1. m \in Nat /\ n \in Nat /\ ~(<<m, n>> \in R)
    BY <1>3
  <2> QED  BY <1>2, <2>1
<1> QED  BY <1>4

\* What holds of a set when it holds of its proper subsets holds of them all.
LEMMA SubsetInduction ==
  ASSUME NEW S, IsFiniteSet(S), NEW X,
         \A T \in SUBSET S : (\A U \in SUBSET T : U # T => U \in X) => T \in X
  PROVE  SUBSET S \subseteq X
<1> DEFINE Z == (SUBSET S) \ X
           C == {Cardinality(T) : T \in Z}
<1> SUFFICES ASSUME Z # {}  PROVE FALSE
  OBVIOUS
<1>1. \A T \in SUBSET S : IsFiniteSet(T) /\ Cardinality(T) \in Nat
  BY FS_Subset, FS_CardinalityType
<1>2. C \in SUBSET Nat /\ C # {}
  BY <1>1
<1> HIDE DEF C
<1>3. PICK n \in C : \A k \in C : n <= k
  BY <1>2, Least
<1>4. PICK T \in Z : n = Cardinality(T)
  BY DEF C
<1>5. \A U \in SUBSET T : U # T => U \in X
  <2> SUFFICES ASSUME NEW U \in SUBSET T, U # T, U \notin X  PROVE FALSE
    OBVIOUS
  <2>1. U \in Z /\ IsFiniteSet(T)
    BY <1>1
  <2>2. Cardinality(U) \in C /\ Cardinality(U) \in Nat /\ Cardinality(T) \in Nat
    BY <1>1, <2>1 DEF C
  <2>3. Cardinality(U) <= Cardinality(T) /\ (Cardinality(T) = Cardinality(U) => T = U)
    BY <2>1, FS_Subset
  <2>4. Cardinality(T) <= Cardinality(U)
    BY <1>3, <1>4, <2>2
  <2> QED  BY <2>2, <2>3, <2>4
<1> QED  BY <1>5

\* The member a fold takes next.
Pick(T) == CHOOSE x \in T : TRUE

LEMMA PickIs ==
  ASSUME NEW T, T # {}
  PROVE  Pick(T) \in T /\ T \ {Pick(T)} \in SUBSET T /\ T \ {Pick(T)} # T
  BY DEF Pick

\* A function of the subsets of a finite set is defined by its value for none and
\* by what one member more makes of it.
Folded(g, S, V, a, f) ==
  /\ g \in [SUBSET S -> V]
  /\ g[{}] = a
  /\ \A T \in SUBSET S : T # {} => g[T] = f[<<Pick(T), g[T \ {Pick(T)}]>>]

LEMMA Folding ==
  ASSUME NEW S, IsFiniteSet(S), NEW V, NEW a \in V, NEW f \in [S \X V -> V]
  PROVE  \E g : Folded(g, S, V, a, f)
<1> DEFINE From(g, T) == IF T = {} THEN a ELSE f[<<Pick(T), g[T \ {Pick(T)}]>>]
           Good(g, n) == \A T \in SUBSET S : Cardinality(T) <= n => g[T] = From(g, T)
           W == [SUBSET S -> V]
           X == {n \in Nat : \E g \in W : Good(g, n)}
<1>1. \A T \in SUBSET S : IsFiniteSet(T) /\ Cardinality(T) \in Nat /\ (Cardinality(T) = 0 <=> T = {})
  BY FS_Subset, FS_CardinalityType, FS_EmptySet
<1>2. \A T \in SUBSET S : T # {} =>
         /\ Pick(T) \in S /\ T \ {Pick(T)} \in SUBSET S
         /\ Cardinality(T \ {Pick(T)}) = Cardinality(T) - 1
  <2> TAKE T \in SUBSET S
  <2> HAVE T # {}
  <2>1. Pick(T) \in T
    BY PickIs
  <2> QED  BY <1>1, <2>1, FS_RemoveElement
<1>3. \A g \in W, T \in SUBSET S : From(g, T) \in V
  <2> TAKE g \in W, T \in SUBSET S
  <2>1. CASE T = {}
    BY <2>1
  <2>2. CASE T # {}
    <3>1. <<Pick(T), g[T \ {Pick(T)}]>> \in S \X V
      BY <1>2, <2>2
    <3> QED  BY <2>2, <3>1
  <2> QED  BY <2>1, <2>2
<1>4. 0 \in X
  <2> DEFINE g == [T \in SUBSET S |-> a]
  <2>1. g \in W
    OBVIOUS
  <2>2. \A T \in SUBSET S : Cardinality(T) <= 0 => g[T] = From(g, T)
    BY <1>1
  <2> HIDE DEF g
  <2> QED  BY <2>1, <2>2
<1>5. ASSUME NEW n \in Nat, NEW g \in W, Good(g, n)
      PROVE  \E h \in W : Good(h, n + 1)
  <2> DEFINE h == [T \in SUBSET S |-> From(g, T)]
  <2>1. h \in W
    BY <1>3
  <2>2. ASSUME NEW T \in SUBSET S, Cardinality(T) <= n + 1
        PROVE  h[T] = From(h, T)
    <3>1. CASE T = {}
      BY <3>1
    <3>2. CASE T # {}
      <4> DEFINE U == T \ {Pick(T)}
      <4>1. U \in SUBSET S /\ Cardinality(U) <= n
        BY <1>1, <1>2, <2>2, <3>2
      <4>2. h[U] = From(g, U) /\ g[U] = From(g, U)
        BY <1>5, <4>1
      <4>3. h[T] = f[<<Pick(T), g[U]>>]
        BY <3>2
      <4> HIDE DEF h
      <4> QED  BY <3>2, <4>2, <4>3
    <3> QED  BY <3>1, <3>2
  <2> HIDE DEF h
  <2> QED  BY <2>1, <2>2
<1>6. \A n \in Nat : n \in X => n + 1 \in X
  <2> HIDE DEF Good, W
  <2> QED  BY <1>5
<1>7. Cardinality(S) \in X
  <2> HIDE DEF X
  <2> SUFFICES ASSUME Nat \ X # {}  PROVE FALSE
    BY <1>1
  <2>1. PICK n \in Nat \ X : \A m \in Nat \ X : n <= m
    BY Least
  <2>2. n # 0 /\ n - 1 \in Nat /\ (n - 1) + 1 = n
    BY <1>4, <2>1
  <2>3. n - 1 \in X
    BY <2>1, <2>2
  <2> QED  BY <1>6, <2>1, <2>2, <2>3
<1>8. PICK g \in W : Good(g, Cardinality(S))
  BY <1>7
<1>9. \A T \in SUBSET S : g[T] = From(g, T)
  <2> TAKE T \in SUBSET S
  <2>1. Cardinality(T) <= Cardinality(S)
    BY FS_Subset
  <2> QED  BY <1>8, <2>1
<1> HIDE DEF Good
<1> QED  BY <1>9 DEF Folded

\* Two members may be taken in either order.
Commutes(f, S, V) ==
  \A x, y \in S, v \in V : f[<<x, f[<<y, v>>]>>] = f[<<y, f[<<x, v>>]>>]

\* Any member may be taken first.
AnyFirst(g, S, f) ==
  \A T \in SUBSET S : \A x \in S : x \in T => g[T] = f[<<x, g[T \ {x}]>>]

LEMMA AnyOrder ==
  ASSUME NEW S, IsFiniteSet(S), NEW V, NEW a \in V, NEW f \in [S \X V -> V],
         NEW g, Folded(g, S, V, a, f),
         Commutes(f, S, V)
  PROVE  AnyFirst(g, S, f)
<1> DEFINE X == {T \in SUBSET S : \A x \in T : g[T] = f[<<x, g[T \ {x}]>>]}
<1>1. /\ \A T \in SUBSET S : g[T] \in V
      /\ \A T \in SUBSET S : T # {} => g[T] = f[<<Pick(T), g[T \ {Pick(T)}]>>]
  BY DEF Folded
<1>2. ASSUME NEW T \in SUBSET S, \A U \in SUBSET T : U # T => U \in X
      PROVE  T \in X
  <2> SUFFICES ASSUME NEW x \in T  PROVE g[T] = f[<<x, g[T \ {x}]>>]
    OBVIOUS
  <2> DEFINE p == Pick(T)
  <2>1. p \in T /\ g[T] = f[<<p, g[T \ {p}]>>]
    BY <1>1, PickIs
  <2> HIDE DEF p
  <2>2. CASE x = p
    BY <2>1, <2>2
  <2>3. CASE x # p
    <3> DEFINE Y == (T \ {p}) \ {x}
    <3>1. /\ T \ {p} \in SUBSET T /\ T \ {p} # T /\ x \in T \ {p}
          /\ T \ {x} \in SUBSET T /\ T \ {x} # T /\ p \in T \ {x}
          /\ (T \ {x}) \ {p} = Y /\ Y \in SUBSET S
      BY <2>1, <2>3
    <3>2. T \ {p} \in X /\ T \ {x} \in X
      BY <1>2, <3>1
    <3>3. g[T \ {p}] = f[<<x, g[Y]>>] /\ g[T \ {x}] = f[<<p, g[Y]>>]
      <4>1. \A U \in X : \A z \in U : g[U] = f[<<z, g[U \ {z}]>>]
        OBVIOUS
      <4> DEFINE P == T \ {p}
                 Q == T \ {x}
      <4>2. P \in X /\ Q \in X /\ x \in P /\ p \in Q /\ P \ {x} = Y /\ Q \ {p} = Y
        BY <3>1, <3>2
      <4> HIDE DEF X, P, Q, Y
      <4>3. g[P] = f[<<x, g[P \ {x}]>>] /\ g[Q] = f[<<p, g[Q \ {p}]>>]
        BY <4>1, <4>2
      <4>4. g[P] = f[<<x, g[Y]>>] /\ g[Q] = f[<<p, g[Y]>>]
        BY <4>2, <4>3
      <4> QED  BY <4>4 DEF P, Q
    <3>4. f[<<p, f[<<x, g[Y]>>]>>] = f[<<x, f[<<p, g[Y]>>]>>]
      <4>1. p \in S /\ x \in S /\ g[Y] \in V
        BY <1>1, <2>1, <3>1
      <4> HIDE DEF Y
      <4> QED  BY <4>1 DEF Commutes
    <3> QED  BY <2>1, <3>3, <3>4
  <2> QED  BY <2>2, <2>3
<1> HIDE DEF X
<1>3. SUBSET S \subseteq X
  BY <1>2, SubsetInduction
<1>4. ASSUME NEW T \in SUBSET S, NEW x \in S, x \in T
      PROVE  g[T] = f[<<x, g[T \ {x}]>>]
  <2>1. T \in X
    BY <1>3
  <2> QED  BY <1>4, <2>1 DEF X
<1> QED  BY <1>4, Zenon DEF AnyFirst

\* What a sum over the subsets of S is, a member at a time, with e for each.
Summed(g, c, e, S) ==
  /\ g \in [SUBSET S -> Nat]
  /\ g[{}] = 0
  /\ \A T \in SUBSET S : \A x \in S : x \in T => g[T] = g[T \ {x}] + e + c[x]

\* What a fold that adds c's values, and e for each, is.
Adding(g, c, e, S) ==
  g = [T \in SUBSET S |-> IF T = {} THEN 0 ELSE g[T \ {Pick(T)}] + e + c[Pick(T)]]

LEMMA AddingIs ==
  ASSUME NEW S, IsFiniteSet(S), NEW c, \A x \in S : c[x] \in Nat, NEW e \in Nat
  PROVE  \E g : Summed(g, c, e, S) /\ Adding(g, c, e, S)
<1> DEFINE f == [p \in S \X Nat |-> p[2] + e + c[p[1]]]
<1>1. f \in [S \X Nat -> Nat] /\ \A x \in S, v \in Nat : f[<<x, v>>] = v + e + c[x]
  OBVIOUS
<1> HIDE DEF f
<1>2. PICK g : Folded(g, S, Nat, 0, f)
  BY <1>1, Folding
<1>3. /\ g \in [SUBSET S -> Nat] /\ g[{}] = 0
      /\ \A T \in SUBSET S : T # {} => g[T] = f[<<Pick(T), g[T \ {Pick(T)}]>>]
  BY <1>2 DEF Folded
<1>4. \A T \in SUBSET S : T # {} => g[T] = g[T \ {Pick(T)}] + e + c[Pick(T)]
  <2> TAKE T \in SUBSET S
  <2> HAVE T # {}
  <2>1. Pick(T) \in S /\ T \ {Pick(T)} \in SUBSET S
    BY PickIs
  <2>2. g[T \ {Pick(T)}] \in Nat
    BY <1>3, <2>1
  <2>3. g[T] = f[<<Pick(T), g[T \ {Pick(T)}]>>]
    BY <1>3
  <2>4. f[<<Pick(T), g[T \ {Pick(T)}]>>] = g[T \ {Pick(T)}] + e + c[Pick(T)]
    BY <1>1, <2>1, <2>2
  <2> QED  BY <2>3, <2>4
<1>5. Adding(g, c, e, S)
  BY <1>3, <1>4 DEF Adding
<1>6. AnyFirst(g, S, f)
  <2>1. \A x, y \in S, v \in Nat : f[<<x, f[<<y, v>>]>>] = f[<<y, f[<<x, v>>]>>]
    <3> TAKE x, y \in S, v \in Nat
    <3>1. v + e + c[x] \in Nat /\ v + e + c[y] \in Nat /\ c[x] \in Nat /\ c[y] \in Nat
      OBVIOUS
    <3>2. /\ f[<<x, v>>] = v + e + c[x] /\ f[<<y, v>>] = v + e + c[y]
          /\ f[<<x, v + e + c[y]>>] = (v + e + c[y]) + e + c[x]
          /\ f[<<y, v + e + c[x]>>] = (v + e + c[x]) + e + c[y]
      BY <1>1, <3>1
    <3> QED  BY <3>1, <3>2
  <2>2. Commutes(f, S, Nat)
    BY <2>1 DEF Commutes
  <2>3. 0 \in Nat
    OBVIOUS
  <2> QED  BY ONLY <1>1, <1>2, <2>2, <2>3, IsFiniteSet(S), AnyOrder
<1>7. Summed(g, c, e, S)
  <2>1. ASSUME NEW T \in SUBSET S, NEW x \in S, x \in T
        PROVE  g[T] = g[T \ {x}] + e + c[x]
    <3>1. g[T \ {x}] \in Nat
      BY <1>3
    <3>2. g[T] = f[<<x, g[T \ {x}]>>]
      BY <1>6, <2>1 DEF AnyFirst
    <3>3. f[<<x, g[T \ {x}]>>] = g[T \ {x}] + e + c[x]
      BY <1>1, <3>1
    <3> QED  BY <3>2, <3>3
  <2> QED  BY <1>3, <2>1 DEF Summed
<1> QED  BY <1>5, <1>7

LEMMA AddingOnce ==
  ASSUME NEW S, IsFiniteSet(S), NEW c, NEW e, NEW g, Adding(g, c, e, S), NEW h, Adding(h, c, e, S)
  PROVE  g = h
<1> DEFINE X == {T \in SUBSET S : h[T] = g[T]}
<1>1. /\ \A T \in SUBSET S : g[T] = IF T = {} THEN 0 ELSE g[T \ {Pick(T)}] + e + c[Pick(T)]
      /\ \A T \in SUBSET S : h[T] = IF T = {} THEN 0 ELSE h[T \ {Pick(T)}] + e + c[Pick(T)]
      /\ g = [T \in SUBSET S |-> g[T]] /\ h = [T \in SUBSET S |-> h[T]]
  BY DEF Adding
<1>2. ASSUME NEW T \in SUBSET S, \A U \in SUBSET T : U # T => U \in X
      PROVE  T \in X
  <2>1. CASE T = {}
    BY <1>1, <2>1
  <2>2. CASE T # {}
    <3> DEFINE U == T \ {Pick(T)}
    <3>1. U \in SUBSET T /\ U # T
      BY <2>2, PickIs
    <3>2. U \in X
      BY <1>2, <3>1
    <3>3. h[U] = g[U]
      BY <3>2
    <3> QED  BY <1>1, <2>2, <3>3
  <2> QED  BY <2>1, <2>2
<1> HIDE DEF X
<1>3. SUBSET S \subseteq X
  BY <1>2, SubsetInduction
<1>4. \A T \in SUBSET S : h[T] = g[T]
  BY <1>3 DEF X
<1> QED  BY <1>1, <1>4

\* p is what w's values, and e for each, come to one after another.
Running(p, w, e, n) ==
  /\ p \in [0..n -> Nat] /\ p[0] = 0
  /\ \A i \in 1..n : w[i] \in Nat /\ p[i] = p[i - 1] + e + w[i]

\* The fold over a sequence ends where the running sum does.
LEMMA FoldRuns ==
  ASSUME NEW n \in Nat, NEW w, NEW e \in Nat, NEW p, Running(p, w, e, n)
  PROVE  \E g : Adding(g, w, e, 1..n) /\ g[1..n] = p[n]
<1> DEFINE S == 1..n
<1>1. IsFiniteSet(S)
  BY FS_Interval
<1>2. PICK g : Summed(g, w, e, S) /\ Adding(g, w, e, S)
  <2>1. \A x \in S : w[x] \in Nat
    BY DEF Running
  <2> HIDE DEF S
  <2> QED  BY <1>1, <2>1, AddingIs
<1> DEFINE Bad == {k \in 0..n : g[1..k] # p[k]}
<1>3. Bad = {}
  <2> SUFFICES ASSUME Bad # {}  PROVE FALSE
    OBVIOUS
  <2>1. Bad \in SUBSET Nat
    OBVIOUS
  <2> HIDE DEF Bad
  <2>2. PICK k \in Bad : \A m \in Bad : k <= m
    BY <2>1, Least
  <2>3. k \in 0..n /\ g[1..k] # p[k]
    BY DEF Bad
  <2>4. k # 0
    <3>1. 1..0 = {}
      OBVIOUS
    <3> QED  BY <1>2, <2>3, <3>1 DEF Summed, Running
  <2>5. g[1..(k - 1)] = p[k - 1]
    <3>1. k - 1 \in 0..n /\ k - 1 \notin Bad
      BY <2>2, <2>3, <2>4
    <3> QED  BY <3>1 DEF Bad
  <2>6. g[1..k] = g[1..(k - 1)] + e + w[k]
    <3> DEFINE T == 1..k
    <3>1. T \in SUBSET S /\ k \in T /\ k \in S /\ T \ {k} = 1..(k - 1)
      BY <2>3, <2>4
    <3> HIDE DEF T, S
    <3>2. g[T] = g[T \ {k}] + e + w[k]
      BY <1>2, <3>1 DEF Summed
    <3> QED  BY <3>1, <3>2 DEF T
  <2>7. p[k] = p[k - 1] + e + w[k]
    BY <2>3, <2>4 DEF Running
  <2> QED  BY <2>3, <2>5, <2>6, <2>7
<1>4. g[1..n] = p[n]
  <2>1. n \in 0..n
    OBVIOUS
  <2> QED  BY <1>3, <2>1
<1> QED  BY <1>2, <1>4

\* p is the running cost of messages.
CostRuns(p, ms, each) ==
  Running(p, [i \in 1..Len(ms) |-> Len(ms[i].text)], each, Len(ms))

\* What messages cost is where their running cost ends.
LEMMA CostIs ==
  ASSUME NEW ms, DOMAIN ms = 1..Len(ms), Len(ms) \in Nat, NEW each \in Nat,
         NEW p, CostRuns(p, ms, each)
  PROVE  Cost(ms, each) = p[Len(ms)]
<1> DEFINE D == DOMAIN ms
           w == [i \in D |-> Len(ms[i].text)]
<1>1. Running(p, w, each, Len(ms))
  BY DEF CostRuns
<1> HIDE DEF w
<1>2. PICK g : Adding(g, w, each, D) /\ g[D] = p[Len(ms)]
  BY <1>1, FoldRuns
<1> DEFINE h == CHOOSE h : h = [s \in SUBSET D |->
                   IF s = {} THEN 0 ELSE h[s \ {Pick(s)}] + each + Len(ms[Pick(s)].text)]
<1>3. Cost(ms, each) = h[D]
  BY DEF Cost, FoldSeq, FoldFunction, FoldFunctionOnSet, MapThenFoldSet, Pick
<1>4. \A s \in SUBSET D : s # {} => w[Pick(s)] = Len(ms[Pick(s)].text)
  <2> TAKE s \in SUBSET D
  <2> HAVE s # {}
  <2>1. Pick(s) \in D
    BY PickIs
  <2> QED  BY <2>1 DEF w
<1> HIDE DEF D
<1>5. g = [s \in SUBSET D |->
             IF s = {} THEN 0 ELSE g[s \ {Pick(s)}] + each + Len(ms[Pick(s)].text)]
  BY <1>2, <1>4 DEF Adding
<1>6. h = [s \in SUBSET D |->
             IF s = {} THEN 0 ELSE h[s \ {Pick(s)}] + each + Len(ms[Pick(s)].text)]
  BY <1>5
<1> HIDE DEF h
<1>7. Adding(h, w, each, D)
  BY <1>4, <1>6 DEF Adding
<1>8. IsFiniteSet(D)
  BY FS_Interval DEF D
<1>9. g = h
  BY ONLY <1>2, <1>7, <1>8, AddingOnce
<1> QED  BY <1>2, <1>3, <1>9

\* So with what the views of a save have spent.
LEMMA SpentIs ==
  ASSUME NEW vs, DOMAIN vs = 1..Len(vs), Len(vs) \in Nat, Overhead \in Nat, NEW p,
         Running(p, [i \in 1..Len(vs) |-> vs[i].take], Overhead, Len(vs))
  PROVE  Spent(vs) = p[Len(vs)]
<1> DEFINE D == DOMAIN vs
           w == [i \in D |-> vs[i].take]
<1>1. Running(p, w, Overhead, Len(vs))
  OBVIOUS
<1> HIDE DEF w
<1>2. PICK g : Adding(g, w, Overhead, D) /\ g[D] = p[Len(vs)]
  BY <1>1, FoldRuns
<1> DEFINE h == CHOOSE h : h = [s \in SUBSET D |->
                   IF s = {} THEN 0 ELSE h[s \ {Pick(s)}] + Overhead + vs[Pick(s)].take]
<1>3. Spent(vs) = h[D]
  BY DEF Spent, FoldSeq, FoldFunction, FoldFunctionOnSet, MapThenFoldSet, Pick
<1>4. \A s \in SUBSET D : s # {} => w[Pick(s)] = vs[Pick(s)].take
  <2> TAKE s \in SUBSET D
  <2> HAVE s # {}
  <2>1. Pick(s) \in D
    BY PickIs
  <2> QED  BY <2>1 DEF w
<1> HIDE DEF D
<1>5. g = [s \in SUBSET D |->
             IF s = {} THEN 0 ELSE g[s \ {Pick(s)}] + Overhead + vs[Pick(s)].take]
  BY <1>2, <1>4 DEF Adding
<1>6. h = [s \in SUBSET D |->
             IF s = {} THEN 0 ELSE h[s \ {Pick(s)}] + Overhead + vs[Pick(s)].take]
  BY <1>5
<1> HIDE DEF h
<1>7. Adding(h, w, Overhead, D)
  BY <1>4, <1>6 DEF Adding
<1>8. IsFiniteSet(D)
  BY FS_Interval DEF D
<1>9. g = h
  BY ONLY <1>2, <1>7, <1>8, AddingOnce
<1> QED  BY <1>2, <1>3, <1>9

\* Numbers have a running sum.
LEMMA Runs ==
  ASSUME NEW n \in Nat, NEW w, \A i \in 1..n : w[i] \in Nat, NEW e \in Nat
  PROVE  \E p : Running(p, w, e, n)
<1> DEFINE S == 1..n
<1>1. IsFiniteSet(S)
  BY FS_Interval
<1>2. PICK g : Summed(g, w, e, S)
  BY <1>1, AddingIs
<1> DEFINE p == [k \in 0..n |-> g[1..k]]
<1>3. \A k \in 0..n : 1..k \in SUBSET S
  OBVIOUS
<1>4. p \in [0..n -> Nat]
  BY <1>2, <1>3 DEF Summed
<1>5. p[0] = 0
  <2>1. 1..0 = {} /\ 0 \in 0..n
    OBVIOUS
  <2> QED  BY <1>2, <2>1 DEF Summed
<1>6. ASSUME NEW i \in 1..n
      PROVE  p[i] = p[i - 1] + e + w[i]
  <2> DEFINE T == 1..i
  <2>1. T \in SUBSET S /\ i \in T /\ T \ {i} = 1..(i - 1) /\ i - 1 \in 0..n /\ i \in 0..n
    OBVIOUS
  <2>2. p[i] = g[T] /\ p[i - 1] = g[T \ {i}]
    BY <2>1
  <2> HIDE DEF T, p
  <2> QED  BY <1>2, <2>1, <2>2 DEF Summed
<1> HIDE DEF p
<1> QED  BY <1>4, <1>5, <1>6 DEF Running

\* A running sum does not fall.
LEMMA RunsUp ==
  ASSUME NEW n \in Nat, NEW w, NEW e \in Nat, NEW p, Running(p, w, e, n)
  PROVE  \A i, j \in 0..n : i <= j => p[i] <= p[j]
<1> SUFFICES ASSUME NEW i \in 0..n  PROVE \A j \in 0..n : i <= j => p[i] <= p[j]
  OBVIOUS
<1> DEFINE Bad == {j \in 0..n : i <= j /\ ~(p[i] <= p[j])}
<1> SUFFICES ASSUME Bad # {}  PROVE FALSE
  OBVIOUS
<1>1. Bad \in SUBSET Nat
  OBVIOUS
<1> HIDE DEF Bad
<1>2. PICK j \in Bad : \A m \in Bad : j <= m
  BY <1>1, Least
<1>3. j \in 0..n /\ i <= j /\ ~(p[i] <= p[j])
  BY DEF Bad
<1>4. \A k \in 0..n : p[k] \in Nat
  BY DEF Running
<1>5. i # j
  BY <1>3, <1>4
<1>6. j \in 1..n /\ j - 1 \in 0..n /\ i <= j - 1 /\ j - 1 \notin Bad
  BY <1>2, <1>3, <1>5
<1>7. p[i] <= p[j - 1]
  BY <1>6 DEF Bad
<1>8. p[j] = p[j - 1] + e + w[j] /\ w[j] \in Nat
  BY <1>6 DEF Running
<1> QED  BY <1>3, <1>4, <1>6, <1>7, <1>8

-----------------------------------------------------------------------------
(* What messages cost.                                                     *)

Msgs == [where : Nat, read : BOOLEAN, text : Seq(Nat)]

\* Messages have a running cost, which does not fall.
LEMMA CostHas ==
  ASSUME NEW ms \in Seq(Msgs), NEW each \in Nat
  PROVE  \E p : CostRuns(p, ms, each)
<1> DEFINE w == [i \in 1..Len(ms) |-> Len(ms[i].text)]
<1>1. \A i \in 1..Len(ms) : w[i] \in Nat
  BY DEF Msgs
<1>2. Len(ms) \in Nat
  OBVIOUS
<1> HIDE DEF w
<1>3. \E p : Running(p, w, each, Len(ms))
  BY <1>1, <1>2, Runs
<1> QED  BY <1>3 DEF CostRuns, w

LEMMA CostStep ==
  ASSUME NEW ms \in Seq(Msgs), NEW each \in Nat, NEW p, CostRuns(p, ms, each)
  PROVE  /\ p \in [0..Len(ms) -> Nat] /\ p[0] = 0
         /\ \A i \in 1..Len(ms) : p[i] = p[i - 1] + each + Len(ms[i].text) /\ Len(ms[i].text) \in Nat
         /\ \A i, j \in 0..Len(ms) : i <= j => p[i] <= p[j]
         /\ Cost(ms, each) = p[Len(ms)]
<1> DEFINE w == [i \in 1..Len(ms) |-> Len(ms[i].text)]
<1>1. Running(p, w, each, Len(ms))
  BY DEF CostRuns
<1>2. \A i \in 1..Len(ms) : w[i] = Len(ms[i].text)
  OBVIOUS
<1>3. Len(ms) \in Nat /\ DOMAIN ms = 1..Len(ms)
  OBVIOUS
<1> HIDE DEF w
<1>4. \A i, j \in 0..Len(ms) : i <= j => p[i] <= p[j]
  BY <1>1, <1>3, RunsUp
<1>5. Cost(ms, each) = p[Len(ms)]
  BY <1>3, CostIs
<1> QED  BY <1>1, <1>2, <1>4, <1>5 DEF Running

\* Conversely, what steps by each message's cost is the running cost.
LEMMA CostMade ==
  ASSUME NEW ms \in Seq(Msgs), NEW each \in Nat, NEW p \in [0..Len(ms) -> Nat], p[0] = 0,
         \A i \in 1..Len(ms) : p[i] = p[i - 1] + each + Len(ms[i].text)
  PROVE  CostRuns(p, ms, each) /\ Cost(ms, each) = p[Len(ms)]
<1> DEFINE w == [i \in 1..Len(ms) |-> Len(ms[i].text)]
<1>1. \A i \in 1..Len(ms) : w[i] = Len(ms[i].text) /\ w[i] \in Nat
  BY DEF Msgs
<1> HIDE DEF w
<1>2. Running(p, w, each, Len(ms))
  BY <1>1 DEF Running
<1>3. CostRuns(p, ms, each)
  BY <1>2 DEF CostRuns, w
<1> QED  BY <1>3, CostStep

\* No messages cost nothing.
LEMMA CostNone ==
  ASSUME NEW each \in Nat
  PROVE  Cost(<<>>, each) = 0
<1> DEFINE ms == <<>>
           p == [i \in 0..0 |-> 0]
<1>1. ms \in Seq(Msgs) /\ Len(ms) = 0
  OBVIOUS
<1>2. p \in [0..Len(ms) -> Nat] /\ p[0] = 0
  OBVIOUS
<1>3. \A i \in 1..Len(ms) : p[i] = p[i - 1] + each + Len(ms[i].text)
  OBVIOUS
<1> HIDE DEF ms, p
<1>4. Cost(ms, each) = p[Len(ms)]
  BY <1>1, <1>2, <1>3, CostMade
<1> QED  BY <1>1, <1>2, <1>4 DEF ms

\* What part of the messages cost.
LEMMA CostPart ==
  ASSUME NEW ms \in Seq(Msgs), NEW each \in Nat, NEW p, CostRuns(p, ms, each),
         NEW a \in 1..Len(ms) + 1, NEW b \in 0..Len(ms), a <= b + 1
  PROVE  /\ SubSeq(ms, a, b) \in Seq(Msgs)
         /\ Cost(SubSeq(ms, a, b), each) = p[b] - p[a - 1]
<1> DEFINE n == Len(ms)
           part == SubSeq(ms, a, b)
           q == [i \in 0..(b - a + 1) |-> p[a - 1 + i] - p[a - 1]]
<1>1. /\ n \in Nat /\ p \in [0..n -> Nat]
      /\ \A i \in 1..n : p[i] = p[i - 1] + each + Len(ms[i].text) /\ Len(ms[i].text) \in Nat
      /\ \A i, j \in 0..n : i <= j => p[i] <= p[j]
  BY CostStep
<1>2. a \in Int /\ b \in Int /\ a - 1 \in 0..n
  OBVIOUS
<1>3. \A i \in a..b : ms[i] \in Msgs
  OBVIOUS
<1>4. /\ part \in Seq(Msgs) /\ Len(part) = b - a + 1
      /\ \A i \in 1..Len(part) : part[i] = ms[a + i - 1]
  BY <1>2, <1>3, SubSeqProperties
<1>5. \A i \in 0..Len(part) : q[i] = p[a - 1 + i] - p[a - 1] /\ a - 1 + i \in 0..n
  BY <1>2, <1>4
<1>6. q \in [0..Len(part) -> Nat]
  <2>1. \A i \in 0..(b - a + 1) : p[a - 1 + i] - p[a - 1] \in Nat
    <3> TAKE i \in 0..(b - a + 1)
    <3>1. a - 1 + i \in 0..n /\ a - 1 <= a - 1 + i
      BY <1>2
    <3> DEFINE u == a - 1
               v == a - 1 + i
    <3>2. u \in 0..n /\ v \in 0..n /\ u <= v
      BY <1>2, <3>1
    <3> HIDE DEF u, v, n
    <3>3. p[u] \in Nat /\ p[v] \in Nat /\ p[u] <= p[v]
      BY <1>1, <3>2
    <3>4. p[v] - p[u] \in Nat
      BY <3>3
    <3> QED  BY <3>4 DEF u, v
  <2> QED  BY <1>4, <2>1
<1>7. q[0] = 0
  <2>1. 0 \in 0..Len(part) /\ a - 1 + 0 = a - 1
    BY <1>4
  <2>2. q[0] = p[a - 1] - p[a - 1] /\ p[a - 1] \in Nat
    BY <1>1, <1>2, <1>5, <2>1
  <2> QED  BY <2>2
<1> HIDE DEF q, part
<1>8. \A i \in 1..Len(part) : q[i] = q[i - 1] + each + Len(part[i].text)
  <2> TAKE i \in 1..Len(part)
  <2> DEFINE k == a - 1 + i
  <2>1. /\ k \in 1..n /\ k - 1 = a - 1 + (i - 1) /\ k - 1 \in 0..n /\ k \in 0..n
        /\ i \in 0..Len(part) /\ i - 1 \in 0..Len(part) /\ a + i - 1 = k
    BY <1>2, <1>4
  <2>2. q[i] = p[k] - p[a - 1] /\ q[i - 1] = p[k - 1] - p[a - 1] /\ part[i] = ms[k]
    BY <1>4, <1>5, <2>1
  <2> HIDE DEF k, n
  <2>3. p[k] = p[k - 1] + each + Len(ms[k].text) /\ Len(ms[k].text) \in Nat
    BY <1>1, <2>1
  <2>4. p[k - 1] \in Nat /\ p[a - 1] \in Nat
    BY <1>1, <1>2, <2>1
  <2> DEFINE x == p[k - 1]
             y == p[a - 1]
             l == Len(ms[k].text)
             z == q[i - 1]
  <2>5. x \in Nat /\ y \in Nat /\ l \in Nat /\ z = x - y /\ q[i] = (x + each + l) - y
    BY <2>2, <2>3, <2>4
  <2>6. Len(part[i].text) = l
    BY <2>2
  <2> HIDE DEF x, y, l, z
  <2>7. q[i] = z + each + l
    BY <2>5
  <2> QED  BY <2>6, <2>7 DEF z
<1>9. Cost(part, each) = q[Len(part)]
  BY <1>4, <1>6, <1>7, <1>8, CostMade
<1>10. q[Len(part)] = p[b] - p[a - 1]
  <2>1. Len(part) \in 0..Len(part) /\ a - 1 + Len(part) = b
    BY <1>2, <1>4
  <2> QED  BY <1>5, <2>1
<1> QED  BY <1>4, <1>9, <1>10 DEF part

\* One message more costs what it takes.
LEMMA CostAppend ==
  ASSUME NEW ms \in Seq(Msgs), NEW each \in Nat, NEW m \in Msgs
  PROVE  /\ Cost(ms, each) \in Nat /\ Len(m.text) \in Nat
         /\ Cost(Append(ms, m), each) = Cost(ms, each) + each + Len(m.text)
<1> DEFINE all == Append(ms, m)
<1>1. all \in Seq(Msgs) /\ Len(all) = Len(ms) + 1 /\ Len(ms) \in Nat
  OBVIOUS
<1>2. all[Len(ms) + 1] = m /\ SubSeq(all, 1, Len(ms)) = ms
  OBVIOUS
<1> HIDE DEF all
<1>3. PICK p : CostRuns(p, all, each)
  BY <1>1, CostHas
<1>4. /\ p \in [0..Len(all) -> Nat] /\ p[0] = 0
      /\ \A i \in 1..Len(all) : p[i] = p[i - 1] + each + Len(all[i].text) /\ Len(all[i].text) \in Nat
      /\ Cost(all, each) = p[Len(all)]
  BY <1>1, <1>3, CostStep
<1>5. Cost(ms, each) = p[Len(ms)] - p[0]
  <2> DEFINE a == 1
             b == Len(ms)
  <2>1. a \in 1..Len(all) + 1 /\ b \in 0..Len(all) /\ a <= b + 1 /\ a - 1 = 0
    BY <1>1
  <2>2. SubSeq(all, a, b) = ms
    BY <1>2
  <2> HIDE DEF a, b
  <2>3. Cost(SubSeq(all, a, b), each) = p[b] - p[a - 1]
    BY <1>1, <1>3, <2>1, CostPart
  <2> QED  BY <2>1, <2>2, <2>3 DEF b
<1>6. Len(ms) \in 0..Len(all) /\ Len(all) \in 1..Len(all) /\ Len(all) - 1 = Len(ms)
  BY <1>1
<1>7. p[Len(ms)] \in Nat /\ p[Len(all)] = p[Len(ms)] + each + Len(all[Len(all)].text)
  BY <1>4, <1>6
<1> QED  BY <1>1, <1>2, <1>4, <1>5, <1>7 DEF all, Msgs

\* Views of the last messages, newest first, have spent what those cost.
Takes(vs, ms) == \A i \in 1..Len(vs) : vs[i].take = Len(ms[Len(ms) - i + 1].text)

LEMMA SpentBack ==
  ASSUME NEW ms \in Seq(Msgs), Overhead \in Nat, NEW p, CostRuns(p, ms, Overhead),
         NEW vs, DOMAIN vs = 1..Len(vs), NEW v \in 0..Len(ms), Len(vs) = v, Takes(vs, ms)
  PROVE  Spent(vs) = p[Len(ms)] - p[Len(ms) - v]
<1> DEFINE n == Len(ms)
           w == [i \in 1..v |-> vs[i].take]
           q == [i \in 0..v |-> p[n] - p[n - i]]
<1>1. /\ n \in Nat /\ p \in [0..n -> Nat]
      /\ \A i \in 1..n : p[i] = p[i - 1] + Overhead + Len(ms[i].text) /\ Len(ms[i].text) \in Nat
      /\ \A i, j \in 0..n : i <= j => p[i] <= p[j]
  BY CostStep
<1>2. \A i \in 0..v : q[i] = p[n] - p[n - i] /\ n - i \in 0..n
  BY <1>1
<1>3. q \in [0..v -> Nat]
  <2>1. \A i \in 0..v : p[n] - p[n - i] \in Nat
    <3> TAKE i \in 0..v
    <3> DEFINE u == n - i
    <3>1. u \in 0..n /\ n \in 0..n /\ u <= n
      BY <1>1
    <3> HIDE DEF u, n
    <3>2. p[u] \in Nat /\ p[n] \in Nat /\ p[u] <= p[n]
      BY <1>1, <3>1
    <3>3. p[n] - p[u] \in Nat
      BY <3>2
    <3> QED  BY <3>3 DEF u
  <2> QED  BY <2>1
<1>4. q[0] = 0
  <2>1. 0 \in 0..v /\ n - 0 = n /\ n \in 0..n
    BY <1>1
  <2>2. p[n] \in Nat
    BY <1>1, <2>1
  <2> QED  BY <1>2, <2>1, <2>2
<1> HIDE DEF q
<1>5. \A i \in 1..v : w[i] \in Nat /\ q[i] = q[i - 1] + Overhead + w[i]
  <2> TAKE i \in 1..v
  <2> DEFINE k == n - i + 1
  <2>1. /\ k \in 1..n /\ k - 1 = n - i /\ k = n - (i - 1) /\ k \in 0..n /\ k - 1 \in 0..n
        /\ i \in 0..v /\ i - 1 \in 0..v /\ n \in 0..n
    BY <1>1
  <2>2. q[i] = p[n] - p[k - 1] /\ q[i - 1] = p[n] - p[k] /\ w[i] = Len(ms[k].text)
    BY <1>2, <2>1 DEF Takes
  <2> HIDE DEF k, n, w
  <2>3. p[k] = p[k - 1] + Overhead + Len(ms[k].text) /\ Len(ms[k].text) \in Nat
    BY <1>1, <2>1
  <2>4. p[k - 1] \in Nat /\ p[n] \in Nat
    BY <1>1, <2>1
  <2> DEFINE x == p[k - 1]
             y == p[n]
             l == Len(ms[k].text)
             z == q[i - 1]
  <2>5. x \in Nat /\ y \in Nat /\ l \in Nat /\ q[i] = y - x /\ z = y - (x + Overhead + l)
    BY <2>2, <2>3, <2>4
  <2>6. w[i] = l
    BY <2>2
  <2> HIDE DEF x, y, l, z
  <2>7. q[i] = z + Overhead + l
    BY <2>5
  <2> QED  BY <2>5, <2>6, <2>7 DEF z
<1>6. Running(q, w, Overhead, v)
  <2> HIDE DEF w
  <2> QED  BY <1>3, <1>4, <1>5 DEF Running
<1>7. Spent(vs) = q[v]
  <2>1. w = [i \in 1..Len(vs) |-> vs[i].take] /\ Len(vs) \in Nat
    OBVIOUS
  <2> HIDE DEF w
  <2>2. Running(q, [i \in 1..Len(vs) |-> vs[i].take], Overhead, Len(vs))
    BY <1>6, <2>1
  <2> QED  BY <2>1, <2>2, SpentIs
<1> QED  BY <1>2, <1>7

-----------------------------------------------------------------------------
(* The recursions of InboxArena are over offsets that grow.                *)

\* NextAfter's `from`.
Found(from, b, want, off) ==
  IF off + Fixed > Len(b) THEN -1
  ELSE IF Selected(b, off, want) THEN off
  ELSE from[off + Length(b, off)]

From(b, want) ==
  CHOOSE from : from = [off \in Nat |->
    IF off + Fixed > Len(b) THEN -1
    ELSE IF Selected(b, off, want) THEN off
    ELSE from[off + Length(b, off)]]

LEMMA LengthIs ==
  ASSUME NEW b \in Seq(Nat)
  PROVE  \A off \in Nat :
           /\ Byte(b, off) \in Nat /\ Length(b, off) \in Nat /\ Length(b, off) >= 2
           /\ off + Length(b, off) \in Nat /\ off + Length(b, off) >= off + 2
<1>1. \A i \in Nat : Byte(b, i) \in Nat
  BY DEF Byte
<1> TAKE off \in Nat
<1>2. off + 1 \in Nat
  OBVIOUS
<1>3. Byte(b, off) \in Nat /\ Byte(b, off + 1) \in Nat
  BY <1>1, <1>2
<1>4. Length(b, off) = 2 + Byte(b, off + 1)
  BY DEF Length, Fixed
<1> DEFINE l == Length(b, off)
<1>5. l \in Nat /\ l >= 2
  BY <1>3, <1>4
<1> HIDE DEF l
<1>6. off + l \in Nat /\ off + l >= off + 2
  BY <1>5
<1> QED  BY <1>3, <1>5, <1>6 DEF l

LEMMA FromIs ==
  ASSUME NEW b \in Seq(Nat), NEW want
  PROVE  \A off \in Nat : From(b, want)[off] = Found(From(b, want), b, want, off)
<1> DEFINE Body(g, off) == Found(g, b, want, off)
           Good(g, n) == \A off \in Nat : off + n > Len(b) => g[off] = Body(g, off)
           X == {n \in Nat : \E g : Good(g, n)}
<1>1. Len(b) \in Nat
  OBVIOUS
<1>2. 0 \in X
  <2> DEFINE g == [off \in Nat |-> -1]
  <2>1. \A off \in Nat : off + 0 > Len(b) => g[off] = Body(g, off)
    BY <1>1 DEF Found, Fixed
  <2> HIDE DEF g, Body
  <2> QED  BY <2>1
<1>3. ASSUME NEW n \in Nat, NEW g, Good(g, n)
      PROVE  \E h : Good(h, n + 1)
  <2> DEFINE h == [off \in Nat |-> Body(g, off)]
  <2>1. ASSUME NEW off \in Nat, off + (n + 1) > Len(b)
        PROVE  h[off] = Body(h, off)
    <3> DEFINE on == off + Length(b, off)
    <3>1. on \in Nat /\ on + n > Len(b)
      <4>1. on \in Nat /\ on >= off + 2
        BY LengthIs
      <4> HIDE DEF on
      <4> QED  BY <1>1, <2>1, <4>1
    <3>2. g[on] = Body(g, on) /\ h[on] = Body(g, on)
      BY <1>3, <3>1
    <3>3. h[off] = Body(g, off)
      OBVIOUS
    <3> HIDE DEF h
    <3> QED  BY <3>2, <3>3 DEF Found
  <2> HIDE DEF h, Body
  <2> QED  BY <2>1
<1>4. \A n \in Nat : n \in X => n + 1 \in X
  <2> HIDE DEF Good
  <2> QED  BY <1>3
<1>5. Nat \subseteq X
  <2> HIDE DEF X
  <2> SUFFICES ASSUME Nat \ X # {}  PROVE FALSE
    OBVIOUS
  <2>1. PICK n \in Nat \ X : \A m \in Nat \ X : n <= m
    BY Least
  <2>2. n # 0 /\ n - 1 \in Nat /\ (n - 1) + 1 = n
    BY <1>2, <2>1
  <2>3. n - 1 \in X
    BY <2>1, <2>2
  <2> QED  BY <1>4, <2>1, <2>2, <2>3
<1>6. PICK g : \A off \in Nat : g[off] = Body(g, off)
  <2>1. Len(b) + 1 \in X
    <3> HIDE DEF X
    <3> QED  BY <1>1, <1>5
  <2>2. PICK f : Good(f, Len(b) + 1)
    BY <2>1
  <2>3. \A off \in Nat : off + (Len(b) + 1) > Len(b)
    BY <1>1
  <2> HIDE DEF Body
  <2> QED  BY <2>2, <2>3
<1> DEFINE G == [off \in Nat |-> g[off]]
<1>7. G = [off \in Nat |->
    IF off + Fixed > Len(b) THEN -1
    ELSE IF Selected(b, off, want) THEN off
    ELSE G[off + Length(b, off)]]
  <2>1. \A off \in Nat : off + Length(b, off) \in Nat
    BY LengthIs
  <2>2. \A off \in Nat : G[off + Length(b, off)] = g[off + Length(b, off)]
    BY <2>1
  <2>3. \A off \in Nat : g[off] = IF off + Fixed > Len(b) THEN -1
                                  ELSE IF Selected(b, off, want) THEN off
                                  ELSE g[off + Length(b, off)]
    BY <1>6 DEF Found
  <2>4. \A off \in Nat : g[off] = IF off + Fixed > Len(b) THEN -1
                                  ELSE IF Selected(b, off, want) THEN off
                                  ELSE G[off + Length(b, off)]
    <3> HIDE DEF G
    <3> QED  BY <2>2, <2>3
  <2> DEFINE F(f) == [off \in Nat |-> IF off + Fixed > Len(b) THEN -1
                                  ELSE IF Selected(b, off, want) THEN off
                                  ELSE f[off + Length(b, off)]]
  <2>5. [off \in Nat |-> g[off]] = F(G)
    <3> HIDE DEF G
    <3> QED  BY <2>4
  <2> QED  BY <2>5
<1> HIDE DEF G
<1>8. From(b, want) = [off \in Nat |->
    IF off + Fixed > Len(b) THEN -1
    ELSE IF Selected(b, off, want) THEN off
    ELSE From(b, want)[off + Length(b, off)]]
  BY <1>7 DEF From
<1> DEFINE H == From(b, want)
<1>9. H = [off \in Nat |->
    IF off + Fixed > Len(b) THEN -1
    ELSE IF Selected(b, off, want) THEN off
    ELSE H[off + Length(b, off)]]
  BY <1>8
<1> HIDE DEF H
<1>10. \A off \in Nat : H[off] = Found(H, b, want, off)
  BY <1>9 DEF Found
<1> QED  BY <1>10 DEF H

\* NextAfter is its recursion.
LEMMA NextIs ==
  ASSUME NEW b, NEW after, NEW want
  PROVE  NextAfter(b, after, want) =
           IF after < 0 THEN From(b, want)[0]
           ELSE IF after + Fixed > Len(b) THEN -1
           ELSE From(b, want)[after + Length(b, after)]
  BY DEF NextAfter, From

\* What is found lies ahead, and inside.
LEMMA FoundAhead ==
  ASSUME NEW b \in Seq(Nat), NEW want
  PROVE  \A off \in Nat :
           LET to == From(b, want)[off]
           IN to = -1 \/ (to \in Nat /\ off <= to /\ to < Len(b))
<1> DEFINE f == From(b, want)
           Good(off) == f[off] = -1 \/ (f[off] \in Nat /\ off <= f[off] /\ f[off] < Len(b))
           Bad == {n \in Nat : \E off \in Nat : off + n >= Len(b) /\ ~Good(off)}
<1>1. Len(b) \in Nat
  OBVIOUS
<1>2. \A off \in Nat : f[off] = Found(f, b, want, off)
  BY FromIs
<1>3. \A off \in Nat : off + Length(b, off) \in Nat /\ off + Length(b, off) >= off + 2
  BY LengthIs
<1> HIDE DEF f
<1>4. Bad = {}
  <2> SUFFICES ASSUME Bad # {}  PROVE FALSE
    OBVIOUS
  <2>1. Bad \in SUBSET Nat
    OBVIOUS
  <2> HIDE DEF Bad
  <2>2. PICK n \in Bad : \A m \in Bad : n <= m
    BY <2>1, Least
  <2>3. n \in Nat
    BY <2>1
  <2>4. PICK off \in Nat : off + n >= Len(b) /\ ~Good(off)
    BY DEF Bad
  <2> DEFINE on == off + Length(b, off)
  <2>5. on \in Nat /\ on >= off + 2
    BY <1>3
  <2>6. ~(off + 2 > Len(b)) /\ f[off] = f[on]
    <3>1. f[off] = Found(f, b, want, off)
      BY <1>2
    <3> HIDE DEF on
    <3>2. f[off] = IF off + 2 > Len(b) THEN -1
                   ELSE IF Selected(b, off, want) THEN off ELSE f[on]
      BY <3>1 DEF Found, Fixed, on
    <3>3. ~(off + 2 > Len(b)) => off < Len(b)
      BY <1>1
    <3> QED  BY <2>4, <3>2, <3>3
  <2>7. Good(on)
    <3>1. n - 1 \in Nat /\ on + (n - 1) >= Len(b)
      BY <1>1, <2>3, <2>4, <2>5, <2>6
    <3>2. n - 1 \notin Bad
      BY <2>2, <2>3, <3>1
    <3> HIDE DEF on, Good
    <3> QED  BY <2>5, <3>1, <3>2 DEF Bad
  <2> HIDE DEF on
  <2> QED  BY <1>1, <2>4, <2>5, <2>6, <2>7
<1>5. \A off \in Nat : Good(off)
  <2> TAKE off \in Nat
  <2>1. Len(b) \notin Bad /\ off + Len(b) >= Len(b)
    BY <1>1, <1>4
  <2> HIDE DEF Good
  <2> QED  BY <1>1, <2>1
<1> QED  BY <1>5 DEF f

LEMMA NextAhead ==
  ASSUME NEW b \in Seq(Nat), NEW want, NEW after \in Int
  PROVE  LET to == NextAfter(b, after, want)
         IN to = -1 \/ (to \in Nat /\ after < to /\ to < Len(b))
<1> DEFINE to == NextAfter(b, after, want)
<1>1. CASE after < 0
  <2>1. to = From(b, want)[0]
    BY <1>1, NextIs
  <2>2. to = -1 \/ (to \in Nat /\ 0 <= to /\ to < Len(b))
    BY <2>1, FoundAhead
  <2> HIDE DEF to
  <2>3. to = -1 \/ (to \in Nat /\ after < to /\ to < Len(b))
    BY <1>1, <2>2
  <2> QED  BY <2>3 DEF to
<1>2. CASE ~(after < 0) /\ after + Fixed > Len(b)
  BY <1>2, NextIs
<1>3. CASE ~(after < 0) /\ ~(after + Fixed > Len(b))
  <2> DEFINE on == after + Length(b, after)
  <2>1. to = From(b, want)[on]
    BY <1>3, NextIs
  <2>2. on \in Nat /\ after < on
    <3>1. after \in Nat
      BY <1>3
    <3>2. on \in Nat /\ on >= after + 2
      BY <3>1, LengthIs
    <3> HIDE DEF on
    <3> QED  BY <3>1, <3>2
  <2> HIDE DEF on
  <2>3. to = -1 \/ (to \in Nat /\ on <= to /\ to < Len(b))
    BY <2>1, <2>2, FoundAhead
  <2> HIDE DEF to
  <2>4. to = -1 \/ (to \in Nat /\ after < to /\ to < Len(b))
    BY <2>2, <2>3
  <2> QED  BY <2>4 DEF to
<1> QED  BY <1>1, <1>2, <1>3

\* A list made by following nx, one r for each place.
Linked(g, nx, r) ==
  g = [off \in Int |-> IF off = -1 THEN <<>> ELSE <<r[off]>> \o g[nx[off]]]

LEMMA LinkedHas ==
  ASSUME NEW nx, NEW r, NEW N \in Nat,
         \A off \in Int : nx[off] = -1 \/ (nx[off] \in Nat /\ off < nx[off] /\ nx[off] < N)
  PROVE  \E g : Linked(g, nx, r)
<1> DEFINE Body(g, off) == IF off = -1 THEN <<>> ELSE <<r[off]>> \o g[nx[off]]
           Good(g, n) == \A off \in Int : off = -1 \/ (off \in Nat /\ off + n >= N) => g[off] = Body(g, off)
           X == {n \in Nat : \E g : Good(g, n)}
<1>1. 0 \in X
  <2> DEFINE h == [off \in Int |-> IF off = -1 THEN <<>> ELSE <<r[off]>> \o <<>>]
  <2>1. ASSUME NEW off \in Int, off = -1 \/ (off \in Nat /\ off + 0 >= N)
        PROVE  h[off] = Body(h, off)
    <3>1. CASE off = -1
      BY <3>1
    <3>2. CASE off # -1
      <4>1. nx[off] = -1
        BY <2>1, <3>2
      <4>2. h[nx[off]] = <<>>
        BY <4>1
      <4> QED  BY <3>2, <4>2
    <3> QED  BY <3>1, <3>2
  <2> HIDE DEF h, Body
  <2> QED  BY <2>1
<1>2. ASSUME NEW n \in Nat, NEW g, Good(g, n)
      PROVE  \E h : /\ Good(h, n + 1) /\ h = [off \in Int |-> Body(g, off)]
  <2> DEFINE h == [off \in Int |-> Body(g, off)]
  <2>1. ASSUME NEW off \in Int, off = -1 \/ (off \in Nat /\ off + (n + 1) >= N)
        PROVE  h[off] = Body(h, off)
    <3>1. CASE off = -1
      BY <3>1
    <3>2. CASE off # -1
      <4> DEFINE on == nx[off]
      <4>1. on \in Int /\ (on = -1 \/ (on \in Nat /\ on + n >= N))
        BY <2>1, <3>2
      <4>2. g[on] = Body(g, on) /\ h[on] = Body(g, on)
        BY <1>2, <4>1
      <4>3. h[off] = <<r[off]>> \o g[on]
        BY <3>2
      <4> HIDE DEF h
      <4> QED  BY <3>2, <4>2, <4>3
    <3> QED  BY <3>1, <3>2
  <2> HIDE DEF Body
  <2>2. h = [off \in Int |-> Body(g, off)]
    OBVIOUS
  <2> HIDE DEF h
  <2> QED  BY <2>1, <2>2
<1>3. \A n \in Nat : n \in X => n + 1 \in X
  <2> HIDE DEF Good, Body
  <2> QED  BY <1>2
<1>4. N \in X
  <2> HIDE DEF X
  <2> SUFFICES ASSUME Nat \ X # {}  PROVE FALSE
    OBVIOUS
  <2>1. PICK n \in Nat \ X : \A m \in Nat \ X : n <= m
    BY Least
  <2>2. n # 0 /\ n - 1 \in Nat /\ (n - 1) + 1 = n
    BY <1>1, <2>1
  <2>3. n - 1 \in X
    BY <2>1, <2>2
  <2> QED  BY <1>3, <2>1, <2>2, <2>3
<1>5. PICK f : Good(f, N)
  BY <1>4
<1> DEFINE h == [off \in Int |-> Body(f, off)]
<1>6. ASSUME NEW off \in Int
      PROVE  h[off] = Body(h, off)
  <2>1. CASE off = -1
    BY <2>1
  <2>2. CASE off # -1
    <3> DEFINE on == nx[off]
    <3>1. on \in Int /\ (on = -1 \/ (on \in Nat /\ on + N >= N))
      OBVIOUS
    <3>2. f[on] = Body(f, on) /\ h[on] = Body(f, on)
      BY <1>5, <3>1
    <3>3. h[off] = <<r[off]>> \o f[on]
      BY <2>2
    <3> HIDE DEF h
    <3> QED  BY <2>2, <3>2, <3>3
  <2> QED  BY <2>1, <2>2
<1>7. h = [off \in Int |-> h[off]]
  OBVIOUS
<1> HIDE DEF h
<1>8. Linked(h, nx, r)
  BY <1>6, <1>7 DEF Linked
<1> QED  BY <1>8

\* Walk's `on`, and Messages' `from`.
On(b, want) ==
  CHOOSE on : on = [off \in Int |->
    IF off = -1 THEN <<>> ELSE <<off>> \o on[NextAfter(b, off, want)]]

At(b, off) ==
  [where |-> Where(b[off + 1]), read |-> Read(b[off + 1]),
   text |-> SubSeq(b, off + Fixed + 1, off + Length(b, off))]

Said(b) ==
  CHOOSE from : from = [off \in Int |->
    IF off = -1 THEN <<>> ELSE <<At(b, off)>> \o from[NextAfter(b, off, All)]]

LEMMA OnIs ==
  ASSUME NEW b \in Seq(Nat), NEW want
  PROVE  /\ Walk(b, want) = On(b, want)[NextAfter(b, -1, want)]
         /\ On(b, want)[-1] = <<>>
         /\ \A off \in Nat : On(b, want)[off] = <<off>> \o On(b, want)[NextAfter(b, off, want)]
<1> DEFINE nx == [off \in Int |-> NextAfter(b, off, want)]
           r == [off \in Int |-> off]
<1>1. \A off \in Int : nx[off] = -1 \/ (nx[off] \in Nat /\ off < nx[off] /\ nx[off] < Len(b))
  BY NextAhead
<1>2. \A off \in Int : nx[off] = NextAfter(b, off, want) /\ r[off] = off
  OBVIOUS
<1>3. Len(b) \in Nat
  OBVIOUS
<1> HIDE DEF nx, r
<1>4. PICK g : Linked(g, nx, r)
  BY <1>1, <1>3, LinkedHas
<1>5. g = [off \in Int |-> IF off = -1 THEN <<>> ELSE <<off>> \o g[NextAfter(b, off, want)]]
  BY <1>2, <1>4 DEF Linked
<1> DEFINE H == On(b, want)
<1>6. H = [off \in Int |-> IF off = -1 THEN <<>> ELSE <<off>> \o H[NextAfter(b, off, want)]]
  BY <1>5 DEF On
<1>7. Walk(b, want) = H[NextAfter(b, -1, want)]
  BY DEF Walk, On
<1> HIDE DEF H
<1>8. H[-1] = <<>>
  BY <1>6
<1>9. ASSUME NEW off \in Nat
      PROVE  H[off] = <<off>> \o H[NextAfter(b, off, want)]
  <2>1. off \in Int /\ off # -1
    OBVIOUS
  <2> QED  BY <1>6, <2>1
<1> QED  BY <1>7, <1>8, <1>9 DEF H

LEMMA SaidIs ==
  ASSUME NEW b \in Seq(Nat)
  PROVE  /\ Messages(b) = Said(b)[NextAfter(b, -1, All)]
         /\ Said(b)[-1] = <<>>
         /\ \A off \in Nat : Said(b)[off] = <<At(b, off)>> \o Said(b)[NextAfter(b, off, All)]
<1> DEFINE nx == [off \in Int |-> NextAfter(b, off, All)]
           r == [off \in Int |-> At(b, off)]
<1>1. \A off \in Int : nx[off] = -1 \/ (nx[off] \in Nat /\ off < nx[off] /\ nx[off] < Len(b))
  BY NextAhead
<1>2. \A off \in Int : nx[off] = NextAfter(b, off, All) /\ r[off] = At(b, off)
  OBVIOUS
<1>3. Len(b) \in Nat
  OBVIOUS
<1> HIDE DEF nx, r
<1>4. PICK g : Linked(g, nx, r)
  BY <1>1, <1>3, LinkedHas
<1>5. g = [off \in Int |-> IF off = -1 THEN <<>> ELSE <<At(b, off)>> \o g[NextAfter(b, off, All)]]
  BY <1>2, <1>4 DEF Linked
<1> DEFINE H == Said(b)
<1>6. H = [off \in Int |-> IF off = -1 THEN <<>> ELSE <<At(b, off)>> \o H[NextAfter(b, off, All)]]
  BY <1>5 DEF Said
<1>7. Messages(b) = H[NextAfter(b, -1, All)]
  BY DEF Messages, Said, At
<1> HIDE DEF H
<1>8. H[-1] = <<>>
  BY <1>6
<1>9. ASSUME NEW off \in Nat
      PROVE  H[off] = <<At(b, off)>> \o H[NextAfter(b, off, All)]
  <2>1. off \in Int /\ off # -1
    OBVIOUS
  <2> QED  BY <1>6, <2>1
<1> QED  BY <1>7, <1>8, <1>9 DEF H

\* Links followed to the end give the list they were made from.
LEMMA LinkedAll ==
  ASSUME NEW S, NEW s \in Seq(S), NEW R, R[Len(s) + 1] = <<>>,
         \A k \in 1..Len(s) : R[k] = <<s[k]>> \o R[k + 1]
  PROVE  R[1] = s
<1> DEFINE n == Len(s)
           Bad == {m \in 0..n : R[n + 1 - m] # SubSeq(s, n + 1 - m, n)}
<1>1. n \in Nat
  OBVIOUS
<1>2. Bad = {}
  <2> SUFFICES ASSUME Bad # {}  PROVE FALSE
    OBVIOUS
  <2>1. Bad \in SUBSET Nat
    BY <1>1
  <2> HIDE DEF Bad
  <2>2. PICK m \in Bad : \A i \in Bad : m <= i
    BY <2>1, Least
  <2> DEFINE k == n + 1 - m
  <2>3. m \in 0..n /\ R[k] # SubSeq(s, k, n)
    BY DEF Bad
  <2>4. m # 0
    <3>1. ASSUME m = 0  PROVE FALSE
      <4>1. k = n + 1 /\ SubSeq(s, k, n) = <<>>
        BY <1>1, <3>1, SubSeqEmpty
      <4> QED  BY <2>3, <4>1
    <3> QED  BY <3>1
  <2>5. k \in 1..n /\ k + 1 = n + 1 - (m - 1) /\ m - 1 \in 0..n
    BY <1>1, <2>3, <2>4
  <2>6. m - 1 \notin Bad
    BY <2>1, <2>2, <2>3, <2>4
  <2>7. R[k + 1] = SubSeq(s, k + 1, n)
    BY <2>5, <2>6 DEF Bad
  <2>8. SubSeq(s, k, n) = <<s[k]>> \o SubSeq(s, k + 1, n)
    <3>1. k \in 1..Len(s) /\ n \in k..Len(s)
      BY <1>1, <2>5
    <3> HIDE DEF k, n
    <3> QED  BY <3>1, SubSeqRecursiveFirst
  <2>9. R[k] = <<s[k]>> \o R[k + 1]
    BY <2>5
  <2> QED  BY <2>3, <2>7, <2>8, <2>9
<1>3. R[1] = SubSeq(s, 1, n)
  <2>1. n \in 0..n /\ n + 1 - n = 1
    BY <1>1
  <2>2. R[n + 1 - n] = SubSeq(s, n + 1 - n, n)
    BY <1>2, <2>1
  <2> QED  BY <2>1, <2>2
<1> QED  BY <1>3, SubSeqFull

\* Links that leave some out give the rest.
Skips(R, o, n, Sel) ==
  /\ R[n + 1] = <<>>
  /\ \A k \in 1..n : /\ o[k] \in Nat
                     /\ R[k] = IF k \in Sel THEN <<o[k]>> \o R[k + 1] ELSE R[k + 1]

LEMMA LinkedSome ==
  ASSUME NEW n \in Nat, NEW o, NEW Sel, NEW R, Skips(R, o, n, Sel)
  PROVE  R[1] \in Seq(Nat) /\ Range(R[1]) = {o[k] : k \in {j \in 1..n : j \in Sel}}
<1>0. /\ R[n + 1] = <<>>
      /\ \A k \in 1..n : o[k] \in Nat
      /\ \A k \in 1..n : R[k] = IF k \in Sel THEN <<o[k]>> \o R[k + 1] ELSE R[k + 1]
  BY DEF Skips
<1> DEFINE Of(i) == {o[k] : k \in {j \in i..n : j \in Sel}}
           Good(i) == R[i] \in Seq(Nat) /\ Range(R[i]) = Of(i)
           Bad == {m \in 0..n : ~Good(n + 1 - m)}
<1>1. Bad = {}
  <2> SUFFICES ASSUME Bad # {}  PROVE FALSE
    OBVIOUS
  <2>1. Bad \in SUBSET Nat
    OBVIOUS
  <2> HIDE DEF Bad
  <2>2. PICK m \in Bad : \A i \in Bad : m <= i
    BY <2>1, Least
  <2> DEFINE k == n + 1 - m
  <2>3. m \in 0..n /\ ~Good(k)
    BY DEF Bad
  <2>4. m # 0
    <3>1. ASSUME m = 0  PROVE FALSE
      <4>1. k = n + 1 /\ {j \in k..n : j \in Sel} = {}
        BY <3>1
      <4>2. R[k] = <<>> /\ Of(k) = {}
        BY <1>0, <4>1
      <4>3. Range(<<>>) = {} /\ <<>> \in Seq(Nat)
        BY DEF Range
      <4> HIDE DEF k, Of
      <4> QED  BY <2>3, <4>2, <4>3
    <3> QED  BY <3>1
  <2>5. k \in 1..n /\ k + 1 = n + 1 - (m - 1) /\ m - 1 \in 0..n
    BY <2>3, <2>4
  <2>6. m - 1 \notin Bad
    BY <2>1, <2>2, <2>3, <2>4
  <2>7. Good(k + 1)
    <3> HIDE DEF Good, k
    <3> QED  BY <2>5, <2>6 DEF Bad
  <2>8. k..n = {k} \cup (k + 1)..n
    BY <2>5
  <2>9. Good(k)
    <3> HIDE DEF k
    <3>1. CASE k \in Sel
      <4>1. R[k] = <<o[k]>> \o R[k + 1] /\ o[k] \in Nat
        BY <1>0, <2>5, <3>1
      <4>2. Of(k) = {o[k]} \cup Of(k + 1)
        BY <2>8, <3>1
      <4> DEFINE u == <<o[k]>>
                 v == R[k + 1]
      <4>3. u \in Seq(Nat) /\ Range(u) = {o[k]}
        BY <4>1 DEF Range
      <4>4. v \in Seq(Nat) /\ Range(v) = Of(k + 1)
        BY <2>7
      <4> HIDE DEF u, Of
      <4>5. R[k] = u \o v
        BY <4>1 DEF u
      <4> HIDE DEF v
      <4>6. u \o v \in Seq(Nat) /\ Range(u \o v) = Range(u) \cup Range(v)
        BY <4>3, <4>4, RangeConcatenation
      <4> QED  BY <4>2, <4>3, <4>4, <4>5, <4>6
    <3>2. CASE k \notin Sel
      <4>1. R[k] = R[k + 1]
        BY <1>0, <2>5, <3>2
      <4>2. Of(k) = Of(k + 1)
        BY <2>8, <3>2
      <4> HIDE DEF Of
      <4> QED  BY <2>7, <4>1, <4>2
    <3> QED  BY <3>1, <3>2
  <2> QED  BY <2>3, <2>9
<1>2. Good(1)
  <2>1. n \in 0..n /\ n + 1 - n = 1
    OBVIOUS
  <2> HIDE DEF Good
  <2>2. Good(n + 1 - n)
    BY <1>1, <2>1
  <2> QED  BY <2>1, <2>2
<1> QED  BY <1>2

-----------------------------------------------------------------------------
(* A buffer made of records.                                               *)

\* o holds where each record starts, and where the next one would.
Laid(b, o) ==
  /\ b \in Seq(Nat) /\ o \in Seq(Nat) /\ Len(o) >= 1
  /\ o[1] = 0 /\ o[Len(o)] = Len(b)
  /\ \A k \in 1..(Len(o) - 1) : o[k] + 2 <= Len(b) /\ o[k + 1] = o[k] + Length(b, o[k])

\* The messages there.
Held(b, o) == [k \in 1..(Len(o) - 1) |-> At(b, o[k])]

LEMMA LaidUp ==
  ASSUME NEW b, NEW o, Laid(b, o)
  PROVE  /\ \A i \in 1..Len(o) : o[i] \in Nat /\ o[i] <= Len(b)
         /\ \A i \in 1..(Len(o) - 1) : o[i] + 2 <= o[i + 1]
         /\ \A i, j \in 1..Len(o) : i < j => o[i] + 2 <= o[j]
<1>1. Len(o) \in Nat /\ Len(b) \in Nat /\ \A i \in 1..Len(o) : o[i] \in Nat
  BY DEF Laid
<1>2. \A i \in 1..(Len(o) - 1) : o[i] + 2 <= o[i + 1]
  <2> TAKE i \in 1..(Len(o) - 1)
  <2>1. i \in 1..Len(o)
    BY <1>1
  <2> DEFINE l == Length(b, o[i])
             x == o[i]
  <2>2. x \in Nat /\ l \in Nat /\ l >= 2 /\ o[i + 1] = x + l
    BY <1>1, <2>1, LengthIs DEF Laid
  <2> HIDE DEF l, x
  <2>3. x + 2 <= o[i + 1]
    BY <2>2
  <2> QED  BY <2>3 DEF x
<1>3. \A i, j \in 1..Len(o) : i < j => o[i] + 2 <= o[j]
  <2> SUFFICES ASSUME NEW i \in 1..Len(o)
               PROVE  \A j \in 1..Len(o) : i < j => o[i] + 2 <= o[j]
    OBVIOUS
  <2> DEFINE Bad == {j \in 1..Len(o) : i < j /\ ~(o[i] + 2 <= o[j])}
  <2> SUFFICES ASSUME Bad # {}  PROVE FALSE
    OBVIOUS
  <2>1. Bad \in SUBSET Nat
    OBVIOUS
  <2> HIDE DEF Bad
  <2>2. PICK j \in Bad : \A m \in Bad : j <= m
    BY <2>1, Least
  <2>3. j \in 1..Len(o) /\ i < j /\ ~(o[i] + 2 <= o[j])
    BY DEF Bad
  <2> DEFINE k == j - 1
  <2>4. k \in 1..(Len(o) - 1) /\ k \in 1..Len(o) /\ k + 1 = j /\ i <= k /\ k < j
    BY <1>1, <2>3
  <2>5. k \notin Bad
    BY <2>1, <2>2, <2>4
  <2> HIDE DEF k
  <2>6. o[k] + 2 <= o[j]
    BY <1>2, <2>4
  <2>7. i = k \/ o[i] + 2 <= o[k]
    BY <2>4, <2>5 DEF Bad
  <2> DEFINE x == o[i]
             y == o[k]
             z == o[j]
  <2>8. x \in Nat /\ y \in Nat /\ z \in Nat
    BY <1>1, <2>3, <2>4
  <2>9. ~(x + 2 <= z) /\ y + 2 <= z /\ (x = y \/ x + 2 <= y)
    BY <2>3, <2>6, <2>7
  <2> HIDE DEF x, y, z
  <2> QED  BY <2>8, <2>9
<1>4. \A i \in 1..Len(o) : o[i] <= Len(b)
  <2> TAKE i \in 1..Len(o)
  <2>1. CASE i = Len(o)
    BY <1>1, <2>1 DEF Laid
  <2>2. CASE i # Len(o)
    <3>1. i \in 1..(Len(o) - 1)
      BY <1>1, <2>2
    <3>2. o[i] + 2 <= Len(b) /\ o[i] \in Nat
      BY <1>1, <3>1 DEF Laid
    <3> QED  BY <1>1, <3>2
  <2> QED  BY <2>1, <2>2
<1> QED  BY <1>1, <1>2, <1>3, <1>4

LEMMA FromLaid ==
  ASSUME NEW b, NEW o, Laid(b, o), NEW want
  PROVE  /\ From(b, want)[o[Len(o)]] = -1
         /\ \A k \in 1..(Len(o) - 1) :
              /\ From(b, want)[o[k]] = IF Selected(b, o[k], want) THEN o[k] ELSE From(b, want)[o[k + 1]]
              /\ NextAfter(b, o[k], want) = From(b, want)[o[k + 1]]
         /\ NextAfter(b, -1, want) = From(b, want)[o[1]]
<1> DEFINE f == From(b, want)
<1>1. b \in Seq(Nat) /\ Len(o) \in Nat /\ Len(o) >= 1 /\ Len(b) \in Nat
  BY DEF Laid
<1>2. \A off \in Nat : f[off] = Found(f, b, want, off)
  BY <1>1, FromIs
<1>3. NextAfter(b, -1, want) = f[0]
  BY NextIs
<1>4. \A k \in 1..(Len(o) - 1) :
        /\ o[k] \in Nat /\ o[k] + 2 <= Len(b) /\ o[k + 1] = o[k] + Length(b, o[k])
  BY <1>1, LaidUp DEF Laid
<1>5. f[o[Len(o)]] = -1
  <2> DEFINE x == o[Len(o)]
  <2>1. x = Len(b) /\ x \in Nat /\ x + 2 > Len(b)
    BY <1>1 DEF Laid
  <2>2. f[x] = Found(f, b, want, x)
    BY <1>2, <2>1
  <2> HIDE DEF x, f
  <2>3. f[x] = -1
    BY <2>1, <2>2 DEF Found, Fixed
  <2> QED  BY <2>3 DEF x
<1>6. ASSUME NEW k \in 1..(Len(o) - 1)
      PROVE  /\ f[o[k]] = IF Selected(b, o[k], want) THEN o[k] ELSE f[o[k + 1]]
             /\ NextAfter(b, o[k], want) = f[o[k + 1]]
  <2> DEFINE x == o[k]
  <2>1. x \in Nat /\ ~(x + 2 > Len(b)) /\ o[k + 1] = x + Length(b, x) /\ ~(x < 0)
    BY <1>1, <1>4
  <2>2. f[x] = Found(f, b, want, x)
    BY <1>2, <2>1
  <2>3. NextAfter(b, x, want) = f[o[k + 1]]
    BY <2>1, NextIs DEF Fixed
  <2> HIDE DEF x, f
  <2>4. f[x] = IF Selected(b, x, want) THEN x ELSE f[o[k + 1]]
    BY <2>1, <2>2 DEF Found, Fixed
  <2> QED  BY <2>3, <2>4 DEF x
<1>7. o[1] = 0
  BY DEF Laid
<1> QED  BY <1>3, <1>5, <1>6, <1>7 DEF f

LEMMA AllAre ==
  ASSUME NEW b, NEW off
  PROVE  Selected(b, off, All)
  BY DEF Selected

\* A walk over all finds every record.
LEMMA WalkLaid ==
  ASSUME NEW b, NEW o, Laid(b, o)
  PROVE  Walk(b, All) = SubSeq(o, 1, Len(o) - 1) /\ Append(Walk(b, All), Len(b)) = o
<1> DEFINE n == Len(o) - 1
           s == SubSeq(o, 1, n)
           R == [k \in 1..(n + 1) |-> On(b, All)[From(b, All)[o[k]]]]
<1>1. b \in Seq(Nat) /\ o \in Seq(Nat) /\ n \in Nat /\ n + 1 = Len(o)
  BY DEF Laid
<1>2. s \in Seq(Nat) /\ Len(s) = n /\ \A i \in 1..n : s[i] = o[i]
  BY <1>1
<1>3. R[n + 1] = <<>>
  <2>1. n + 1 \in 1..(n + 1)
    BY <1>1
  <2>2. From(b, All)[o[n + 1]] = -1
    BY <1>1, FromLaid
  <2>3. On(b, All)[-1] = <<>>
    BY <1>1, OnIs
  <2> QED  BY <2>1, <2>2, <2>3
<1>4. ASSUME NEW k \in 1..n
      PROVE  R[k] = <<s[k]>> \o R[k + 1]
  <2>1. k \in 1..(n + 1) /\ k + 1 \in 1..(n + 1) /\ o[k] \in Nat
    BY <1>1
  <2>2. From(b, All)[o[k]] = o[k] /\ NextAfter(b, o[k], All) = From(b, All)[o[k + 1]]
    BY FromLaid, AllAre
  <2>3. On(b, All)[o[k]] = <<o[k]>> \o On(b, All)[NextAfter(b, o[k], All)]
    BY <1>1, <2>1, OnIs
  <2> QED  BY <1>2, <2>1, <2>2, <2>3
<1>5. Walk(b, All) = R[1]
  <2>1. 1 \in 1..(n + 1)
    BY <1>1
  <2>2. R[1] = On(b, All)[From(b, All)[o[1]]]
    BY <2>1
  <2> QED  BY <1>1, <2>2, FromLaid, OnIs
<1> HIDE DEF R, s
<1>6. R[1] = s
  <2>1. R[Len(s) + 1] = <<>>
    BY <1>2, <1>3
  <2>2. \A k \in 1..Len(s) : R[k] = <<s[k]>> \o R[k + 1]
    BY <1>2, <1>4
  <2> QED  BY <1>2, <2>1, <2>2, LinkedAll
<1>7. Append(s, Len(b)) = o
  <2> DEFINE t == Append(s, Len(b))
  <2>1. Len(b) = o[n + 1] /\ Len(b) \in Nat
    BY <1>1 DEF Laid
  <2>2. t \in Seq(Nat) /\ Len(t) = n + 1 /\ t[n + 1] = Len(b) /\ \A i \in 1..n : t[i] = s[i]
    BY <1>2, <2>1
  <2> HIDE DEF t
  <2>3. \A i \in 1..Len(t) : t[i] = o[i]
    <3> TAKE i \in 1..Len(t)
    <3> HIDE DEF n
    <3>1. i \in 1..n \/ i = n + 1
      BY <1>1, <2>2
    <3> QED  BY <1>2, <2>1, <2>2, <3>1
  <2>4. t = o
    BY <1>1, <2>2, <2>3, SeqEqual
  <2> QED  BY <2>4 DEF t
<1> QED  BY <1>5, <1>6, <1>7 DEF s

\* A walk over one conversation finds its records.
LEMMA WalkSome ==
  ASSUME NEW b, NEW o, Laid(b, o), NEW want
  PROVE  /\ Walk(b, want) \in Seq(Nat)
         /\ Range(Walk(b, want)) = {o[k] : k \in {j \in 1..(Len(o) - 1) : Selected(b, o[j], want)}}
<1> DEFINE n == Len(o) - 1
           f == From(b, want)
           R == [k \in 1..(n + 1) |-> On(b, want)[f[o[k]]]]
           Sel == {j \in 1..n : Selected(b, o[j], want)}
<1>1. b \in Seq(Nat) /\ o \in Seq(Nat) /\ n \in Nat /\ n + 1 = Len(o)
  BY DEF Laid
<1>2. \A k \in 1..n : o[k] \in Nat
  BY <1>1
<1>3. R[n + 1] = <<>>
  <2>1. n + 1 \in 1..(n + 1)
    BY <1>1
  <2>2. f[o[n + 1]] = -1
    BY <1>1, FromLaid
  <2>3. On(b, want)[-1] = <<>>
    BY <1>1, OnIs
  <2> QED  BY <2>1, <2>2, <2>3
<1>4. ASSUME NEW k \in 1..n
      PROVE  R[k] = IF k \in Sel THEN <<o[k]>> \o R[k + 1] ELSE R[k + 1]
  <2>1. k \in 1..(n + 1) /\ k + 1 \in 1..(n + 1)
    BY <1>1
  <2>2. /\ f[o[k]] = IF Selected(b, o[k], want) THEN o[k] ELSE f[o[k + 1]]
        /\ NextAfter(b, o[k], want) = f[o[k + 1]]
    BY FromLaid
  <2>3. On(b, want)[o[k]] = <<o[k]>> \o On(b, want)[NextAfter(b, o[k], want)]
    BY <1>1, <1>2, OnIs
  <2>4. R[k] = On(b, want)[f[o[k]]] /\ R[k + 1] = On(b, want)[f[o[k + 1]]]
    BY <2>1
  <2> HIDE DEF R
  <2>5. CASE k \in Sel
    BY <2>2, <2>3, <2>4, <2>5
  <2>6. CASE k \notin Sel
    BY <2>2, <2>4, <2>6
  <2> QED  BY <2>5, <2>6
<1>5. Walk(b, want) = R[1]
  <2>1. 1 \in 1..(n + 1)
    BY <1>1
  <2>2. R[1] = On(b, want)[f[o[1]]]
    BY <2>1
  <2> QED  BY <1>1, <2>2, FromLaid, OnIs
<1> HIDE DEF R
<1>6. R[1] \in Seq(Nat) /\ Range(R[1]) = {o[k] : k \in {j \in 1..n : j \in Sel}}
  <2> HIDE DEF Sel, n, f
  <2>1. n \in Nat
    BY <1>1
  <2>2. Skips(R, o, n, Sel)
    BY <1>2, <1>3, <1>4 DEF Skips
  <2> QED  BY <2>1, <2>2, LinkedSome
<1>7. {j \in 1..n : j \in Sel} = Sel
  OBVIOUS
<1> QED  BY <1>5, <1>6, <1>7

\* Its messages are those the records hold, and what those cost fills the buffer.
LEMMA MessagesLaid ==
  ASSUME NEW b, NEW o, Laid(b, o)
  PROVE  /\ Messages(b) = Held(b, o)
         /\ Held(b, o) \in Seq(Msgs) /\ Len(Held(b, o)) = Len(o) - 1
         /\ \A k \in 1..(Len(o) - 1) : Len(Held(b, o)[k].text) = o[k + 1] - o[k] - 2
         /\ Cost(Held(b, o), Fixed) = Len(b)
<1> DEFINE n == Len(o) - 1
           s == Held(b, o)
           R == [k \in 1..(n + 1) |-> Said(b)[From(b, All)[o[k]]]]
<1>1. /\ b \in Seq(Nat) /\ o \in Seq(Nat) /\ n \in Nat /\ n + 1 = Len(o) /\ Len(b) \in Nat
      /\ o[1] = 0 /\ o[n + 1] = Len(b)
  BY DEF Laid
<1>2. ASSUME NEW k \in 1..n
      PROVE  At(b, o[k]) \in Msgs /\ Len(At(b, o[k]).text) = o[k + 1] - o[k] - 2
  <2> DEFINE x == o[k]
             y == o[k + 1]
             l == Length(b, x)
             t == SubSeq(b, x + 2 + 1, x + l)
  <2>1. k \in 1..Len(o) /\ k + 1 \in 1..Len(o) /\ k \in 1..(Len(o) - 1)
    BY <1>1
  <2>2. x \in Nat /\ y \in Nat /\ y <= Len(b) /\ x + 2 <= y /\ y = x + l
    BY <2>1, LaidUp DEF Laid
  <2> HIDE DEF x, y
  <2>3. l \in Nat
    BY <1>1, <2>2, LengthIs
  <2> HIDE DEF l
  <2>4. t \in Seq(Nat) /\ Len(t) = y - x - 2
    <3>1. x + 2 + 1 \in Int /\ x + l \in Int /\ \A i \in (x + 2 + 1)..(x + l) : b[i] \in Nat
      BY <1>1, <2>2, <2>3
    <3>2. Len(t) = (IF x + 2 + 1 <= x + l THEN (x + l) - (x + 2 + 1) + 1 ELSE 0) /\ t \in Seq(Nat)
      BY <3>1, SubSeqProperties
    <3> HIDE DEF t
    <3> QED  BY <2>2, <2>3, <3>2
  <2> HIDE DEF t
  <2>5. b[x + 1] \in Nat
    <3>1. x + 1 \in 1..Len(b)
      BY <1>1, <2>2
    <3> DEFINE z == x + 1
    <3> HIDE DEF z
    <3>2. b[z] \in Nat
      BY <1>1, <3>1 DEF z
    <3> QED  BY <3>2 DEF z
  <2> DEFINE c == b[x + 1]
  <2> HIDE DEF c
  <2>6. Where(c) \in Nat /\ Read(c) \in BOOLEAN
    BY <2>5 DEF Where, Read, c
  <2>7. At(b, x) = [where |-> Where(c), read |-> Read(c), text |-> t]
    BY DEF At, Fixed, t, l, c
  <2>8. At(b, x) \in Msgs /\ Len(At(b, x).text) = y - x - 2
    BY <2>4, <2>6, <2>7 DEF Msgs
  <2> QED  BY <2>8 DEF x, y
<1>3. s \in Seq(Msgs) /\ Len(s) = n /\ \A k \in 1..n : s[k] = At(b, o[k])
  BY <1>1, <1>2 DEF Held
<1>4. R[n + 1] = <<>>
  <2>1. n + 1 \in 1..(n + 1)
    BY <1>1
  <2>2. From(b, All)[o[n + 1]] = -1
    BY <1>1, FromLaid
  <2>3. Said(b)[-1] = <<>>
    BY <1>1, SaidIs
  <2> QED  BY <2>1, <2>2, <2>3
<1>5. ASSUME NEW k \in 1..n
      PROVE  R[k] = <<s[k]>> \o R[k + 1]
  <2>1. k \in 1..(n + 1) /\ k + 1 \in 1..(n + 1) /\ o[k] \in Nat
    BY <1>1
  <2>2. From(b, All)[o[k]] = o[k] /\ NextAfter(b, o[k], All) = From(b, All)[o[k + 1]]
    BY FromLaid, AllAre
  <2>3. Said(b)[o[k]] = <<At(b, o[k])>> \o Said(b)[NextAfter(b, o[k], All)]
    BY <1>1, <2>1, SaidIs
  <2> HIDE DEF s
  <2> QED  BY <1>3, <2>1, <2>2, <2>3
<1>6. Messages(b) = R[1]
  <2>1. 1 \in 1..(n + 1)
    BY <1>1
  <2>2. R[1] = Said(b)[From(b, All)[o[1]]]
    BY <2>1
  <2> QED  BY <1>1, <2>2, FromLaid, SaidIs
<1> HIDE DEF R, s
<1>7. R[1] = s
  <2>1. R[Len(s) + 1] = <<>>
    BY <1>3, <1>4
  <2>2. \A k \in 1..Len(s) : R[k] = <<s[k]>> \o R[k + 1]
    BY <1>3, <1>5
  <2> QED  BY <1>3, <2>1, <2>2, LinkedAll
<1>8. Cost(s, 2) = Len(b)
  <2> DEFINE p == [i \in 0..n |-> o[i + 1]]
  <2>1. p \in [0..n -> Nat] /\ p[0] = 0 /\ p[n] = Len(b)
    BY <1>1
  <2>2. \A i \in 1..n : p[i] = p[i - 1] + 2 + Len(s[i].text)
    <3> TAKE i \in 1..n
    <3>1. i \in 0..n /\ i - 1 \in 0..n /\ (i - 1) + 1 = i
      BY <1>1
    <3>2. p[i] = o[i + 1] /\ p[i - 1] = o[i]
      BY <3>1
    <3>3. Len(s[i].text) = o[i + 1] - o[i] - 2
      BY <1>2, <1>3
    <3> DEFINE x == o[i]
               y == o[i + 1]
    <3>4. x \in Nat /\ y \in Nat
      BY <1>1
    <3> HIDE DEF x, y
    <3>5. x + 2 + (y - x - 2) = y
      BY <3>4
    <3> HIDE DEF p
    <3> QED  BY <3>2, <3>3, <3>5 DEF x, y
  <2> HIDE DEF p
  <2>3. 2 \in Nat /\ p \in [0..Len(s) -> Nat] /\ \A i \in 1..Len(s) : p[i] = p[i - 1] + 2 + Len(s[i].text)
    BY <1>3, <2>1, <2>2
  <2>4. Cost(s, 2) = p[Len(s)]
    BY <1>3, <2>1, <2>3, CostMade
  <2> QED  BY <1>3, <2>1, <2>4
<1>9. Fixed = 2
  BY DEF Fixed
<1>10. \A k \in 1..n : Len(s[k].text) = o[k + 1] - o[k] - 2
  BY <1>2, <1>3
<1> QED  BY <1>3, <1>6, <1>7, <1>8, <1>9, <1>10 DEF s

LEMMA HeldIs ==
  ASSUME NEW b, NEW o, Laid(b, o), NEW n, n = Len(o) - 1
  PROVE  Held(b, o) \in Seq(Msgs) /\ Len(Held(b, o)) = n /\ \A k \in 1..n : Held(b, o)[k] = At(b, o[k])
<1>1. Held(b, o) \in Seq(Msgs) /\ Len(Held(b, o)) = n
  BY MessagesLaid
<1>2. \A k \in 1..n : Held(b, o)[k] = At(b, o[k])
  BY DEF Held
<1> QED  BY <1>1, <1>2

\* A slice of a sequence, from after its a-th member up to its z-th.
LEMMA Slice ==
  ASSUME NEW S, NEW s \in Seq(S), NEW a \in Nat, NEW z \in Nat, a <= z, z <= Len(s)
  PROVE  /\ SubSeq(s, a + 1, z) \in Seq(S) /\ Len(SubSeq(s, a + 1, z)) = z - a
         /\ \A i \in 1..(z - a) : SubSeq(s, a + 1, z)[i] = s[a + i]
<1> DEFINE y == a + 1
           t == SubSeq(s, y, z)
<1>1. y \in Int /\ z \in Int /\ Len(s) \in Nat
  OBVIOUS
<1>2. \A i \in y..z : s[i] \in S
  <2>1. \A i \in y..z : i \in 1..Len(s)
    BY <1>1
  <2> HIDE DEF y
  <2> QED  BY <2>1
<1> HIDE DEF y
<1>3. /\ t \in Seq(S) /\ Len(t) = (IF y <= z THEN z - y + 1 ELSE 0)
      /\ \A i \in 1..(z - y + 1) : t[i] = s[y + i - 1]
  BY <1>1, <1>2, SubSeqProperties
<1> HIDE DEF t
<1>4. Len(t) = z - a /\ z - y + 1 = z - a
  BY <1>3 DEF y
<1>5. \A i \in 1..(z - a) : y + i - 1 = a + i
  BY DEF y
<1> QED  BY <1>3, <1>4, <1>5 DEF t, y

LEMMA LaidAt ==
  ASSUME NEW b, NEW o, Laid(b, o), NEW k \in 1..(Len(o) - 1)
  PROVE  /\ o[k] \in Nat /\ o[k + 1] \in Nat /\ Length(b, o[k]) \in Nat
         /\ o[k] + 2 <= o[k + 1] /\ o[k + 1] <= Len(b) /\ o[k] + 2 <= Len(b)
         /\ o[k + 1] = o[k] + Length(b, o[k]) /\ Length(b, o[k]) >= 2
<1>1. b \in Seq(Nat) /\ Len(o) \in Nat
  BY DEF Laid
<1>2. k \in 1..Len(o) /\ k + 1 \in 1..Len(o)
  BY <1>1
<1>3. o[k] \in Nat /\ o[k + 1] \in Nat /\ o[k] + 2 <= o[k + 1] /\ o[k + 1] <= Len(b)
  BY <1>2, LaidUp
<1>4. o[k] + 2 <= Len(b) /\ o[k + 1] = o[k] + Length(b, o[k])
  BY DEF Laid
<1>5. \A off \in Nat : Length(b, off) \in Nat /\ Length(b, off) >= 2
  BY <1>1, LengthIs
<1> QED  BY <1>3, <1>4, <1>5

\* A record's bytes, one by one.
LEMMA BytesAre ==
  ASSUME NEW b \in Seq(Nat), NEW x \in Nat, x + 2 <= Len(b)
  PROVE  /\ b[x + 1] \in Nat /\ b[x + 2] \in Nat
         /\ Byte(b, x) = b[x + 1] /\ Byte(b, x + 1) = b[x + 2]
         /\ Length(b, x) = 2 + b[x + 2]
<1>1. Len(b) \in Nat
  OBVIOUS
<1> DEFINE u == x + 1
           v == x + 2
<1>2. u \in 1..Len(b) /\ v \in 1..Len(b) /\ x < Len(b) /\ u < Len(b) /\ u + 1 = v
  BY <1>1
<1>3. b[u] \in Nat /\ b[v] \in Nat
  <2> HIDE DEF u, v
  <2> QED  BY <1>2, ElementOfSeq
<1>4. Byte(b, x) = b[u] /\ Byte(b, u) = b[v]
  BY <1>2 DEF Byte
<1>5. Length(b, x) = 2 + b[v]
  BY <1>4 DEF Length, Fixed
<1> QED  BY <1>3, <1>4, <1>5

LEMMA AtIs ==
  ASSUME NEW b \in Seq(Nat), NEW x \in Nat, x + 2 <= Len(b), NEW l \in Nat, l >= 2,
         Length(b, x) = l, x + l <= Len(b)
  PROVE  /\ At(b, x) = [where |-> Where(b[x + 1]), read |-> Read(b[x + 1]), text |-> At(b, x).text]
         /\ At(b, x).text \in Seq(Nat) /\ Len(At(b, x).text) = l - 2
         /\ \A i \in 1..(l - 2) : At(b, x).text[i] = b[x + (2 + i)]
<1> DEFINE a == x + 2
           z == x + l
           t == SubSeq(b, a + 1, z)
<1>1. a \in Nat /\ z \in Nat /\ a <= z /\ z <= Len(b) /\ z - a = l - 2
  OBVIOUS
<1>2. \A i \in 1..(l - 2) : a + i = x + (2 + i)
  OBVIOUS
<1> HIDE DEF a, z
<1>3. t \in Seq(Nat) /\ Len(t) = z - a /\ \A i \in 1..(z - a) : t[i] = b[a + i]
  BY ONLY b \in Seq(Nat), <1>1, Slice
<1>4. At(b, x) = [where |-> Where(b[x + 1]), read |-> Read(b[x + 1]), text |-> t]
  BY DEF At, Fixed, a, z
<1> HIDE DEF t
<1>5. At(b, x).text = t
  BY <1>4
<1> QED  BY <1>1, <1>2, <1>3, <1>4, <1>5

\* A record is where its bytes are.
Copied(b, x, c, y, l) == \A i \in 1..l : c[y + i] = b[x + i]

LEMMA AtSame ==
  ASSUME NEW b \in Seq(Nat), NEW c \in Seq(Nat), NEW x \in Nat, NEW y \in Nat,
         NEW l \in Nat, l >= 2, Length(b, x) = l,
         x + 2 <= Len(b), x + l <= Len(b), y + l <= Len(c),
         Copied(b, x, c, y, l)
  PROVE  Length(c, y) = l /\ At(c, y) = At(b, x)
<1>1. y + 2 <= Len(c)
  <2>1. Len(c) \in Nat
    OBVIOUS
  <2> QED  BY <2>1
<1>2. c[y + 1] = b[x + 1] /\ c[y + 2] = b[x + 2]
  <2>1. 1 \in 1..l /\ 2 \in 1..l
    OBVIOUS
  <2> QED  BY <2>1 DEF Copied
<1>3. Length(c, y) = 2 + c[y + 2] /\ Length(b, x) = 2 + b[x + 2]
  BY <1>1, BytesAre
<1>4. Length(c, y) = l
  BY <1>2, <1>3
<1> DEFINE s == At(b, x).text
           t == At(c, y).text
<1>5. /\ At(b, x) = [where |-> Where(b[x + 1]), read |-> Read(b[x + 1]), text |-> s]
      /\ s \in Seq(Nat) /\ Len(s) = l - 2 /\ \A i \in 1..(l - 2) : s[i] = b[x + (2 + i)]
  BY AtIs
<1>6. /\ At(c, y) = [where |-> Where(c[y + 1]), read |-> Read(c[y + 1]), text |-> t]
      /\ t \in Seq(Nat) /\ Len(t) = l - 2 /\ \A i \in 1..(l - 2) : t[i] = c[y + (2 + i)]
  BY <1>1, <1>4, AtIs
<1> HIDE DEF s, t
<1>7. t = s
  <2>1. \A i \in 1..(l - 2) : t[i] = s[i]
    <3> TAKE i \in 1..(l - 2)
    <3> DEFINE j == 2 + i
    <3>1. j \in 1..l
      OBVIOUS
    <3>2. s[i] = b[x + j] /\ t[i] = c[y + j]
      BY <1>5, <1>6
    <3> HIDE DEF j
    <3> QED  BY <3>1, <3>2 DEF Copied
  <2> QED  BY <1>5, <1>6, <2>1, SeqEqual
<1> QED  BY <1>2, <1>4, <1>5, <1>6, <1>7

\* The records left when the oldest are gone.
LEMMA DropLaid ==
  ASSUME NEW b, NEW o, Laid(b, o), NEW k \in 1..Len(o)
  PROVE  LET c == SubSeq(b, o[k] + 1, Len(b))
         IN /\ Len(c) = Len(b) - o[k]
            /\ \E q : /\ Laid(c, q) /\ Len(q) = Len(o) - k + 1
                      /\ Held(c, q) = SubSeq(Held(b, o), k, Len(o) - 1)
<1> DEFINE c == SubSeq(b, o[k] + 1, Len(b))
           n == Len(o) - k
           q == [j \in 1..(n + 1) |-> o[k + j - 1] - o[k]]
           x == o[k]
           B == Len(b)
           M == Len(o)
<1>1. b \in Seq(Nat) /\ B \in Nat /\ M \in Nat /\ n \in Nat /\ M = n + k /\ k \in Nat
  BY DEF Laid
<1>2. o[M] = B /\ x \in Nat /\ x <= B
  <2>1. o[M] = B
    BY DEF Laid
  <2> QED  BY <2>1, LaidUp
<1>3. \A j \in 1..(n + 1) : /\ k + j - 1 \in 1..M /\ k <= k + j - 1
                            /\ q[j] = o[k + j - 1] - x
  BY <1>1
<1>4. q = [j \in 1..(n + 1) |-> q[j]]
  OBVIOUS
<1> HIDE DEF q, x
<1>5. c \in Seq(Nat) /\ Len(c) = B - x /\ \A i \in 1..(B - x) : c[i] = b[x + i]
  <2>1. c = SubSeq(b, x + 1, B)
    BY DEF x
  <2> HIDE DEF c
  <2> QED  BY <1>1, <1>2, <2>1, Slice
<1>6. Len(c) = Len(b) - o[k]
  BY <1>5 DEF x
<1> HIDE DEF c, n, B
<1>7. \A j \in 1..(n + 1) : q[j] \in Nat /\ q[j] = o[k + j - 1] - x /\ o[k + j - 1] \in Nat
  <2> TAKE j \in 1..(n + 1)
  <2> DEFINE i == k + j - 1
  <2>1. i \in 1..M /\ k \in 1..M /\ (i = k \/ k < i) /\ q[j] = o[i] - x
    BY <1>1, <1>3
  <2> HIDE DEF i
  <2> DEFINE y == o[i]
  <2>2. y \in Nat /\ (i = k => y = x) /\ (k < i => x + 2 <= y)
    BY <2>1, LaidUp DEF x
  <2> HIDE DEF y
  <2>3. q[j] \in Nat
    BY <1>2, <2>1, <2>2 DEF y
  <2> QED  BY <2>1, <2>2, <2>3 DEF y, i
<1>8. q \in Seq(Nat) /\ Len(q) = n + 1
  <2> DEFINE N == n + 1
  <2>1. N \in Nat /\ \A j \in 1..N : q[j] \in Nat
    BY <1>1, <1>7
  <2>2. q = [j \in 1..N |-> q[j]]
    BY <1>4
  <2> HIDE DEF N
  <2>3. q \in Seq(Nat) /\ Len(q) = N
    BY <2>1, <2>2
  <2> QED  BY <2>3 DEF N
<1>9. q[1] = 0 /\ q[n + 1] = Len(c)
  <2>1. 1 \in 1..(n + 1) /\ n + 1 \in 1..(n + 1) /\ k + 1 - 1 = k /\ k + (n + 1) - 1 = M
    BY <1>1
  <2>2. q[1] = o[k] - x /\ q[n + 1] = o[M] - x
    BY <1>3, <2>1
  <2> QED  BY <1>2, <1>5, <2>2 DEF x
<1>10. ASSUME NEW j \in 1..n
      PROVE  /\ q[j] + 2 <= Len(c) /\ q[j + 1] = q[j] + Length(c, q[j])
             /\ At(c, q[j]) = At(b, o[k + j - 1])
  <2> DEFINE i == k + j - 1
             u == o[i]
             w == o[i + 1]
             v == q[j]
             l == Length(b, u)
  <2>1. /\ j \in 1..(n + 1) /\ j + 1 \in 1..(n + 1) /\ i \in 1..(M - 1)
        /\ k + (j + 1) - 1 = i + 1
    BY <1>1
  <2>2. v = u - x /\ v \in Nat /\ q[j + 1] = w - x
    BY <1>7, <2>1
  <2> HIDE DEF i
  <2>3. u \in Nat /\ u + 2 <= B /\ w = u + l /\ l \in Nat /\ l >= 2 /\ w <= B
    BY <2>1, LaidAt DEF B
  <2> HIDE DEF u, v, l, w
  <2>4. /\ v + 2 <= Len(c) /\ q[j + 1] = v + l /\ u + l <= B /\ v + l <= Len(c)
    BY <1>1, <1>2, <1>5, <2>2, <2>3
  <2>5. \A m \in 1..l : c[v + m] = b[u + m]
    <3> TAKE m \in 1..l
    <3> DEFINE z == v + m
    <3>1. z \in 1..(B - x) /\ x + z = u + m
      <4>1. v + l <= B - x
        BY <1>5, <2>4
      <4> QED  BY <1>1, <1>2, <2>2, <2>3, <4>1
    <3> HIDE DEF z
    <3>2. c[z] = b[x + z]
      BY <1>5, <3>1
    <3> QED  BY <3>1, <3>2 DEF z
  <2>6. Length(c, v) = l /\ At(c, v) = At(b, u)
    <3>1. Length(b, u) = l /\ u + 2 <= Len(b) /\ u + l <= Len(b) /\ c \in Seq(Nat) /\ b \in Seq(Nat)
      BY <1>1, <1>5, <2>3, <2>4 DEF l, B
    <3>2. Copied(b, u, c, v, l)
      BY <2>5 DEF Copied
    <3> QED  BY <2>2, <2>3, <2>4, <3>1, <3>2, AtSame
  <2> QED  BY <2>4, <2>6 DEF u, v, i
<1>11. Len(q) - 1 = n /\ Len(q) >= 1 /\ Len(q) = Len(o) - k + 1
  BY <1>1, <1>8 DEF n
<1>12. Laid(c, q)
  <2>1. \A j \in 1..(Len(q) - 1) : q[j] + 2 <= Len(c) /\ q[j + 1] = q[j] + Length(c, q[j])
    BY <1>10, <1>11
  <2> QED  BY <1>5, <1>8, <1>9, <1>11, <2>1 DEF Laid
<1>13. Held(c, q) = SubSeq(Held(b, o), k, Len(o) - 1)
  <2> DEFINE h == Held(b, o)
             a == k - 1
             N == M - 1
             g == SubSeq(h, a + 1, N)
             d == Held(c, q)
  <2>1. h \in Seq(Msgs) /\ Len(h) = N /\ \A i \in 1..N : h[i] = At(b, o[i])
    BY HeldIs
  <2>2. d \in Seq(Msgs) /\ Len(d) = n /\ \A j \in 1..n : d[j] = At(c, q[j])
    BY <1>11, <1>12, HeldIs
  <2>3. a \in Nat /\ N \in Nat /\ a <= N /\ N - a = n /\ a + 1 = k
    BY <1>1
  <2> HIDE DEF h, d, a, N
  <2>4. g \in Seq(Msgs) /\ Len(g) = n /\ \A j \in 1..n : g[j] = h[a + j]
    BY <2>1, <2>3, Slice
  <2> HIDE DEF g
  <2>5. \A j \in 1..n : d[j] = g[j]
    <3> TAKE j \in 1..n
    <3> DEFINE i == a + j
    <3>1. i \in 1..N /\ i = k + j - 1
      BY <1>1, <2>3
    <3>2. At(c, q[j]) = At(b, o[i])
      BY <1>10, <3>1
    <3>3. g[j] = h[i]
      BY <2>4
    <3> HIDE DEF i
    <3> QED  BY <2>1, <2>2, <3>1, <3>2, <3>3
  <2>6. d = g
    BY <2>2, <2>4, <2>5, SeqEqual
  <2> QED  BY <2>3, <2>6 DEF d, g, h, N
<1> QED  BY <1>6, <1>11, <1>12, <1>13 DEF c

\* One record more.
Packed(b, head, t) == b \o <<head, Len(t)>> \o t
Told(head, t) == [where |-> Where(head), read |-> Read(head), text |-> t]

LEMMA PutLaid ==
  ASSUME NEW b, NEW o, Laid(b, o), NEW head \in Nat, NEW t \in Seq(Nat)
  PROVE  \E q : Laid(Packed(b, head, t), q) /\ Held(Packed(b, head, t), q) = Append(Held(b, o), Told(head, t))
<1> DEFINE take == Len(t)
           e == <<head, take>>
           c == b \o e \o t
           B == Len(b)
           q == Append(o, B + 2 + take)
           n == Len(o)
           m == [where |-> Where(head), read |-> Read(head), text |-> t]
<1>1. b \in Seq(Nat) /\ o \in Seq(Nat) /\ B \in Nat /\ n \in Nat /\ n >= 1 /\ take \in Nat /\ o[n] = B /\ o[1] = 0
  BY DEF Laid
<1>2. /\ c \in Seq(Nat) /\ Len(c) = B + 2 + take
      /\ \A i \in 1..B : c[i] = b[i]
      /\ c[B + 1] = head /\ c[B + 2] = take
      /\ \A i \in 1..take : c[B + (2 + i)] = t[i]
  <2>1. e \in Seq(Nat) /\ Len(e) = 2 /\ e[1] = head /\ e[2] = take
    BY <1>1
  <2> DEFINE d == b \o e
  <2> HIDE DEF e
  <2>2. d \in Seq(Nat) /\ Len(d) = B + 2 /\ \A i \in 1..(B + 2) : d[i] = IF i <= B THEN b[i] ELSE e[i - B]
    <3>1. /\ d \in Seq(Nat) /\ Len(d) = Len(b) + Len(e)
          /\ \A i \in 1..(Len(b) + Len(e)) : d[i] = IF i <= Len(b) THEN b[i] ELSE e[i - Len(b)]
      <4>1. b \in Seq(Nat) /\ e \in Seq(Nat)
        BY <1>1, <2>1
      <4> QED  BY ONLY <4>1, ConcatProperties, Zenon
    <3> HIDE DEF d
    <3> QED  BY <2>1, <3>1
  <2> HIDE DEF d
  <2> DEFINE f == d \o t
  <2>3. f \in Seq(Nat) /\ Len(f) = B + 2 + take
        /\ \A i \in 1..(B + 2 + take) : f[i] = IF i <= B + 2 THEN d[i] ELSE t[i - (B + 2)]
    <3>1. /\ f \in Seq(Nat) /\ Len(f) = Len(d) + Len(t)
          /\ \A i \in 1..(Len(d) + Len(t)) : f[i] = IF i <= Len(d) THEN d[i] ELSE t[i - Len(d)]
      <4>1. d \in Seq(Nat) /\ t \in Seq(Nat)
        BY <2>2
      <4> QED  BY ONLY <4>1, ConcatProperties, Zenon
    <3> HIDE DEF f
    <3> QED  BY <2>2, <3>1
  <2>4. c = f
    BY DEF d
  <2> HIDE DEF f, c, take, B
  <2>5. \A i \in 1..B : f[i] = b[i]
    <3> TAKE i \in 1..B
    <3>1. i \in 1..(B + 2) /\ i \in 1..(B + 2 + take) /\ i <= B /\ i <= B + 2
      BY <1>1
    <3> QED  BY <2>2, <2>3, <3>1
  <2>6. f[B + 1] = head /\ f[B + 2] = take
    <3> DEFINE u == B + 1
               v == B + 2
    <3>1. /\ u \in 1..(B + 2) /\ u \in 1..(B + 2 + take) /\ ~(u <= B) /\ u <= B + 2 /\ u - B = 1
          /\ v \in 1..(B + 2) /\ v \in 1..(B + 2 + take) /\ ~(v <= B) /\ v <= B + 2 /\ v - B = 2
      BY <1>1
    <3> HIDE DEF u, v
    <3>2. f[u] = head /\ f[v] = take
      BY <2>1, <2>2, <2>3, <3>1
    <3> QED  BY <3>2 DEF u, v
  <2>7. \A i \in 1..take : f[B + (2 + i)] = t[i]
    <3> TAKE i \in 1..take
    <3> DEFINE u == B + (2 + i)
    <3>1. u \in 1..(B + 2 + take) /\ ~(u <= B + 2) /\ u - (B + 2) = i
      BY <1>1
    <3> HIDE DEF u
    <3>2. f[u] = t[i]
      BY <2>3, <3>1
    <3> QED  BY <3>2 DEF u
  <2> QED  BY <2>3, <2>4, <2>5, <2>6, <2>7
<1>3. m \in Msgs
  BY <1>1 DEF Msgs, Where, Read
<1> HIDE DEF c, m
<1>4. /\ q \in Seq(Nat) /\ Len(q) = n + 1 /\ q[n + 1] = B + 2 + take
      /\ \A i \in 1..n : q[i] = o[i]
  <2> DEFINE z == B + 2 + take
  <2>1. z \in Nat
    BY <1>1
  <2>2. q = Append(o, z)
    OBVIOUS
  <2> HIDE DEF z, q
  <2>3. q \in Seq(Nat) /\ Len(q) = n + 1 /\ q[n + 1] = z /\ \A i \in 1..n : q[i] = o[i]
    BY <1>1, <2>1, <2>2, AppendProperties
  <2> QED  BY <2>3 DEF z
<1> HIDE DEF q
<1>5. Length(c, B) = 2 + take /\ At(c, B) = m
  <2> HIDE DEF B, take
  <2>1. c \in Seq(Nat) /\ B \in Nat /\ B + 2 <= Len(c)
    BY <1>1, <1>2
  <2>2. Length(c, B) = 2 + take
    BY <1>2, <2>1, BytesAre
  <2> DEFINE l == 2 + take
  <2>3. l \in Nat /\ l >= 2 /\ Length(c, B) = l /\ B + l <= Len(c) /\ l - 2 = take
    BY <1>1, <1>2, <2>2
  <2> HIDE DEF l
  <2> DEFINE s == At(c, B).text
  <2>4. /\ At(c, B) = [where |-> Where(c[B + 1]), read |-> Read(c[B + 1]), text |-> s]
        /\ s \in Seq(Nat) /\ Len(s) = l - 2
        /\ \A i \in 1..(l - 2) : s[i] = c[B + (2 + i)]
    BY <2>1, <2>3, AtIs
  <2> HIDE DEF s
  <2>5. s = t
    <3>1. Len(s) = Len(t) /\ \A i \in 1..Len(s) : s[i] = t[i]
      BY <1>2, <2>3, <2>4 DEF take
    <3> QED  BY <2>4, <3>1, SeqEqual
  <2> QED  BY <1>2, <2>2, <2>4, <2>5 DEF m
<1>6. ASSUME NEW k \in 1..(n - 1)
      PROVE  /\ q[k] + 2 <= Len(c) /\ q[k + 1] = q[k] + Length(c, q[k])
             /\ At(c, q[k]) = At(b, o[k])
  <2> DEFINE u == o[k]
             w == o[k + 1]
             l == Length(b, u)
  <2>1. k \in 1..n /\ k + 1 \in 1..n
    BY <1>1
  <2>2. q[k] = u /\ q[k + 1] = w
    BY <1>4, <2>1
  <2>3. u \in Nat /\ u + 2 <= B /\ w = u + l /\ l \in Nat /\ l >= 2 /\ w <= B
    BY LaidAt
  <2>4. Length(b, u) = l
    OBVIOUS
  <2> HIDE DEF u, w, l, B, take
  <2>5. u + l <= B /\ u + l <= Len(c) /\ u + 2 <= Len(c)
    BY <1>1, <1>2, <2>3
  <2>6. Copied(b, u, c, u, l)
    <3> SUFFICES ASSUME NEW i \in 1..l  PROVE c[u + i] = b[u + i]
      BY DEF Copied
    <3>1. u + i \in 1..B
      BY <1>1, <2>3, <2>5
    <3> QED  BY <1>2, <3>1
  <2>7. Length(c, u) = l /\ At(c, u) = At(b, u)
    <3>1. b \in Seq(Nat) /\ c \in Seq(Nat) /\ u + 2 <= Len(b) /\ u + l <= Len(b)
      BY <1>1, <1>2, <2>3, <2>5 DEF B
    <3> QED  BY <2>3, <2>4, <2>5, <2>6, <3>1, AtSame
  <2> QED  BY <2>2, <2>3, <2>5, <2>7 DEF u
<1>7. Laid(c, q)
  <2>1. Len(q) >= 1 /\ q[1] = 0 /\ q[Len(q)] = Len(c)
    <3>1. 1 \in 1..n
      BY <1>1
    <3> QED  BY <1>1, <1>2, <1>4, <3>1
  <2>2. ASSUME NEW k \in 1..(Len(q) - 1)
        PROVE  q[k] + 2 <= Len(c) /\ q[k + 1] = q[k] + Length(c, q[k])
    <3>1. CASE k \in 1..(n - 1)
      BY <1>6, <3>1
    <3>2. CASE k \notin 1..(n - 1)
      <4>1. k = n /\ n \in 1..n
        BY <1>1, <1>4, <3>2
      <4>2. q[k] = B /\ q[k + 1] = B + 2 + take
        BY <1>1, <1>4, <4>1
      <4> HIDE DEF B, take
      <4> QED  BY <1>1, <1>2, <1>5, <4>2
    <3> QED  BY <3>1, <3>2
  <2> QED  BY <1>2, <1>4, <2>1, <2>2 DEF Laid
<1>8. Held(c, q) = Append(Held(b, o), m)
  <2> DEFINE h == Held(b, o)
             g == Append(h, m)
             d == Held(c, q)
  <2>1. h \in Seq(Msgs) /\ Len(h) = n - 1 /\ \A i \in 1..(n - 1) : h[i] = At(b, o[i])
    BY HeldIs
  <2>2. d \in Seq(Msgs) /\ Len(d) = n /\ \A i \in 1..n : d[i] = At(c, q[i])
    <3>1. Len(q) - 1 = n
      BY <1>1, <1>4
    <3> QED  BY <1>7, <3>1, HeldIs
  <2> HIDE DEF h, d
  <2>3. g \in Seq(Msgs) /\ Len(g) = n /\ g[n] = m /\ \A i \in 1..(n - 1) : g[i] = h[i]
    <3>1. Len(h) + 1 = n
      BY <1>1, <2>1
    <3> QED  BY <1>3, <2>1, <3>1, AppendProperties
  <2> HIDE DEF g
  <2>4. \A i \in 1..n : d[i] = g[i]
    <3> TAKE i \in 1..n
    <3>1. CASE i = n
      <4>1. q[i] = B
        BY <1>1, <1>4, <3>1
      <4> QED  BY <1>5, <2>2, <2>3, <3>1, <4>1
    <3>2. CASE i # n
      <4>1. i \in 1..(n - 1)
        BY <1>1, <3>2
      <4> QED  BY <1>6, <2>1, <2>2, <2>3, <4>1
    <3> QED  BY <3>1, <3>2
  <2>5. d = g
    BY <2>2, <2>3, <2>4, SeqEqual
  <2> QED  BY <2>5 DEF d, g, h
<1>9. Packed(b, head, t) = c /\ Told(head, t) = m
  BY DEF Packed, Told, c, m
<1> HIDE DEF c, m, q
<1> QED  BY <1>7, <1>8, <1>9

\* A head is marked by adding one.
LEMMA HeadRead ==
  ASSUME NEW a \in Nat, ~Read(a)
  PROVE  Where(a + 1) = Where(a) /\ Read(a + 1)
  BY DEF Where, Read

\* Reading changes no record but for its flag.
LEMMA MarkedLaid ==
  ASSUME NEW b, NEW o, Laid(b, o), NEW want
  PROVE  LET c == Marked(b, want)
         IN /\ Laid(c, o) /\ Len(c) = Len(b)
            /\ \A k \in 1..(Len(o) - 1) :
                 At(c, o[k]) = IF want \in {All, At(b, o[k]).where}
                               THEN [At(b, o[k]) EXCEPT !.read = TRUE] ELSE At(b, o[k])
            /\ Unread(b, want) = {} => c = b
<1> DEFINE c == Marked(b, want)
           n == Len(o) - 1
           U == Unread(b, want)
           B == Len(b)
<1>1. b \in Seq(Nat) /\ o \in Seq(Nat) /\ n \in Nat /\ n + 1 = Len(o) /\ B \in Nat /\ DOMAIN b = 1..B
  BY DEF Laid
<1>2. U = {off \in {o[k] : k \in {j \in 1..n : Selected(b, o[j], want)}} : ~Read(Byte(b, off))}
  BY WalkSome DEF Unread
<1>3. \A k \in 1..n : /\ o[k] \in Nat /\ Byte(b, o[k]) = b[o[k] + 1] /\ b[o[k] + 1] \in Nat
                      /\ o[k] + 2 <= B
  <2> TAKE k \in 1..n
  <2>1. o[k] \in Nat /\ o[k] + 2 <= B
    BY LaidAt
  <2> QED  BY <1>1, <2>1, BytesAre
<1>4. \A i, j \in 1..n : o[i] = o[j] => i = j
  <2> SUFFICES ASSUME NEW i \in 1..n, NEW j \in 1..n, i < j  PROVE o[i] # o[j]
    BY <1>1
  <2>1. i \in 1..Len(o) /\ j \in 1..Len(o)
    BY <1>1
  <2> DEFINE u == o[i]
             v == o[j]
  <2>2. u \in Nat /\ v \in Nat /\ u + 2 <= v
    BY <1>3, <2>1, LaidUp
  <2> HIDE DEF u, v
  <2>3. u # v
    BY <2>2
  <2> QED  BY <2>3 DEF u, v
<1>5. \A k \in 1..n : o[k] \in U <=> Selected(b, o[k], want) /\ ~Read(b[o[k] + 1])
  BY <1>2, <1>3, <1>4
<1>6. c = [i \in 1..B |-> IF i - 1 \in U THEN b[i] + 1 ELSE b[i]]
  BY <1>1 DEF Marked
<1> HIDE DEF U, c, B
<1>7. c \in Seq(Nat) /\ Len(c) = B /\ \A i \in 1..B : c[i] = IF i - 1 \in U THEN b[i] + 1 ELSE b[i]
  <2>1. \A i \in 1..B : b[i] \in Nat
    BY <1>1 DEF B
  <2> QED  BY <1>1, <1>6, <2>1
<1>8. ASSUME NEW k \in 1..n
      PROVE  /\ o[k] + 2 <= Len(c) /\ Length(c, o[k]) = Length(b, o[k])
             /\ At(c, o[k]) = IF want \in {All, At(b, o[k]).where}
                               THEN [At(b, o[k]) EXCEPT !.read = TRUE] ELSE At(b, o[k])
  <2> DEFINE x == o[k]
             y == o[k + 1]
             l == Length(b, x)
             s == At(b, x).text
             t == At(c, x).text
             h == b[x + 1]
  <2>1. x \in Nat /\ x + 2 <= B /\ y = x + l /\ l \in Nat /\ l >= 2 /\ y <= B /\ x + l <= B
    BY LaidAt DEF B
  <2>2. \A i \in 2..l : c[x + i] = b[x + i]
    <3> TAKE i \in 2..l
    <3>1. x + i \in 1..B
      <4> HIDE DEF x, l, y
      <4> QED  BY <1>1, <2>1
    <3>2. (x + i) - 1 \notin U
      <4> SUFFICES ASSUME (x + i) - 1 \in U  PROVE FALSE
        OBVIOUS
      <4>1. PICK j \in 1..n : (x + i) - 1 = o[j]
        BY <1>2 DEF U
      <4> DEFINE z == o[j]
      <4>2. z \in Nat /\ k \in 1..Len(o) /\ k + 1 \in 1..Len(o) /\ j \in 1..Len(o)
        <5>1. z \in Nat
          BY <1>3
        <5> HIDE DEF x, y, z, l
        <5> QED  BY ONLY <1>1, <5>1, k \in 1..n, j \in 1..n
      <4>3. x < z /\ z < y
        <5> HIDE DEF x, y, l, z
        <5>1. z = (x + i) - 1
          BY <4>1 DEF z
        <5> QED  BY <2>1, <5>1
      <4>4. j # k
        <5>1. ASSUME j = k  PROVE FALSE
          <6>1. z = x
            BY <5>1
          <6> HIDE DEF x, y, z, l
          <6> QED  BY <2>1, <4>2, <4>3, <6>1
        <5> QED  BY <5>1
      <4>5. CASE j < k
        <5>1. z + 2 <= x
          BY <4>2, <4>5, LaidUp
        <5> HIDE DEF x, y, z, l
        <5> QED  BY <2>1, <4>2, <4>3, <5>1
      <4>6. CASE j > k
        <5>1. j = k + 1 \/ k + 1 < j
          BY <1>1, <4>6
        <5>2. j = k + 1 => z = y
          OBVIOUS
        <5>3. k + 1 < j => y + 2 <= z
          BY <4>2, LaidUp
        <5>4. y \in Nat
          BY <4>2, LaidUp
        <5> HIDE DEF x, y, z, l
        <5> QED  BY <2>1, <4>2, <4>3, <5>1, <5>2, <5>3, <5>4
      <4> QED  BY <1>1, <4>4, <4>5, <4>6
    <3> DEFINE w == x + i
    <3> HIDE DEF w
    <3>3. c[w] = b[w]
      BY <1>7, <3>1, <3>2 DEF w
    <3> QED  BY <3>3 DEF w
  <2>3. h \in Nat /\ c[x + 1] = IF x \in U THEN h + 1 ELSE h
    <3>1. x + 1 \in 1..B /\ (x + 1) - 1 = x
      <4> HIDE DEF x, l, y
      <4> QED  BY <1>1, <2>1
    <3>2. c[x + 1] = IF (x + 1) - 1 \in U THEN b[x + 1] + 1 ELSE b[x + 1]
      BY <1>7, <3>1
    <3>3. h \in Nat
      BY <1>3
    <3> QED  BY <3>1, <3>2, <3>3
  <2>4. b \in Seq(Nat) /\ c \in Seq(Nat) /\ x + 2 <= Len(b) /\ x + 2 <= Len(c) /\ x + l <= Len(b) /\ x + l <= Len(c)
    BY <1>1, <1>7, <2>1 DEF B
  <2>5. Length(c, x) = l
    <3>1. 2 \in 2..l
      <4> HIDE DEF l, x, y
      <4> QED  BY <2>1
    <3>2. c[x + 2] = b[x + 2]
      BY <2>2, <3>1
    <3>3. Length(c, x) = 2 + c[x + 2] /\ Length(b, x) = 2 + b[x + 2]
      BY <2>1, <2>4, BytesAre
    <3> QED  BY <3>2, <3>3
  <2>6. Length(b, x) = l
    OBVIOUS
  <2> HIDE DEF l, y
  <2>7. /\ At(b, x) = [where |-> Where(h), read |-> Read(h), text |-> s]
        /\ s \in Seq(Nat) /\ Len(s) = l - 2 /\ \A i \in 1..(l - 2) : s[i] = b[x + (2 + i)]
    <3> HIDE DEF x
    <3> QED  BY <2>1, <2>4, <2>6, AtIs
  <2>8. /\ At(c, x) = [where |-> Where(c[x + 1]), read |-> Read(c[x + 1]), text |-> t]
        /\ t \in Seq(Nat) /\ Len(t) = l - 2 /\ \A i \in 1..(l - 2) : t[i] = c[x + (2 + i)]
    <3> HIDE DEF x
    <3> QED  BY <2>1, <2>4, <2>5, AtIs
  <2> HIDE DEF s, t
  <2>9. t = s
    <3>1. \A i \in 1..(l - 2) : t[i] = s[i]
      <4> TAKE i \in 1..(l - 2)
      <4> DEFINE j == 2 + i
      <4>1. j \in 2..l
        BY <2>1
      <4>2. s[i] = b[x + j] /\ t[i] = c[x + j]
        BY <2>7, <2>8
      <4> HIDE DEF j
      <4> QED  BY <2>2, <4>1, <4>2
    <3> QED  BY <2>7, <2>8, <3>1, SeqEqual
  <2> DEFINE Sel == Selected(b, x, want)
  <2>10. Sel <=> want \in {All, At(b, x).where}
    BY <1>3, <2>7 DEF Selected
  <2>11. x \in U <=> Sel /\ ~Read(h)
    BY <1>5
  <2>12. At(b, x).where = Where(h)
    BY <2>7
  <2>13. [At(b, x) EXCEPT !.read = TRUE] = [where |-> Where(h), read |-> TRUE, text |-> s]
    <3> DEFINE wh == Where(h)
               rd == Read(h)
               a == At(b, x)
               yes == TRUE
    <3>1. a = [where |-> wh, read |-> rd, text |-> s]
      BY <2>7
    <3> HIDE DEF wh, rd, a, yes
    <3>2. [a EXCEPT !.read = yes] = [where |-> wh, read |-> yes, text |-> s]
      BY <3>1
    <3> QED  BY <3>2 DEF a, wh, yes
  <2>14. Read(h) \in BOOLEAN
    BY DEF Read
  <2> HIDE DEF Sel, h, x
  <2>15. CASE x \in U
    <3>1. Where(h + 1) = Where(h) /\ Read(h + 1) = TRUE
      <4>1. Read(h + 1) \in BOOLEAN
        BY DEF Read
      <4> QED  BY <2>3, <2>11, <2>15, <4>1, HeadRead
    <3>2. At(c, x) = [where |-> Where(h), read |-> TRUE, text |-> s]
      BY <2>3, <2>8, <2>9, <2>15, <3>1
    <3> QED  BY <2>4, <2>5, <2>10, <2>11, <2>13, <2>15, <3>2 DEF x, l
  <2>16. CASE x \notin U
    <3>1. At(c, x) = At(b, x)
      BY <2>3, <2>7, <2>8, <2>9, <2>16
    <3>2. Sel => At(b, x) = [At(b, x) EXCEPT !.read = TRUE]
      <4>1. Sel => Read(h) = TRUE
        BY <2>11, <2>14, <2>16
      <4> QED  BY <2>7, <2>13, <4>1
    <3> QED  BY <2>4, <2>5, <2>10, <3>1, <3>2 DEF x, l
  <2> QED  BY <2>15, <2>16
<1>9. Laid(c, o)
  <2>1. \A k \in 1..(Len(o) - 1) : o[k] + 2 <= Len(c) /\ o[k + 1] = o[k] + Length(c, o[k])
    BY <1>8 DEF Laid
  <2>2. Len(o) >= 1 /\ o[1] = 0 /\ o[Len(o)] = Len(c)
    BY <1>7 DEF Laid, B
  <2> QED  BY <1>1, <1>7, <2>1, <2>2 DEF Laid
<1>10. U = {} => c = b
  <2>1. ASSUME U = {}  PROVE c = b
    <3>1. \A i \in 1..B : c[i] = b[i]
      BY <1>7, <2>1
    <3> QED  BY <1>1, <1>7, <3>1, SeqEqual DEF B
  <2> QED  BY <2>1
<1> QED  BY <1>7, <1>8, <1>9, <1>10 DEF c, B, U

-----------------------------------------------------------------------------
(* The least and the greatest, and how much of a text is stored.           *)

LEMMA MinIs ==
  ASSUME NEW S \in SUBSET Nat, S # {}
  PROVE  Min(S) \in S /\ \A m \in S : Min(S) <= m
<1>1. \E n \in S : \A m \in S : n <= m
  BY Least
<1> QED  BY <1>1 DEF Min

\* The greatest of a set that has a bound.
LEMMA MaxIs ==
  ASSUME NEW top \in Nat, NEW S \in SUBSET (0..top), S # {}
  PROVE  Max(S) \in S /\ \A m \in S : m <= Max(S)
<1> DEFINE T == {top - s : s \in S}
<1>1. T \in SUBSET Nat /\ T # {}
  <2>1. \A s \in S : s \in 0..top
    OBVIOUS
  <2>2. \A s \in 0..top : top - s \in Nat
    OBVIOUS
  <2>3. PICK s \in S : TRUE
    OBVIOUS
  <2>4. top - s \in T
    OBVIOUS
  <2> QED  BY <2>1, <2>2, <2>4
<1>2. PICK n \in T : \A m \in T : n <= m
  BY <1>1, Least
<1>3. PICK s \in S : n = top - s
  BY <1>2
<1>4. \A m \in S : s >= m
  <2> TAKE m \in S
  <2>1. n <= top - m
    BY <1>2
  <2> QED  BY <1>3, <2>1
<1>5. \E x \in S : \A m \in S : x >= m
  BY <1>4
<1>6. Max(S) \in S /\ \A m \in S : Max(S) >= m
  BY <1>5 DEF Max
<1> QED  BY <1>6

\* A readable text is cut before a character, never inside one; and no longer
\* beginning of it that may be kept can be read.
LEMMA FitIs ==
  ASSUME InboxOK, NEW t \in Seq(Nat), Readable(t)
  PROVE  LET take == Fit(t)
         IN /\ take \in 0..Len(t) /\ take <= MaxText
            /\ SubSeq(t, 1, take) \in Seq(Nat) /\ Len(SubSeq(t, 1, take)) = take
            /\ Readable(SubSeq(t, 1, take))
            /\ \A n \in 0..Len(t) : n <= MaxText /\ Readable(SubSeq(t, 1, n)) => n <= take
<1> DEFINE take == Fit(t)
           L == Len(t)
           S == {n \in 1..MaxText : t[n + 1] # Cont} \cup {0}
<1>1. L \in Nat /\ DOMAIN t = 1..L /\ MaxText \in Nat /\ Cont # Lead
  BY DEF InboxOK
<1>2. Max(S) \in S /\ \A m \in S : m <= Max(S)
  <2>1. S \in SUBSET (0..MaxText) /\ S # {}
    BY <1>1
  <2> HIDE DEF S
  <2> QED  BY <1>1, <2>1, MaxIs
<1>3. take = IF L <= MaxText THEN L ELSE Max(S)
  BY DEF Fit
<1>4. take \in 0..L /\ take <= MaxText /\ (take < L /\ take >= 1 => t[take + 1] # Cont)
  <2>1. Max(S) \in 0..MaxText /\ (Max(S) >= 1 => t[Max(S) + 1] # Cont)
    <3> DEFINE x == Max(S)
    <3>1. x = 0 \/ (x \in 1..MaxText /\ t[x + 1] # Cont)
      BY <1>2
    <3> HIDE DEF x, S
    <3>2. x \in 0..MaxText /\ (x >= 1 => t[x + 1] # Cont)
      BY <1>1, <3>1
    <3> QED  BY <3>2 DEF x
  <2> HIDE DEF S, take, L
  <2>2. CASE L <= MaxText
    <3>1. take = L
      BY <1>3, <2>2
    <3> QED  BY <1>1, <2>2, <3>1
  <2>3. CASE ~(L <= MaxText)
    <3> DEFINE x == Max(S)
    <3>1. take = x
      BY <1>3, <2>3
    <3> HIDE DEF x
    <3>2. x \in 0..MaxText /\ (x >= 1 => t[x + 1] # Cont)
      BY <2>1 DEF x
    <3> QED  BY <1>1, <2>3, <3>1, <3>2
  <2> QED  BY <2>2, <2>3
<1> HIDE DEF take
<1>5. \A n \in 0..L : /\ SubSeq(t, 1, n) \in Seq(Nat) /\ Len(SubSeq(t, 1, n)) = n
                      /\ \A i \in 1..n : SubSeq(t, 1, n)[i] = t[i]
  OBVIOUS
<1>6. /\ \A i \in 1..L : t[i] = Cont => i > 1 /\ t[i - 1] = Lead
      /\ \A i \in 1..L : t[i] = Lead => i < L /\ t[i + 1] = Cont
  BY <1>1 DEF Readable
<1> HIDE DEF L
<1>7. Readable(SubSeq(t, 1, take))
  <2> DEFINE c == SubSeq(t, 1, take)
  <2>1. c \in Seq(Nat) /\ Len(c) = take /\ \A i \in 1..take : c[i] = t[i]
    BY <1>4, <1>5
  <2>2. DOMAIN c = 1..take
    BY <2>1
  <2> HIDE DEF c
  <2>3. ASSUME NEW i \in 1..take, c[i] = Cont  PROVE i > 1 /\ c[i - 1] = Lead
    <3>1. t[i] = Cont /\ i \in 1..L
      BY <1>1, <1>4, <2>1, <2>3
    <3>2. i > 1 /\ t[i - 1] = Lead
      BY <1>6, <3>1
    <3>3. i - 1 \in 1..take
      BY <1>1, <1>4, <3>2
    <3> DEFINE j == i - 1
    <3> HIDE DEF j
    <3>4. c[j] = t[j]
      BY <2>1, <3>3 DEF j
    <3> QED  BY <3>2, <3>4 DEF j
  <2>4. ASSUME NEW i \in 1..take, c[i] = Lead  PROVE i < take /\ c[i + 1] = Cont
    <3>1. t[i] = Lead /\ i \in 1..L
      BY <1>1, <1>4, <2>1, <2>4
    <3>2. i < L /\ t[i + 1] = Cont
      BY <1>6, <3>1
    <3>3. i < take
      <4> SUFFICES ASSUME ~(i < take)  PROVE FALSE
        OBVIOUS
      <4>1. i = take /\ take < L /\ take >= 1
        BY <1>1, <1>4, <3>2
      <4> QED  BY <1>4, <3>2, <4>1
    <3> DEFINE j == i + 1
    <3>4. j \in 1..take
      BY <1>4, <1>1, <3>3
    <3> HIDE DEF j
    <3>5. c[j] = t[j]
      BY <2>1, <3>4
    <3> QED  BY <3>2, <3>3, <3>5 DEF j
  <2>5. Readable(c)
    BY <2>1, <2>2, <2>3, <2>4 DEF Readable
  <2> QED  BY <2>5 DEF c
<1>8. ASSUME NEW n \in 0..L, n <= MaxText, Readable(SubSeq(t, 1, n))
      PROVE  n <= take
  <2> SUFFICES ASSUME ~(n <= take)  PROVE FALSE
    OBVIOUS
  <2>1. L > MaxText /\ take = Max(S) /\ n >= 1 /\ n < L /\ n \in 1..MaxText
    BY <1>1, <1>3, <1>4, <1>8
  <2>2. t[n + 1] = Cont
    <3> SUFFICES ASSUME t[n + 1] # Cont  PROVE FALSE
      OBVIOUS
    <3>1. n \in S
      BY <2>1
    <3> HIDE DEF S
    <3>2. n <= Max(S)
      BY <1>2, <3>1
    <3> QED  BY <2>1, <3>2
  <2>3. t[n] = Lead
    <3> DEFINE j == n + 1
    <3>1. j \in 1..L /\ j - 1 = n
      BY <1>1, <2>1
    <3>2. t[j] = Cont
      BY <2>2
    <3> HIDE DEF j
    <3>3. t[j - 1] = Lead
      BY <1>6, <3>1, <3>2
    <3> QED  BY <3>1, <3>3
  <2> DEFINE c == SubSeq(t, 1, n)
  <2>4. c \in Seq(Nat) /\ Len(c) = n /\ c[n] = t[n] /\ DOMAIN c = 1..n
    BY <1>5, <2>1
  <2>5. n \in DOMAIN c /\ c[n] = Lead
    BY <2>1, <2>3, <2>4
  <2> HIDE DEF c
  <2>6. \A i \in DOMAIN c : c[i] = Lead => i < Len(c) /\ c[i + 1] = Cont
    BY <1>8 DEF Readable, c
  <2>7. n < n
    BY <2>4, <2>5, <2>6
  <2> QED  BY <1>1, <2>7
<1> QED  BY <1>4, <1>5, <1>7, <1>8 DEF L, take

-----------------------------------------------------------------------------
(* The inductive invariant.                                                *)

\* The offsets in b, if it is laid out by any.
Offsets(b) == Append(Walk(b, All), Len(b))
Sound(b) == Laid(b, Offsets(b))

\* What the inbox may hold and save: few enough, small enough, each text whole.
Kept == {m \in Msgs : m.where \in Wheres /\ Readable(m.text) /\ Len(m.text) <= MaxText}

Holdable(s) == s \in Seq(Kept) /\ Len(s) <= Limit /\ Cost(s, Fixed) <= Cap

\* Where the part of ms that a save keeps begins.
Recent(ms) == Min({k \in 1..Len(ms) + 1 : Cost(SubSeq(ms, k, Len(ms)), Overhead) <= Room})

\* v is what inbox_read says of the record at off.
Sight(b, off) == [head |-> Byte(b, off), at |-> off, take |-> Byte(b, off + 1)]

\* vs are the sights of the last records of b, newest first.
Seen(b, vs) ==
  LET o == Offsets(b)
      n == Len(o) - 1
  IN /\ Len(vs) \in 0..n
     /\ vs = [i \in 1..Len(vs) |-> Sight(b, o[n - i + 1])]

ArenaOK == Sound(buf) /\ Holdable(Messages(buf))

FlashOK == Holdable(saved) /\ Cost(saved, Overhead) <= Room

LoadOK ==
  /\ stage \in {"loading", "up"}
  /\ stage = "loading" => step = "idle" /\ left \in Seq(Kept) /\ Messages(buf) \o left = saved
  /\ stage = "up" => left = <<>>

SaveOK ==
  LET ms == Messages(buf)
      n == Len(ms)
      v == Len(views)
      W == Walk(buf, All)
  IN /\ held = TRUE /\ dirty \in BOOLEAN
     /\ step \in {"idle", "walk", "view", "clean"}
     /\ step \in {"idle", "walk"} => views = <<>>
     /\ step = "idle" => offs = <<>>
     /\ step \in {"idle", "walk"} \/ offs # <<>> => out = <<>>
     /\ step = "walk" => Len(offs) \in 0..n /\ offs = SubSeq(W, 1, Len(offs))
     /\ step = "view" => Seen(buf, views)
     /\ step = "view" /\ offs # <<>> =>
          /\ offs = SubSeq(W, 1, n - v)
          /\ Cost(SubSeq(ms, n - v + 1, n), Overhead) <= Room
     /\ step = "view" /\ offs = <<>> =>
          Recent(ms) <= n - v + 1 /\ out = SubSeq(ms, Recent(ms), n - v)

FreshOK == stage = "up" /\ (~dirty \/ step = "clean") => saved = Fitting(Messages(buf))

IInv == ArenaOK /\ FlashOK /\ LoadOK /\ SaveOK /\ FreshOK

-----------------------------------------------------------------------------
(* What the operators do to the messages.                                  *)

\* A buffer laid out anyhow is laid out as its walk says.
LEMMA SoundIs ==
  ASSUME NEW b, NEW o, Laid(b, o)
  PROVE  Sound(b) /\ Offsets(b) = o /\ Messages(b) = Held(b, o)
  BY WalkLaid, MessagesLaid DEF Sound, Offsets

\* What a whole arena has.
LEMMA SoundHas ==
  ASSUME NEW b, Sound(b)
  PROVE  LET o == Offsets(b)
         IN /\ Laid(b, o) /\ Messages(b) = Held(b, o) /\ Messages(b) \in Seq(Msgs)
            /\ Len(Messages(b)) = Len(o) - 1 /\ Len(Messages(b)) \in Nat
            /\ b \in Seq(Nat) /\ Len(b) \in Nat
            /\ Cost(Messages(b), Fixed) = Len(b)
<1> DEFINE o == Offsets(b)
           n == Len(Messages(b))
<1>1. Laid(b, o)
  BY DEF Sound
<1> HIDE DEF o
<1>2. Messages(b) = Held(b, o) /\ Held(b, o) \in Seq(Msgs) /\ Len(Held(b, o)) = Len(o) - 1
      /\ Cost(Held(b, o), Fixed) = Len(b)
  BY <1>1, MessagesLaid
<1>3. b \in Seq(Nat) /\ Len(b) \in Nat
  BY <1>1 DEF Laid
<1>4. n \in Nat
  BY <1>2, LenProperties
<1> QED  BY <1>1, <1>2, <1>3, <1>4 DEF o

\* An empty buffer is sound.
LEMMA SoundEmpty == Sound(<<>>) /\ Messages(<<>>) = <<>>
<1>1. Laid(<<>>, <<0>>)
  BY DEF Laid
<1>2. Sound(<<>>) /\ Messages(<<>>) = Held(<<>>, <<0>>)
  BY <1>1, SoundIs
<1>3. Held(<<>>, <<0>>) = <<>>
  <2>1. Held(<<>>, <<0>>) \in Seq(Msgs) /\ Len(Held(<<>>, <<0>>)) = 0
    BY <1>1, MessagesLaid
  <2> QED  BY <2>1, EmptySeq
<1> QED  BY <1>2, <1>3

\* Where the part that is saved begins: no earlier would fit.
LEMMA RecentIs ==
  ASSUME InboxOK, NEW ms \in Seq(Msgs)
  PROVE  LET k == Recent(ms)
             n == Len(ms)
         IN /\ k \in 1..(n + 1) /\ Cost(SubSeq(ms, k, n), Overhead) <= Room
            /\ \A j \in 1..(n + 1) : Cost(SubSeq(ms, j, n), Overhead) <= Room => k <= j
            /\ Fitting(ms) = SubSeq(ms, k, n)
<1> DEFINE n == Len(ms)
           S == {k \in 1..n + 1 : Cost(SubSeq(ms, k, n), Overhead) <= Room}
<1>1. n \in Nat /\ Overhead \in Nat /\ Room \in Nat
  BY DEF InboxOK
<1>2. S \in SUBSET Nat /\ S # {}
  <2>1. SubSeq(ms, n + 1, n) = <<>>
    BY <1>1, SubSeqEmpty
  <2>2. n + 1 \in S
    <3> DEFINE z == n + 1
    <3>1. Cost(SubSeq(ms, z, n), Overhead) = 0
      BY <1>1, <2>1, CostNone
    <3>2. 0 <= Room /\ z \in 1..n + 1
      BY <1>1
    <3>3. Cost(SubSeq(ms, z, n), Overhead) <= Room
      BY <3>1, <3>2
    <3>4. z \in S
      BY <3>2, <3>3
    <3> QED  BY <3>4
  <2> QED  BY <1>1, <2>2
<1>3. Recent(ms) = Min(S)
  BY DEF Recent
<1> HIDE DEF S
<1>4. Min(S) \in S /\ \A m \in S : Min(S) <= m
  BY <1>2, MinIs
<1>5. Fitting(ms) = SubSeq(ms, Recent(ms), n)
  BY DEF Fitting, Recent
<1> QED  BY <1>3, <1>4, <1>5 DEF S

\* Where it begins is where one more would not fit.
LEMMA RecentHere ==
  ASSUME InboxOK, NEW ms \in Seq(Msgs), NEW k \in 1..(Len(ms) + 1),
         Cost(SubSeq(ms, k, Len(ms)), Overhead) <= Room,
         k > 1 => ~(Cost(SubSeq(ms, k - 1, Len(ms)), Overhead) <= Room)
  PROVE  Recent(ms) = k
<1> DEFINE n == Len(ms)
           r == Recent(ms)
<1>1. n \in Nat /\ Overhead \in Nat /\ Room \in Nat
  BY DEF InboxOK
<1>2. r \in 1..(n + 1) /\ Cost(SubSeq(ms, r, n), Overhead) <= Room /\ r <= k
  BY RecentIs
<1>3. PICK p : CostRuns(p, ms, Overhead)
  BY <1>1, CostHas
<1>4. p \in [0..n -> Nat] /\ \A i, j \in 0..n : i <= j => p[i] <= p[j]
  BY <1>1, <1>3, CostStep
<1>5. \A i \in 1..(n + 1) : Cost(SubSeq(ms, i, n), Overhead) = p[n] - p[i - 1]
  <2> TAKE i \in 1..(n + 1)
  <2>1. n \in 0..n /\ i <= n + 1
    BY <1>1
  <2> QED  BY <1>1, <1>3, <2>1, CostPart
<1> HIDE DEF n, r
<1>6. SUFFICES ASSUME r < k  PROVE FALSE
  BY <1>1, <1>2 DEF r, n
<1>7. r \in 1..(n + 1) /\ k - 1 \in 1..(n + 1) /\ k > 1 /\ r - 1 \in 0..n /\ (k - 1) - 1 \in 0..n /\ n \in 0..n
      /\ r - 1 <= (k - 1) - 1
  BY <1>1, <1>2, <1>6 DEF n
<1> DEFINE i == k - 1
           x == r - 1
           y == i - 1
<1>8. Cost(SubSeq(ms, i, n), Overhead) = p[n] - p[y] /\ Cost(SubSeq(ms, r, n), Overhead) = p[n] - p[x]
  BY <1>5, <1>7
<1>9. p[x] <= p[y] /\ p[x] \in Nat /\ p[y] \in Nat /\ p[n] \in Nat
  BY <1>4, <1>7
<1>10. ~(Cost(SubSeq(ms, i, n), Overhead) <= Room)
  BY <1>7 DEF n
<1> HIDE DEF i, x, y
<1> DEFINE px == p[x]
           py == p[y]
           pn == p[n]
<1>11. pn - px <= Room /\ ~(pn - py <= Room) /\ px <= py /\ px \in Nat /\ py \in Nat /\ pn \in Nat
  BY <1>2, <1>8, <1>9, <1>10
<1> HIDE DEF px, py, pn
<1> QED  BY <1>1, <1>11

\* What is kept is messages.
LEMMA KeptAre ==
  ASSUME NEW s \in Seq(Kept)
  PROVE  s \in Seq(Msgs)
<1>1. Len(s) \in Nat /\ s \in [1..Len(s) -> Kept] /\ DOMAIN s = 1..Len(s)
  BY LenProperties
<1>2. \A i \in 1..Len(s) : s[i] \in Msgs
  <2>1. \A i \in 1..Len(s) : s[i] \in Kept
    BY <1>1
  <2> QED  BY <2>1 DEF Kept
<1>3. s \in [1..Len(s) -> Msgs]
  BY <1>1, <1>2
<1> QED  BY <1>1, <1>3, SeqDef

\* The newest messages take in what the arena does from the first of them on.
LEMMA PartCost ==
  ASSUME NEW b, NEW o, Laid(b, o), NEW j \in 1..Len(o)
  PROVE  LET part == SubSeq(Held(b, o), j, Len(o) - 1)
         IN part \in Seq(Msgs) /\ Len(part) = Len(o) - j /\ Cost(part, Fixed) = Len(b) - o[j]
<1> DEFINE d == SubSeq(b, o[j] + 1, Len(b))
           part == SubSeq(Held(b, o), j, Len(o) - 1)
<1>0. /\ Len(d) = Len(b) - o[j]
      /\ \E q : Laid(d, q) /\ Len(q) = Len(o) - j + 1 /\ Held(d, q) = part
  BY DropLaid
<1>1. PICK q : Laid(d, q) /\ Len(q) = Len(o) - j + 1 /\ Held(d, q) = part /\ Len(d) = Len(b) - o[j]
  BY <1>0
<1> HIDE DEF d, part
<1>2. part \in Seq(Msgs) /\ Len(part) = Len(q) - 1 /\ Cost(part, Fixed) = Len(d)
  <2>1. Held(d, q) \in Seq(Msgs) /\ Len(Held(d, q)) = Len(q) - 1 /\ Cost(Held(d, q), Fixed) = Len(d)
    BY <1>1, MessagesLaid
  <2> QED  BY <1>1, <2>1
<1>3. Len(o) \in Nat /\ j \in Nat
  BY DEF Laid
<1>4. Len(q) - 1 = Len(o) - j
  BY <1>1, <1>3
<1>5. Len(d) = Len(b) - o[j]
  BY <1>1
<1>6. Len(part) = Len(o) - j /\ Cost(part, Fixed) = Len(b) - o[j]
  BY <1>2, <1>4, <1>5
<1> QED  BY <1>2, <1>6 DEF part

\* How room is made: from the first record on with which all fits.
LEMMA RoomIs ==
  ASSUME InboxOK, NEW b, NEW o, Laid(b, o), NEW take \in Nat, take <= MaxText
  PROVE  LET need == Fixed + take
         IN \E k \in 1..Len(o) :
              /\ MakeRoom(b, need) = SubSeq(b, o[k] + 1, Len(b))
              /\ Len(b) - o[k] + need <= Cap /\ Len(o) - k < Limit
              /\ \A j \in 1..(k - 1) : ~(Len(b) - o[j] + need <= Cap /\ Len(o) - j < Limit)
<1> DEFINE need == Fixed + take
           B == Len(b)
           M == Len(o)
           Enough(k) == \/ B - o[k] = 0
                        \/ B - o[k] + need <= Cap /\ M - k < Limit
           S == {j \in 1..M : Enough(j)}
           k == Min(S)
<1>1. /\ b \in Seq(Nat) /\ o \in Seq(Nat) /\ B \in Nat /\ M \in Nat /\ M >= 1 /\ o[M] = B /\ DOMAIN o = 1..M
      /\ Append(Walk(b, All), B) = o
  <2>1. Append(Walk(b, All), B) = o
    BY WalkLaid
  <2> QED  BY <2>1 DEF Laid
<1>2. need \in Nat /\ need <= Cap /\ Cap \in Nat /\ Limit \in Nat /\ Limit > 0
  BY DEF InboxOK, Fixed
<1>3. S \in SUBSET Nat /\ S # {}
  <2>1. M \in S
    BY <1>1
  <2> QED  BY <1>1, <2>1
<1>4. MakeRoom(b, need) = SubSeq(b, o[k] + 1, B)
  BY <1>1 DEF MakeRoom
<1>5. k \in S /\ \A j \in S : k <= j
  <2> HIDE DEF S
  <2> QED  BY <1>3, MinIs
<1>6. k \in 1..M /\ Enough(k)
  BY <1>5
<1> HIDE DEF k
<1>7. \A j \in 1..(k - 1) : ~Enough(j)
  <2> TAKE j \in 1..(k - 1)
  <2>1. j \in 1..M /\ ~(k <= j)
    BY <1>1, <1>6
  <2>2. j \notin S
    BY <1>5, <2>1
  <2> QED  BY <2>1, <2>2
<1> HIDE DEF S
<1>8. B - o[k] + need <= Cap /\ M - k < Limit
  <2> SUFFICES ASSUME B - o[k] = 0  PROVE B - o[k] + need <= Cap /\ M - k < Limit
    BY <1>6
  <2>1. k = M
    <3> SUFFICES ASSUME k # M  PROVE FALSE
      OBVIOUS
    <3>1. k < M /\ k \in 1..Len(o) /\ M \in 1..Len(o)
      <4>1. k \in 1..M
        BY <1>6
      <4>2. M \in Nat /\ M >= 1
        BY <1>1
      <4> HIDE DEF M, B
      <4>3. k < M /\ k \in 1..M /\ M \in 1..M
        BY <4>1, <4>2
      <4> QED  BY <4>3 DEF M
    <3>2. o[k] + 2 <= o[M] /\ o[k] \in Nat
      BY <3>1, LaidUp
    <3> DEFINE x == o[k]
    <3> HIDE DEF x, B, M
    <3>3. x + 2 <= B /\ B - x = 0 /\ x \in Nat
      BY <1>1, <3>2 DEF x
    <3> QED  BY <1>1, <3>3
  <2> DEFINE x == o[k]
  <2> HIDE DEF x, need, M, B
  <2>2. B - x = 0
    BY DEF x
  <2>3. B - x + need <= Cap /\ M - k < Limit
    BY <1>1, <1>2, <2>1, <2>2
  <2> QED  BY <2>3 DEF x
<1> QED  BY <1>4, <1>6, <1>7, <1>8

\* add and restore: the message comes last, cut to what may be kept; the oldest
\* have gone that left no place for it, and no other.
LEMMA StoredIs ==
  ASSUME InboxOK, NEW b, Sound(b), Holdable(Messages(b)),
         NEW head \in Nat, Where(head) \in Wheres, NEW t \in Seq(Nat), Readable(t)
  PROVE  LET c == Stored(b, head, t)
             ms == Messages(b)
             n == Len(ms)
             m == [where |-> Where(head), read |-> Read(head), text |-> SubSeq(t, 1, Fit(t))]
         IN /\ Sound(c) /\ Holdable(Messages(c)) /\ m \in Kept
            /\ \E k \in 1..(n + 1) :
                 LET End(j) == SubSeq(ms, j, n)
                     Holds(j) == Len(End(j)) < Limit /\ Cost(Append(End(j), m), Fixed) <= Cap
                 IN /\ Messages(c) = Append(End(k), m)
                    /\ Holds(k) /\ \A j \in 1..(k - 1) : ~Holds(j)
<1> DEFINE c == Stored(b, head, t)
           ms == Messages(b)
           n == Len(ms)
           take == Fit(t)
           cut == SubSeq(t, 1, take)
           m == Told(head, cut)
           o == Offsets(b)
           End(j) == SubSeq(ms, j, n)
           Holds(j) == Len(End(j)) < Limit /\ Cost(Append(End(j), m), Fixed) <= Cap
<1>1. /\ Laid(b, o) /\ ms = Held(b, o) /\ ms \in Seq(Msgs) /\ n = Len(o) - 1 /\ n \in Nat
      /\ b \in Seq(Nat) /\ Len(b) \in Nat
  BY SoundHas
<1>2. ms \in Seq(Kept)
  BY DEF Holdable
<1>3. take \in Nat /\ take <= MaxText /\ cut \in Seq(Nat) /\ Len(cut) = take /\ Readable(cut)
  <2>1. take \in 0..Len(t) /\ take <= MaxText /\ cut \in Seq(Nat) /\ Len(cut) = take /\ Readable(cut)
    BY FitIs
  <2>2. take \in Nat
    BY <2>1
  <2> QED  BY <2>1, <2>2
<1>4. Limit \in Nat /\ Cap \in Nat
  BY DEF InboxOK
<1> HIDE DEF o, take
<1>5. Len(o) \in Nat /\ Len(o) = n + 1 /\ \A j \in 1..Len(o) : o[j] \in Nat /\ o[j] <= Len(b)
  <2>1. Len(o) \in Nat
    BY <1>1 DEF Laid
  <2>2. \A j \in 1..Len(o) : o[j] \in Nat /\ o[j] <= Len(b)
    BY <1>1, LaidUp
  <2> HIDE DEF n
  <2> QED  BY <1>1, <2>1, <2>2
<1> HIDE DEF cut
<1>6. m \in Msgs /\ m \in Kept /\ m.text = cut
  <2>1. Where(head) \in Nat /\ Read(head) \in BOOLEAN
    BY DEF Where, Read
  <2>2. m \in Msgs /\ m.where = Where(head) /\ m.text = cut
    BY <1>3, <2>1 DEF Msgs, Told
  <2> QED  BY <1>3, <2>2 DEF Kept
<1> HIDE DEF m
<1>7. PICK k \in 1..Len(o) :
        /\ MakeRoom(b, Fixed + take) = SubSeq(b, o[k] + 1, Len(b))
        /\ Len(b) - o[k] + (Fixed + take) <= Cap /\ Len(o) - k < Limit
        /\ \A j \in 1..(k - 1) : ~(Len(b) - o[j] + (Fixed + take) <= Cap /\ Len(o) - j < Limit)
  <2>1. Laid(b, o) /\ take \in Nat /\ take <= MaxText
    BY <1>1, <1>3
  <2> HIDE DEF ms, n
  <2> QED  BY <2>1, RoomIs
<1>8. \A j \in 1..Len(o) :
        /\ End(j) \in Seq(Msgs) /\ Len(End(j)) = Len(o) - j
        /\ Cost(Append(End(j), m), Fixed) = Len(b) - o[j] + (Fixed + take)
  <2> TAKE j \in 1..Len(o)
  <2>1. End(j) \in Seq(Msgs) /\ Len(End(j)) = Len(o) - j /\ Cost(End(j), Fixed) = Len(b) - o[j]
    <3>1. /\ SubSeq(Held(b, o), j, Len(o) - 1) \in Seq(Msgs)
          /\ Len(SubSeq(Held(b, o), j, Len(o) - 1)) = Len(o) - j
          /\ Cost(SubSeq(Held(b, o), j, Len(o) - 1), Fixed) = Len(b) - o[j]
      <4>1. Laid(b, o)
        BY <1>1
      <4> HIDE DEF ms, n
      <4> QED  BY <4>1, PartCost
    <3> QED  BY <1>1, <3>1
  <2> DEFINE f == End(j)
             x == o[j]
             y == Cost(f, Fixed)
             z == Cost(Append(f, m), Fixed)
  <2> HIDE DEF f
  <2>2. y \in Nat /\ z = (y + Fixed) + Len(m.text) /\ Fixed \in Nat
    BY <1>6, <2>1, CostAppend DEF f, Fixed
  <2>3. y = Len(b) - x /\ x \in Nat /\ Len(m.text) = take
    BY <1>3, <1>5, <1>6, <2>1 DEF f
  <2> HIDE DEF x, y, z
  <2>4. z = Len(b) - x + (Fixed + take)
    BY <1>1, <1>3, <2>2, <2>3
  <2> QED  BY <2>1, <2>4 DEF f, x, z
<1> DEFINE d == SubSeq(b, o[k] + 1, Len(b))
<1>9. PICK q : Laid(d, q) /\ Len(q) = Len(o) - k + 1 /\ Held(d, q) = End(k)
  <2>1. \E q : Laid(d, q) /\ Len(q) = Len(o) - k + 1 /\ Held(d, q) = SubSeq(Held(b, o), k, Len(o) - 1)
    BY <1>1, DropLaid
  <2> HIDE DEF ms, n
  <2> QED  BY <1>1, <2>1
<1>10. c = Packed(d, head, cut)
  BY <1>3, <1>7 DEF Stored, Packed, take, cut
<1> HIDE DEF d, c
<1>11. PICK r : Laid(c, r) /\ Held(c, r) = Append(End(k), m)
  <2>1. \E r : Laid(c, r) /\ Held(c, r) = Append(Held(d, q), m)
    <3>1. Laid(d, q) /\ cut \in Seq(Nat)
      BY <1>3, <1>9
    <3> HIDE DEF ms, n
    <3>2. head \in Nat
      OBVIOUS
    <3>3. \E r : Laid(Packed(d, head, cut), r)
                /\ Held(Packed(d, head, cut), r) = Append(Held(d, q), Told(head, cut))
      BY ONLY <3>1, <3>2, PutLaid, Zenon
    <3> QED  BY <1>10, <3>3 DEF m
  <2> HIDE DEF ms, n
  <2> QED  BY <1>9, <2>1
<1>12. Sound(c) /\ Messages(c) = Append(End(k), m)
  BY <1>11, SoundIs
<1>13. Holds(k)
  BY <1>7, <1>8
<1>14. \A j \in 1..(k - 1) : ~Holds(j)
  <2> TAKE j \in 1..(k - 1)
  <2>1. j \in 1..Len(o)
    BY <1>5
  <2> QED  BY <1>7, <1>8, <2>1
<1>15. Holdable(Messages(c))
  <2> DEFINE f == End(k)
             a == k - 1
  <2>1. f \in Seq(Kept)
    <3>1. a \in Nat /\ a <= n /\ a + 1 = k /\ n \in Nat /\ n <= n
      BY <1>5, <1>1
    <3> HIDE DEF a, ms
    <3>2. SubSeq(ms, a + 1, n) \in Seq(Kept)
      BY <1>2, <3>1, Slice
    <3> QED  BY <3>1, <3>2
  <2>2. Len(f) < Limit /\ Cost(Append(f, m), Fixed) <= Cap
    BY <1>13
  <2> HIDE DEF f
  <2>3. Append(f, m) \in Seq(Kept) /\ Len(Append(f, m)) = Len(f) + 1 /\ Len(f) \in Nat
    BY <1>6, <2>1, AppendProperties, LenProperties
  <2>4. Len(Append(f, m)) <= Limit
    BY <1>4, <2>2, <2>3
  <2> QED  BY <1>12, <2>2, <2>3, <2>4 DEF Holdable, f
<1>16. k \in 1..(n + 1)
  BY <1>5
<1> QED  BY <1>6, <1>12, <1>13, <1>14, <1>15, <1>16 DEF c, m, cut, take, Told

\* read: every message of that conversation is read, and nothing else changes.
LEMMA MarkedIs ==
  ASSUME NEW b, Sound(b), Holdable(Messages(b)), NEW want
  PROVE  LET c == Marked(b, want)
             ms == Messages(b)
         IN /\ Sound(c) /\ Holdable(Messages(c))
            /\ Messages(c) = [i \in DOMAIN ms |-> IF want \in {All, ms[i].where}
                                THEN [ms[i] EXCEPT !.read = TRUE] ELSE ms[i]]
            /\ Unread(b, want) = {} => c = b
<1> DEFINE c == Marked(b, want)
           ms == Messages(b)
           o == Offsets(b)
           n == Len(ms)
           After(m) == IF want \in {All, m.where} THEN [m EXCEPT !.read = TRUE] ELSE m
           us == [i \in 1..n |-> After(ms[i])]
           cs == Messages(c)
<1>1. /\ Laid(b, o) /\ ms = Held(b, o) /\ ms \in Seq(Msgs) /\ n = Len(o) - 1 /\ n \in Nat
      /\ Cost(ms, Fixed) = Len(b)
  BY SoundHas
<1>2. /\ Laid(c, o) /\ Len(c) = Len(b)
      /\ \A k \in 1..(Len(o) - 1) :
           At(c, o[k]) = IF want \in {All, At(b, o[k]).where}
                         THEN [At(b, o[k]) EXCEPT !.read = TRUE] ELSE At(b, o[k])
      /\ Unread(b, want) = {} => c = b
  BY <1>1, MarkedLaid
<1>3. ms \in Seq(Kept) /\ n <= Limit /\ Cost(ms, Fixed) <= Cap
  BY DEF Holdable
<1> HIDE DEF c, o, ms, n
<1>4. \A i \in 1..n : ms[i] = At(b, o[i])
  BY <1>1, HeldIs
<1>5. Sound(c) /\ cs = Held(c, o)
  BY <1>2, SoundIs
<1>6. cs \in Seq(Msgs) /\ Len(cs) = n /\ \A i \in 1..n : cs[i] = At(c, o[i])
  <2>1. Held(c, o) \in Seq(Msgs) /\ Len(Held(c, o)) = n /\ \A i \in 1..n : Held(c, o)[i] = At(c, o[i])
    BY <1>1, <1>2, HeldIs
  <2> QED  BY <1>5, <2>1
<1>7. Cost(cs, Fixed) = Len(b)
  <2>1. Cost(Held(c, o), Fixed) = Len(c)
    BY <1>2, MessagesLaid
  <2> QED  BY <1>2, <1>5, <2>1
<1> HIDE DEF cs
<1>8. \A i \in 1..n : cs[i] = After(ms[i])
  BY <1>1, <1>2, <1>4, <1>6
<1>9. \A i \in 1..n : cs[i] \in Kept
  <2> TAKE i \in 1..n
  <2>1. ms[i] \in Kept
    BY <1>1, <1>3, ElementOfSeq DEF n
  <2> DEFINE m == ms[i]
  <2> HIDE DEF m
  <2>2. m \in Kept
    BY <2>1 DEF m
  <2>3. After(m) \in Kept
    BY <2>2 DEF Kept, Msgs
  <2> QED  BY <1>8, <2>3 DEF m
<1> HIDE DEF After
<1>10. DOMAIN cs = 1..n /\ DOMAIN ms = 1..n /\ cs = [i \in 1..n |-> cs[i]]
  <2>1. cs \in [1..Len(cs) -> Msgs] /\ DOMAIN cs = 1..Len(cs) /\ DOMAIN ms = 1..Len(ms)
    BY <1>1, <1>6, LenProperties
  <2> QED  BY <1>6, <2>1 DEF n
<1>11. cs = us
  BY <1>8, <1>10
<1>12. cs \in Seq(Kept)
  <2>1. cs \in [1..n -> Kept]
    BY <1>9, <1>10
  <2> QED  BY <1>1, <2>1, SeqDef
<1>13. Holdable(cs)
  BY <1>1, <1>3, <1>6, <1>7, <1>12 DEF Holdable
<1>14. cs = [i \in DOMAIN ms |-> After(ms[i])]
  BY <1>10, <1>11
<1> QED  BY <1>2, <1>5, <1>13, <1>14 DEF c, ms, cs, After

\* newest(): the records one by one, then no more.
OneByOne(b, o, n) ==
  /\ NextAfter(b, -1, All) = IF n = 0 THEN -1 ELSE o[1]
  /\ \A k \in 1..n : NextAfter(b, o[k], All) = IF k = n THEN -1 ELSE o[k + 1]

LEMMA NextLaid ==
  ASSUME NEW b, NEW o, Laid(b, o), NEW n, n = Len(o) - 1
  PROVE  OneByOne(b, o, n)
<1>1. Len(o) \in Nat /\ Len(o) >= 1 /\ n \in Nat /\ Len(o) = n + 1
  BY DEF Laid
<1> DEFINE f == From(b, All)
<1>2. /\ f[o[Len(o)]] = -1 /\ NextAfter(b, -1, All) = f[o[1]]
      /\ \A k \in 1..n : f[o[k]] = o[k] /\ NextAfter(b, o[k], All) = f[o[k + 1]]
  <2>1. /\ From(b, All)[o[Len(o)]] = -1
        /\ \A k \in 1..(Len(o) - 1) :
              /\ From(b, All)[o[k]] = IF Selected(b, o[k], All) THEN o[k] ELSE From(b, All)[o[k + 1]]
              /\ NextAfter(b, o[k], All) = From(b, All)[o[k + 1]]
        /\ NextAfter(b, -1, All) = From(b, All)[o[1]]
    BY FromLaid
  <2> QED  BY <2>1, AllAre
<1> HIDE DEF f
<1>3. f[o[n + 1]] = -1
  BY <1>1, <1>2
<1>4. NextAfter(b, -1, All) = IF n = 0 THEN -1 ELSE o[1]
  <2>1. CASE n = 0
    BY <1>1, <1>2, <2>1
  <2>2. CASE n # 0
    <3>1. 1 \in 1..n
      BY <1>1, <2>2
    <3> QED  BY <1>2, <2>2, <3>1
  <2> QED  BY <2>1, <2>2
<1>5. ASSUME NEW k \in 1..n
      PROVE  NextAfter(b, o[k], All) = IF k = n THEN -1 ELSE o[k + 1]
  <2>1. CASE k = n
    BY <1>2, <1>3, <2>1
  <2>2. CASE k # n
    <3>1. k + 1 \in 1..n
      BY <1>1, <2>2
    <3> QED  BY <1>2, <2>2, <3>1
  <2> QED  BY <2>1, <2>2
<1> QED  BY <1>4, <1>5 DEF OneByOne

\* inbox_read: where a record is, and what is written of it.
LEMMA SightIs ==
  ASSUME NEW b, NEW o, Laid(b, o), NEW k \in 1..(Len(o) - 1)
  PROVE  LET off == o[k]
             v == Sight(b, off)
         IN /\ off + Fixed <= Len(b) /\ off + Length(b, off) <= Len(b)
            /\ v.take = Len(Held(b, o)[k].text)
            /\ [where |-> Where(v.head), read |-> Read(v.head), text |-> Text(b, v.at, v.take)] = Held(b, o)[k]
<1> DEFINE x == o[k]
           l == Length(b, x)
           h == b[x + 1]
           s == At(b, x).text
           w == Text(b, x, l - 2)
<1>1. /\ x \in Nat /\ l \in Nat /\ l >= 2 /\ x + 2 <= Len(b) /\ x + l <= Len(b) /\ b \in Seq(Nat)
      /\ Len(b) \in Nat
  <2>1. /\ o[k] \in Nat /\ o[k + 1] \in Nat /\ Length(b, o[k]) \in Nat
        /\ o[k + 1] <= Len(b) /\ o[k] + 2 <= Len(b)
        /\ o[k + 1] = o[k] + Length(b, o[k]) /\ Length(b, o[k]) >= 2
    BY LaidAt
  <2>2. b \in Seq(Nat)
    BY DEF Laid
  <2> QED  BY <2>1, <2>2
<1>2. Held(b, o)[k] = At(b, x)
  BY DEF Held
<1>3. Length(b, x) = l
  OBVIOUS
<1> HIDE DEF l
<1>4. /\ At(b, x) = [where |-> Where(h), read |-> Read(h), text |-> s]
      /\ s \in Seq(Nat) /\ Len(s) = l - 2 /\ \A i \in 1..(l - 2) : s[i] = b[x + (2 + i)]
  <2> HIDE DEF x
  <2> QED  BY <1>1, <1>3, AtIs
<1>5. Byte(b, x) = h /\ Byte(b, x + 1) = l - 2
  <2>1. Byte(b, x) = b[x + 1] /\ Byte(b, x + 1) = b[x + 2] /\ Length(b, x) = 2 + b[x + 2] /\ b[x + 2] \in Nat
    <3> HIDE DEF x
    <3> QED  BY <1>1, BytesAre
  <2> DEFINE y == b[x + 2]
  <2>2. l = 2 + y /\ y \in Nat
    BY <1>3, <2>1
  <2> HIDE DEF y
  <2>3. y = l - 2
    BY <2>2
  <2> QED  BY <2>1, <2>3 DEF y
<1> HIDE DEF x, s, h
<1>6. w = s
  <2>1. \A i \in 1..(l - 2) : Byte(b, x + Fixed + i - 1) = s[i]
    <3> TAKE i \in 1..(l - 2)
    <3> DEFINE z == x + Fixed + i - 1
    <3>1. z < Len(b) /\ z + 1 = x + (2 + i)
      BY <1>1 DEF Fixed
    <3> HIDE DEF z
    <3>2. Byte(b, z) = b[z + 1]
      BY <3>1 DEF Byte
    <3>3. b[z + 1] = s[i]
      BY <1>4, <3>1
    <3> QED  BY <3>2, <3>3 DEF z
  <2>2. w = [i \in 1..(l - 2) |-> s[i]]
    BY <2>1 DEF Text
  <2>3. s = [i \in 1..(l - 2) |-> s[i]]
    <3>1. s \in [1..Len(s) -> Nat]
      BY <1>4, LenProperties
    <3> QED  BY <1>4, <3>1
  <2> QED  BY <2>2, <2>3
<1> DEFINE v == Sight(b, x)
<1>7. v.head = h /\ v.at = x /\ v.take = l - 2
  BY <1>5 DEF Sight
<1>8. At(b, x).text = s
  BY DEF s
<1> HIDE DEF v
<1>9. [where |-> Where(v.head), read |-> Read(v.head), text |-> Text(b, v.at, v.take)] = At(b, x)
  BY <1>4, <1>6, <1>7
<1>10. x + Fixed <= Len(b) /\ x + Length(b, x) <= Len(b)
  BY <1>1, <1>3 DEF Fixed
<1>11. v.take = Len(At(b, x).text)
  BY <1>4, <1>7, <1>8
<1> QED  BY <1>2, <1>9, <1>10, <1>11 DEF v, x

\* A head says the conversation and whether it was read.
LEMMA CodeIs ==
  ASSUME NEW w \in Nat, NEW r \in BOOLEAN
  PROVE  Code(w, r) \in Nat /\ Where(Code(w, r)) = w /\ Read(Code(w, r)) = r
<1>1. CASE r = TRUE
  <2>1. Code(w, r) = 2 * w + 1
    BY <1>1 DEF Code
  <2>2. 2 * w + 1 \in Nat /\ (2 * w + 1) \div 2 = w /\ (2 * w + 1) % 2 = 1
    OBVIOUS
  <2>3. (Code(w, r) % 2 = 1) = TRUE
    BY <2>1, <2>2
  <2> QED  BY <1>1, <2>1, <2>2, <2>3 DEF Where, Read
<1>2. CASE r = FALSE
  <2>1. Code(w, r) = 2 * w
    <3>1. Code(w, r) = 2 * w + 0
      BY <1>2 DEF Code
    <3> QED  BY <3>1
  <2>2. 2 * w \in Nat /\ (2 * w) \div 2 = w /\ (2 * w) % 2 = 0
    OBVIOUS
  <2>3. (Code(w, r) % 2 = 1) = FALSE
    BY <2>1, <2>2
  <2> QED  BY <1>2, <2>1, <2>2, <2>3 DEF Where, Read
<1> QED  BY <1>1, <1>2

\* A slice grows by the member after it.
LEMMA SliceMore ==
  ASSUME NEW S, NEW s \in Seq(S), NEW a \in Nat, NEW z \in Nat, a <= z, z < Len(s)
  PROVE  Append(SubSeq(s, a + 1, z), s[z + 1]) = SubSeq(s, a + 1, z + 1)
<1> DEFINE t == SubSeq(s, a + 1, z)
           y == z + 1
           u == SubSeq(s, a + 1, y)
           e == s[y]
           g == Append(t, e)
           l == z - a
<1>1. Len(s) \in Nat /\ y \in 1..Len(s) /\ y \in Nat /\ y <= Len(s) /\ a <= y /\ l \in Nat /\ y - a = l + 1
      /\ z <= Len(s) /\ a + (l + 1) = y
  OBVIOUS
<1>2. e \in S
  BY <1>1, ElementOfSeq
<1>3. t \in Seq(S) /\ Len(t) = l /\ \A i \in 1..l : t[i] = s[a + i]
  BY <1>1, Slice
<1> HIDE DEF y, l
<1>4. u \in Seq(S) /\ Len(u) = l + 1 /\ \A i \in 1..(l + 1) : u[i] = s[a + i]
  <2>1. u \in Seq(S) /\ Len(u) = y - a /\ \A i \in 1..(y - a) : u[i] = s[a + i]
    BY <1>1, Slice
  <2> QED  BY <1>1, <2>1
<1> HIDE DEF t, u, e
<1>5. g \in Seq(S) /\ Len(g) = l + 1 /\ g[l + 1] = e /\ \A i \in 1..l : g[i] = t[i]
  BY <1>2, <1>3, AppendProperties
<1> HIDE DEF g
<1>6. \A i \in 1..(l + 1) : g[i] = u[i]
  <2> TAKE i \in 1..(l + 1)
  <2>1. CASE i = l + 1
    <3>1. u[i] = s[y]
      BY <1>1, <1>4, <2>1
    <3> QED  BY <1>5, <2>1, <3>1 DEF e
  <2>2. CASE i # l + 1
    <3>1. i \in 1..l
      BY <1>1, <2>2
    <3> QED  BY <1>3, <1>4, <1>5, <3>1
  <2> QED  BY <2>1, <2>2
<1>7. g = u
  BY <1>4, <1>5, <1>6, SeqEqual
<1> QED  BY <1>7 DEF g, u, t, e, y

\* A beginning of a sequence, its last member and the rest.
LEMMA PrefixIs ==
  ASSUME NEW S, NEW s \in Seq(S), NEW z \in Nat, z <= Len(s)
  PROVE  LET t == SubSeq(s, 1, z)
         IN /\ t \in Seq(S) /\ Len(t) = z /\ \A i \in 1..z : t[i] = s[i]
            /\ t = <<>> <=> z = 0
            /\ z > 0 => Last(t) = s[z] /\ Front(t) = SubSeq(s, 1, z - 1)
<1> DEFINE t == SubSeq(s, 1, z)
<1>1. Len(s) \in Nat
  OBVIOUS
<1>2. t \in Seq(S) /\ Len(t) = z /\ \A i \in 1..z : t[i] = s[i]
  <2>1. 0 \in Nat /\ 0 <= z /\ 0 + 1 = 1 /\ z - 0 = z
    OBVIOUS
  <2>2. /\ SubSeq(s, 0 + 1, z) \in Seq(S) /\ Len(SubSeq(s, 0 + 1, z)) = z - 0
        /\ \A i \in 1..(z - 0) : SubSeq(s, 0 + 1, z)[i] = s[0 + i]
    BY <2>1, Slice
  <2> QED  BY <2>1, <2>2
<1> HIDE DEF t
<1>3. t = <<>> <=> z = 0
  BY <1>2, EmptySeq
<1>4. ASSUME z > 0
      PROVE  Last(t) = s[z] /\ Front(t) = SubSeq(s, 1, z - 1)
  <2>1. Last(t) = s[z]
    <3>1. z \in 1..z
      BY <1>4
    <3> QED  BY <1>2, <3>1 DEF Last
  <2> DEFINE y == z - 1
             f == SubSeq(t, 1, y)
             g == SubSeq(s, 1, y)
  <2>2. y \in Nat /\ y <= Len(t) /\ y <= Len(s) /\ \A i \in 1..y : i \in 1..z
    BY <1>1, <1>2, <1>4
  <2> HIDE DEF y
  <2>3. f \in Seq(S) /\ Len(f) = y /\ \A i \in 1..y : f[i] = t[i]
    <3>1. 0 \in Nat /\ 0 <= y /\ 0 + 1 = 1 /\ y - 0 = y
      BY <2>2
    <3>2. /\ SubSeq(t, 0 + 1, y) \in Seq(S) /\ Len(SubSeq(t, 0 + 1, y)) = y - 0
          /\ \A i \in 1..(y - 0) : SubSeq(t, 0 + 1, y)[i] = t[0 + i]
      BY <1>2, <2>2, <3>1, Slice
    <3> QED  BY <3>1, <3>2
  <2>4. g \in Seq(S) /\ Len(g) = y /\ \A i \in 1..y : g[i] = s[i]
    <3>1. 0 \in Nat /\ 0 <= y /\ 0 + 1 = 1 /\ y - 0 = y
      BY <2>2
    <3>2. /\ SubSeq(s, 0 + 1, y) \in Seq(S) /\ Len(SubSeq(s, 0 + 1, y)) = y - 0
          /\ \A i \in 1..(y - 0) : SubSeq(s, 0 + 1, y)[i] = s[0 + i]
      BY <2>2, <3>1, Slice
    <3> QED  BY <3>1, <3>2
  <2> HIDE DEF f, g
  <2>5. \A i \in 1..y : f[i] = g[i]
    BY <1>2, <2>2, <2>3, <2>4
  <2>6. f = g
    BY <2>3, <2>4, <2>5, SeqEqual
  <2>7. Front(t) = f
    BY <1>2 DEF Front, f, y
  <2> QED  BY <2>1, <2>6, <2>7 DEF g, y
<1> QED  BY <1>2, <1>3, <1>4 DEF t

\* Nothing is holdable, and so are the newest of what is.
LEMMA HoldNone ==
  ASSUME InboxOK
  PROVE  Holdable(<<>>) /\ Cost(<<>>, Overhead) <= Room /\ Fitting(<<>>) = <<>>
<1>1. Overhead \in Nat /\ Room \in Nat /\ Cap \in Nat /\ Limit \in Nat /\ Fixed \in Nat
  BY DEF InboxOK, Fixed
<1>2. <<>> \in Seq(Kept) /\ <<>> \in Seq(Msgs) /\ Len(<<>>) = 0
  BY EmptySeq
<1>3. Cost(<<>>, Overhead) = 0 /\ Cost(<<>>, Fixed) = 0
  BY <1>1, CostNone
<1>4. Fitting(<<>>) = <<>>
  <2>1. /\ Recent(<<>>) \in 1..(Len(<<>>) + 1)
        /\ Fitting(<<>>) = SubSeq(<<>>, Recent(<<>>), Len(<<>>))
    BY <1>2, RecentIs
  <2> DEFINE k == Recent(<<>>)
  <2>2. k = 1
    BY <1>2, <2>1
  <2> HIDE DEF k
  <2>3. SubSeq(<<>>, 1, 0) = <<>>
    BY SubSeqEmpty
  <2> QED  BY <1>2, <2>1, <2>2, <2>3 DEF k
<1>5. 0 <= Limit /\ 0 <= Cap /\ 0 <= Room
  BY <1>1
<1> QED  BY <1>2, <1>3, <1>4, <1>5 DEF Holdable

\* The recent end of what may be held may be held.
LEMMA HoldLess ==
  ASSUME InboxOK, NEW ms, Holdable(ms), NEW k \in 1..(Len(ms) + 1)
  PROVE  Holdable(SubSeq(ms, k, Len(ms)))
<1> DEFINE n == Len(ms)
           a == k - 1
           part == SubSeq(ms, k, n)
<1>1. ms \in Seq(Kept) /\ n <= Limit /\ Cost(ms, Fixed) <= Cap /\ n \in Nat /\ ms \in Seq(Msgs)
  <2>1. ms \in Seq(Kept) /\ n <= Limit /\ Cost(ms, Fixed) <= Cap
    BY DEF Holdable
  <2> QED  BY <2>1, KeptAre, LenProperties
<1>2. Limit \in Nat /\ Cap \in Nat /\ Fixed \in Nat
  BY DEF InboxOK, Fixed
<1>3. a \in Nat /\ a <= n /\ k = a + 1 /\ n <= n /\ k \in 1..(n + 1) /\ n \in 0..n /\ k <= n + 1 /\ a \in 0..n
      /\ 0 \in 0..n /\ 0 <= a /\ n <= Len(ms)
  BY <1>1
<1>4. part \in Seq(Kept) /\ Len(part) = n - a
  <2> HIDE DEF a, n
  <2> QED  BY <1>1, <1>3, Slice
<1>5. Len(part) <= Limit
  <2> HIDE DEF part, a, n
  <2> QED  BY <1>1, <1>2, <1>3, <1>4
<1>6. Cost(part, Fixed) <= Cap
  <2>1. PICK p : CostRuns(p, ms, Fixed)
    BY <1>1, <1>2, CostHas
  <2>2. p \in [0..n -> Nat] /\ p[0] = 0 /\ (\A i, j \in 0..n : i <= j => p[i] <= p[j]) /\ Cost(ms, Fixed) = p[n]
    BY <1>1, <1>2, <2>1, CostStep
  <2>3. Cost(part, Fixed) = p[n] - p[a]
    BY <1>1, <1>2, <1>3, <2>1, CostPart
  <2> HIDE DEF part, n, a
  <2> DEFINE x == p[n]
             y == p[a]
  <2>4. x \in Nat /\ y \in Nat /\ x <= Cap
    BY <1>1, <1>3, <2>2
  <2> HIDE DEF x, y
  <2>5. x - y <= Cap
    BY <1>2, <2>4
  <2> QED  BY <2>3, <2>5 DEF x, y
<1> QED  BY <1>4, <1>5, <1>6 DEF Holdable

LEMMA SightTakes ==
  ASSUME NEW b, NEW o, Laid(b, o), NEW k \in 1..(Len(o) - 1)
  PROVE  Sight(b, o[k]).take = Len(Held(b, o)[k].text)
  BY SightIs

-----------------------------------------------------------------------------
(* A save, record by record.                                               *)

\* They are one by one, newest first, the last of the n records at o.
Sighted(b, o, n, vs) == \A i \in 1..Len(vs) : vs[i] = Sight(b, o[n - i + 1])

Sights == [head : Nat, at : Nat, take : Nat]

\* What is seen of a record is three numbers.
LEMMA SightType ==
  ASSUME NEW b, NEW o, Laid(b, o), NEW k \in 1..(Len(o) - 1)
  PROVE  Sight(b, o[k]) \in Sights
<1>1. b \in Seq(Nat) /\ o[k] \in Nat /\ o[k] + 2 <= Len(b)
  BY LaidAt DEF Laid
<1>2. Byte(b, o[k]) \in Nat /\ Byte(b, o[k] + 1) \in Nat
  BY <1>1, BytesAre
<1> QED  BY <1>1, <1>2 DEF Sight, Sights

LEMMA SeenIs ==
  ASSUME NEW b, NEW o, Laid(b, o), NEW vs, Seen(b, vs), NEW n, n = Len(o) - 1
  PROVE  /\ n \in Nat /\ Len(vs) \in 0..n /\ vs \in Seq(Sights)
         /\ DOMAIN vs = 1..Len(vs) /\ Sighted(b, o, n, vs)
<1>1. n \in Nat /\ Offsets(b) = o
  <2>1. n \in Nat
    BY DEF Laid
  <2> QED  BY <2>1, SoundIs
<1> DEFINE v == Len(vs)
<1>2. v \in 0..n /\ vs = [i \in 1..v |-> Sight(b, o[n - i + 1])]
  BY <1>1 DEF Seen
<1> HIDE DEF v
<1>3. DOMAIN vs = 1..v /\ \A i \in 1..v : vs[i] = Sight(b, o[n - i + 1])
  BY <1>2
<1>4. \A i \in 1..v : vs[i] \in Sights
  <2> TAKE i \in 1..v
  <2> DEFINE k == n - i + 1
  <2>1. k \in 1..(Len(o) - 1)
    BY <1>1, <1>2
  <2> HIDE DEF k
  <2>2. Sight(b, o[k]) \in Sights
    BY <2>1, SightType
  <2> QED  BY <1>3, <2>2 DEF k
<1>5. v \in Nat /\ vs \in [1..v -> Sights]
  BY <1>1, <1>2, <1>4
<1>6. vs \in Seq(Sights)
  BY <1>5, SeqDef
<1> QED  BY <1>1, <1>2, <1>3, <1>6 DEF v, Sighted

LEMMA SeenMade ==
  ASSUME NEW b, NEW o, Laid(b, o), NEW n, n = Len(o) - 1, NEW vs \in Seq(Sights), Len(vs) <= n,
         Sighted(b, o, n, vs)
  PROVE  Seen(b, vs)
<1>1. n \in Nat /\ Offsets(b) = o
  <2>1. n \in Nat
    BY DEF Laid
  <2> QED  BY <2>1, SoundIs
<1> DEFINE v == Len(vs)
<1>2. v \in 0..n
  BY <1>1
<1>3. vs = [i \in 1..v |-> Sight(b, o[n - i + 1])]
  <2>1. vs \in [1..v -> Sights]
    BY LenProperties
  <2> QED  BY <2>1 DEF Sighted
<1> QED  BY <1>1, <1>2, <1>3 DEF Seen

LEMMA SeenNone ==
  ASSUME NEW b, Sound(b)
  PROVE  Seen(b, <<>>)
<1>1. Laid(b, Offsets(b))
  BY SoundHas
<1>2. Len(Offsets(b)) - 1 \in Nat
  BY <1>1 DEF Laid
<1>3. <<>> \in Seq(Sights) /\ Len(<<>>) = 0
  BY EmptySeq
<1> DEFINE o == Offsets(b)
           n == Len(o) - 1
           none == <<>>
<1>4. none \in Seq(Sights) /\ Len(none) <= n /\ Sighted(b, o, n, none)
  BY <1>2, <1>3 DEF Sighted
<1> HIDE DEF none, o
<1>5. Laid(b, o)
  BY <1>1 DEF o
<1>6. Seen(b, none)
  BY <1>4, <1>5, SeenMade
<1> QED  BY <1>6 DEF none

LEMMA SeenMore ==
  ASSUME NEW b, NEW o, Laid(b, o), NEW n, n = Len(o) - 1, NEW vs, Seen(b, vs), Len(vs) < n
  PROVE  /\ Seen(b, Append(vs, Sight(b, o[n - Len(vs)])))
         /\ Len(Append(vs, Sight(b, o[n - Len(vs)]))) = Len(vs) + 1
<1> DEFINE v == Len(vs)
           k == n - v
           e == Sight(b, o[k])
           g == Append(vs, e)
<1>1. n \in Nat /\ v \in 0..n /\ vs \in Seq(Sights) /\ \A i \in 1..v : vs[i] = Sight(b, o[n - i + 1])
  BY SeenIs DEF Sighted
<1>2. k \in 1..n
  BY <1>1
<1>3. e \in Sights
  <2> HIDE DEF k
  <2> QED  BY <1>2, SightType
<1> HIDE DEF e
<1>4. g \in Seq(Sights) /\ Len(g) = v + 1 /\ g[v + 1] = e /\ \A i \in 1..v : g[i] = vs[i]
  BY <1>1, <1>3, AppendProperties
<1> HIDE DEF g
<1>5. \A i \in 1..Len(g) : g[i] = Sight(b, o[n - i + 1])
  <2> TAKE i \in 1..Len(g)
  <2>1. CASE i = v + 1
    <3>1. n - i + 1 = k
      BY <1>1, <2>1
    <3> QED  BY <1>4, <2>1, <3>1 DEF e
  <2>2. CASE i # v + 1
    <3>1. i \in 1..v
      BY <1>1, <1>4, <2>2
    <3> QED  BY <1>1, <1>4, <3>1
  <2> QED  BY <2>1, <2>2
<1>6. Len(g) <= n
  BY <1>1, <1>4
<1>7. Seen(b, g)
  <2>1. Sighted(b, o, n, g)
    BY <1>5 DEF Sighted
  <2> QED  BY <1>4, <1>6, <2>1, SeenMade
<1> QED  BY <1>4, <1>7 DEF g, e, k

LEMMA SeenLess ==
  ASSUME NEW b, NEW o, Laid(b, o), NEW n, n = Len(o) - 1, NEW vs, Seen(b, vs), vs # <<>>
  PROVE  /\ Len(vs) \in 1..n /\ Last(vs) = Sight(b, o[n - Len(vs) + 1])
         /\ Seen(b, Front(vs)) /\ Len(Front(vs)) = Len(vs) - 1
<1> DEFINE v == Len(vs)
           f == Front(vs)
           y == v - 1
<1>1. n \in Nat /\ v \in 0..n /\ vs \in Seq(Sights) /\ \A i \in 1..v : vs[i] = Sight(b, o[n - i + 1])
  BY SeenIs DEF Sighted
<1>2. v \in 1..n /\ v \in Nat /\ v <= Len(vs) /\ y \in Nat /\ y <= Len(vs) /\ v > 0 /\ SubSeq(vs, 1, v) = vs
  <2>1. v # 0
    BY <1>1, EmptySeq
  <2>2. SubSeq(vs, 1, v) = vs
    BY <1>1, SubSeqFull
  <2> QED  BY <1>1, <2>1, <2>2
<1>3. Last(vs) = vs[v] /\ f = SubSeq(vs, 1, y)
  BY DEF Last, Front
<1>4. f \in Seq(Sights) /\ Len(f) = y /\ \A i \in 1..y : f[i] = vs[i]
  <2> HIDE DEF f
  <2>1. /\ SubSeq(vs, 1, y) \in Seq(Sights) /\ Len(SubSeq(vs, 1, y)) = y
        /\ \A i \in 1..y : SubSeq(vs, 1, y)[i] = vs[i]
    <3> HIDE DEF y
    <3> QED  BY <1>1, <1>2, PrefixIs
  <2> QED  BY <1>3, <2>1
<1> HIDE DEF f
<1>5. \A i \in 1..Len(f) : f[i] = Sight(b, o[n - i + 1])
  <2> TAKE i \in 1..Len(f)
  <2>1. i \in 1..y /\ i \in 1..v
    BY <1>2, <1>4
  <2> QED  BY <1>1, <1>4, <2>1
<1>6. Len(f) <= n
  BY <1>1, <1>2, <1>4
<1>7. Seen(b, f)
  <2>1. Sighted(b, o, n, f)
    BY <1>5 DEF Sighted
  <2> QED  BY <1>4, <1>6, <2>1, SeenMade
<1>8. Last(vs) = Sight(b, o[n - v + 1])
  BY <1>1, <1>2, <1>3
<1> QED  BY <1>2, <1>4, <1>7, <1>8 DEF f

\* What is spent on them is what their messages cost.
LEMMA SeenSpent ==
  ASSUME InboxOK, NEW b, NEW o, Laid(b, o), NEW n, n = Len(o) - 1, NEW vs, Seen(b, vs)
  PROVE  Spent(vs) = Cost(SubSeq(Held(b, o), n - Len(vs) + 1, n), Overhead)
<1> DEFINE v == Len(vs)
           ms == Held(b, o)
           k == n - v + 1
<1>1. n \in Nat /\ v \in 0..n /\ DOMAIN vs = 1..v /\ \A i \in 1..v : vs[i] = Sight(b, o[n - i + 1])
  <2>1. /\ n \in Nat /\ Len(vs) \in 0..n /\ vs \in Seq(Sights)
        /\ DOMAIN vs = 1..Len(vs) /\ Sighted(b, o, n, vs)
    BY SeenIs
  <2> QED  BY <2>1 DEF Sighted
<1>2. ms \in Seq(Msgs) /\ Len(ms) = n
  BY HeldIs
<1>3. Overhead \in Nat
  BY DEF InboxOK
<1> HIDE DEF ms
<1>4. PICK p : CostRuns(p, ms, Overhead)
  BY <1>2, <1>3, CostHas
<1>5. \A i \in 1..v : vs[i].take = Len(ms[Len(ms) - i + 1].text)
  <2> TAKE i \in 1..v
  <2> DEFINE j == n - i + 1
  <2>1. j \in 1..(Len(o) - 1)
    BY <1>1
  <2> HIDE DEF j
  <2>2. Sight(b, o[j]).take = Len(Held(b, o)[j].text)
    BY <2>1, SightTakes
  <2>3. vs[i] = Sight(b, o[j])
    BY <1>1 DEF j
  <2> QED  BY <1>2, <2>2, <2>3 DEF j, ms
<1>6. Spent(vs) = p[Len(ms)] - p[Len(ms) - v]
  <2>1. v \in 0..Len(ms) /\ DOMAIN vs = 1..Len(vs) /\ Len(vs) = v
    BY <1>1, <1>2
  <2>2. Takes(vs, ms)
    BY <1>5 DEF Takes
  <2> HIDE DEF v
  <2> QED  BY <1>2, <1>3, <1>4, <2>1, <2>2, SpentBack
<1>7. k \in 1..Len(ms) + 1 /\ n \in 0..Len(ms) /\ k <= n + 1 /\ k - 1 = n - v
  BY <1>1, <1>2
<1> HIDE DEF k
<1>8. Cost(SubSeq(ms, k, n), Overhead) = p[n] - p[k - 1]
  BY <1>2, <1>3, <1>4, <1>7, CostPart
<1>9. Spent(vs) = Cost(SubSeq(ms, k, n), Overhead)
  BY <1>2, <1>6, <1>7, <1>8
<1> QED  BY <1>9 DEF k, ms

-----------------------------------------------------------------------------
(* The invariant holds at first and every step keeps it, as long as no save *)
(* lets the callback in (mesh.stop() is what does).                        *)

\* Between saves there is nothing to say of one.
LEMMA Resting ==
  ASSUME step' = "idle", held' = TRUE, offs' = <<>>, views' = <<>>, out' = <<>>, dirty' \in BOOLEAN
  PROVE  SaveOK'
<1>1. step' \notin {"walk", "view"}
  OBVIOUS
<1> QED  BY <1>1 DEF SaveOK

\* An empty arena, and no save.
LEMMA InitI ==
  ASSUME Init
  PROVE  IInv
<1>1. Sound(buf) /\ Messages(buf) = <<>> /\ Holdable(Messages(buf)) /\ ArenaOK
  BY SoundEmpty, HoldNone, InboxOK DEF Init, ArenaOK
<1>2. FlashOK
  BY HoldNone, InboxOK DEF Init, FlashOK
<1>3. LoadOK
  <2>1. left \in Seq(Kept) /\ <<>> \o left = <<>>
    BY EmptySeq, ConcatEmptySeq DEF Init
  <2> QED  BY <1>1, <2>1 DEF Init, LoadOK
<1>4. SaveOK
  BY DEF Init, SaveOK
<1>5. FreshOK
  BY DEF Init, FreshOK
<1> QED  BY <1>1, <1>2, <1>3, <1>4, <1>5 DEF IInv

\* What a caller that needs the radio finds: no save in its way.
LEMMA Quiet ==
  ASSUME IInv, stage = "up", Idle \/ ~held
  PROVE  /\ step = "idle" /\ held = TRUE /\ offs = <<>> /\ views = <<>> /\ out = <<>>
         /\ dirty \in BOOLEAN /\ left = <<>>
  BY DEF IInv, SaveOK, LoadOK, Idle

LEMMA AddI ==
  ASSUME IInv, NEW w \in Wheres, NEW t \in Texts, Add(w, t)
  PROVE  IInv'
<1>1. /\ stage = "up" /\ (Idle \/ ~held) /\ Readable(t) /\ buf' = Stored(buf, Code(w, FALSE), t)
      /\ dirty' = TRUE /\ saved' = saved /\ left' = left /\ stage' = stage
      /\ step' = step /\ held' = held /\ offs' = offs /\ views' = views /\ out' = out
  BY DEF Add, Free, saving
<1>2. step = "idle" /\ held = TRUE /\ offs = <<>> /\ views = <<>> /\ out = <<>> /\ left = <<>>
  BY <1>1, Quiet
<1>3. w \in Nat /\ t \in Seq(Nat)
  BY InboxOK DEF InboxOK
<1>4. Code(w, FALSE) \in Nat /\ Where(Code(w, FALSE)) \in Wheres
  <2> DEFINE no == FALSE
  <2>1. no \in BOOLEAN
    OBVIOUS
  <2> HIDE DEF no
  <2>2. Code(w, no) \in Nat /\ Where(Code(w, no)) = w
    BY <1>3, <2>1, CodeIs
  <2> QED  BY <2>2 DEF no
<1>5. ArenaOK'
  <2>1. Sound(buf) /\ Holdable(Messages(buf))
    BY DEF IInv, ArenaOK
  <2>2. Sound(Stored(buf, Code(w, FALSE), t)) /\ Holdable(Messages(Stored(buf, Code(w, FALSE), t)))
    BY <1>1, <1>3, <1>4, <2>1, InboxOK, StoredIs
  <2> QED  BY <1>1, <2>2 DEF ArenaOK
<1>6. FlashOK'
  BY <1>1 DEF IInv, FlashOK
<1>7. LoadOK'
  BY <1>1, <1>2 DEF LoadOK
<1>8. SaveOK'
  BY <1>1, <1>2, Resting
<1>9. FreshOK'
  BY <1>1, <1>2 DEF FreshOK
<1> QED  BY <1>5, <1>6, <1>7, <1>8, <1>9 DEF IInv

LEMMA LookI ==
  ASSUME IInv, NEW want, Look(want)
  PROVE  IInv'
<1>1. /\ stage = "up" /\ Idle /\ buf' = Marked(buf, want)
      /\ dirty' = (dirty \/ Unread(buf, want) # {}) /\ saved' = saved /\ left' = left /\ stage' = stage
      /\ step' = step /\ held' = held /\ offs' = offs /\ views' = views /\ out' = out
  BY DEF Look, saving
<1>2. step = "idle" /\ held = TRUE /\ offs = <<>> /\ views = <<>> /\ out = <<>> /\ left = <<>> /\ dirty \in BOOLEAN
  BY <1>1, Quiet
<1>3. Sound(buf) /\ Holdable(Messages(buf))
  BY DEF IInv, ArenaOK
<1>4. /\ Sound(Marked(buf, want)) /\ Holdable(Messages(Marked(buf, want)))
      /\ Unread(buf, want) = {} => Marked(buf, want) = buf
  BY <1>3, MarkedIs
<1>5. ArenaOK'
  BY <1>1, <1>4 DEF ArenaOK
<1>6. FlashOK'
  BY <1>1 DEF IInv, FlashOK
<1>7. LoadOK'
  BY <1>1, <1>2 DEF LoadOK
<1>8. SaveOK'
  <2>1. dirty' \in BOOLEAN
    BY <1>1
  <2> QED  BY <1>1, <1>2, <2>1, Resting
<1>9. FreshOK'
  <2>1. CASE dirty'
    BY <1>1, <1>2, <2>1 DEF FreshOK
  <2>2. CASE ~dirty'
    <3>1. ~dirty /\ buf' = buf
      BY <1>1, <1>4, <2>2
    <3> QED  BY <1>1, <3>1 DEF IInv, FreshOK
  <2> QED  BY <2>1, <2>2
<1> QED  BY <1>5, <1>6, <1>7, <1>8, <1>9 DEF IInv

LEMMA FactoryResetI ==
  ASSUME IInv, FactoryReset
  PROVE  IInv'
<1>1. /\ stage = "up" /\ Idle /\ buf' = <<>> /\ saved' = <<>> /\ dirty' = FALSE
      /\ left' = left /\ stage' = stage
      /\ step' = step /\ held' = held /\ offs' = offs /\ views' = views /\ out' = out
  BY DEF FactoryReset, saving
<1>2. step = "idle" /\ held = TRUE /\ offs = <<>> /\ views = <<>> /\ out = <<>> /\ left = <<>>
  BY <1>1, Quiet
<1>3. /\ Sound(<<>>) /\ Messages(<<>>) = <<>> /\ Holdable(<<>>) /\ Cost(<<>>, Overhead) <= Room
      /\ Fitting(<<>>) = <<>>
  BY SoundEmpty, HoldNone, InboxOK
<1>4. ArenaOK' /\ FlashOK' /\ FreshOK'
  BY <1>1, <1>3 DEF ArenaOK, FlashOK, FreshOK
<1>5. LoadOK'
  BY <1>1, <1>2 DEF LoadOK
<1>6. SaveOK'
  BY <1>1, <1>2, Resting
<1> QED  BY <1>4, <1>5, <1>6 DEF IInv

LEMMA BeginI ==
  ASSUME IInv, ~StopSaves, Begin
  PROVE  IInv'
<1>1. /\ stage = "up" /\ Idle /\ step' = "walk" /\ held' = TRUE
      /\ buf' = buf /\ dirty' = dirty /\ saved' = saved /\ left' = left /\ stage' = stage
      /\ offs' = offs /\ views' = views /\ out' = out
  BY DEF Begin
<1>2. step = "idle" /\ offs = <<>> /\ views = <<>> /\ out = <<>> /\ left = <<>> /\ dirty \in BOOLEAN
  BY <1>1, Quiet
<1>3. ArenaOK' /\ FlashOK' /\ FreshOK'
  BY <1>1 DEF IInv, ArenaOK, FlashOK, FreshOK
<1>4. LoadOK'
  BY <1>1, <1>2 DEF LoadOK
<1>5. SaveOK'
  <2>1. Len(Messages(buf)) \in Nat
    BY SoundHas DEF IInv, ArenaOK
  <2>2. SubSeq(Walk(buf, All), 1, 0) = <<>>
    BY SubSeqEmpty
  <2>3. Len(<<>>) = 0 /\ 0 \in 0..Len(Messages(buf))
    BY <2>1
  <2> QED  BY <1>1, <1>2, <2>2, <2>3 DEF SaveOK
<1> QED  BY <1>3, <1>4, <1>5 DEF IInv

\* A save that stops, wherever it is, leaves what was.
LEMMA DoneI ==
  ASSUME IInv, step # "idle", step # "clean", Done,
         buf' = buf, dirty' = dirty, saved' = saved, left' = left, stage' = stage
  PROVE  IInv'
<1>1. step' = "idle" /\ held' = TRUE /\ offs' = <<>> /\ views' = <<>> /\ out' = <<>>
  BY DEF Done
<1>2. dirty' \in BOOLEAN
  BY DEF IInv, SaveOK
<1>3. SaveOK'
  BY <1>1, <1>2, Resting
<1>4. ArenaOK' /\ FlashOK' /\ FreshOK'
  BY <1>1 DEF IInv, ArenaOK, FlashOK, FreshOK
<1>5. LoadOK'
  BY <1>1 DEF IInv, LoadOK
<1> QED  BY <1>3, <1>4, <1>5 DEF IInv

LEMMA GiveUpI ==
  ASSUME IInv, GiveUp
  PROVE  IInv'
<1>1. /\ step # "idle" /\ step # "clean" /\ Done
      /\ buf' = buf /\ dirty' = dirty /\ saved' = saved /\ left' = left /\ stage' = stage
  BY DEF GiveUp
<1> QED  BY <1>1, DoneI

LEMMA CleanI ==
  ASSUME IInv, Clean
  PROVE  IInv'
<1>1. /\ step = "clean" /\ dirty' = FALSE
      /\ step' = "idle" /\ held' = TRUE /\ offs' = <<>> /\ views' = <<>> /\ out' = <<>>
      /\ buf' = buf /\ saved' = saved /\ left' = left /\ stage' = stage
  BY DEF Clean, Done
<1>2. SaveOK'
  BY <1>1, Resting
<1>3. ArenaOK' /\ FlashOK' /\ FreshOK'
  BY <1>1 DEF IInv, ArenaOK, FlashOK, FreshOK
<1>4. LoadOK'
  BY <1>1 DEF IInv, LoadOK
<1> QED  BY <1>2, <1>3, <1>4 DEF IInv

LEMMA RestartI ==
  ASSUME IInv, Restart
  PROVE  IInv'
<1>1. /\ buf' = <<>> /\ dirty' = FALSE /\ left' = saved /\ stage' = "loading" /\ saved' = saved
      /\ step' = "idle" /\ held' = TRUE /\ offs' = <<>> /\ views' = <<>> /\ out' = <<>>
  BY DEF Restart, Done
<1>2. Sound(<<>>) /\ Messages(<<>>) = <<>> /\ Holdable(<<>>)
  BY SoundEmpty, HoldNone, InboxOK
<1>3. SaveOK'
  BY <1>1, Resting
<1>4. ArenaOK' /\ FlashOK' /\ FreshOK'
  BY <1>1, <1>2 DEF IInv, ArenaOK, FlashOK, FreshOK
<1>5. LoadOK'
  <2>1. saved \in Seq(Kept)
    BY DEF IInv, FlashOK, Holdable
  <2>2. <<>> \o saved = saved
    BY <2>1, ConcatEmptySeq
  <2> QED  BY <1>1, <1>2, <2>1, <2>2 DEF LoadOK
<1> QED  BY <1>3, <1>4, <1>5 DEF IInv

\* A list, and another that follows it: its head moves over.
LEMMA MovesOver ==
  ASSUME NEW S, NEW s \in Seq(S), NEW t \in Seq(S), t # <<>>
  PROVE  /\ Head(t) \in S /\ Tail(t) \in Seq(S)
         /\ Append(s, Head(t)) \o Tail(t) = s \o t
         /\ Len(s) + 1 <= Len(s \o t) /\ Append(s, Head(t)) = SubSeq(s \o t, 1, Len(s) + 1)
<1> DEFINE h == Head(t)
           r == Tail(t)
           one == <<h>>
           a == Append(s, h)
           n == Len(s)
           all == s \o t
<1>1. h \in S /\ r \in Seq(S) /\ Len(t) \in Nat \ {0} /\ n \in Nat /\ h = t[1]
  BY HeadTailProperties, EmptySeq, LenProperties
<1>2. one \in Seq(S) /\ t = one \o r
  <2>1. 1 \in 1..Len(t) /\ Len(t) \in 1..Len(t)
    BY <1>1
  <2>2. SubSeq(t, 1, Len(t)) = <<t[1]>> \o SubSeq(t, 1 + 1, Len(t))
    BY <2>1, SubSeqRecursiveFirst
  <2>3. SubSeq(t, 1, Len(t)) = t /\ Tail(t) = SubSeq(t, 2, Len(t))
    BY SubSeqFull, TailIsSubSeq
  <2> QED  BY <1>1, <2>2, <2>3
<1>3. a = s \o one /\ a \in Seq(S) /\ Len(a) = n + 1
  BY <1>1, AppendIsConcat, AppendProperties
<1>4. a \o r = s \o t
  <2> HIDE DEF one, r, a
  <2>1. (s \o one) \o r = s \o (one \o r)
    BY <1>1, <1>2, ConcatAssociative
  <2> QED  BY <1>2, <1>3, <2>1
<1> HIDE DEF a, r
<1>5. /\ a \o r \in Seq(S) /\ Len(a \o r) = Len(a) + Len(r)
      /\ \A i \in 1..(Len(a) + Len(r)) : (a \o r)[i] = IF i <= Len(a) THEN a[i] ELSE r[i - Len(a)]
  BY ONLY <1>1, <1>3, ConcatProperties, Zenon
<1>6. Len(r) \in Nat
  BY <1>1
<1>7. all \in Seq(S) /\ n + 1 <= Len(all) /\ \A i \in 1..(n + 1) : all[i] = a[i]
  BY <1>1, <1>3, <1>4, <1>5, <1>6
<1> HIDE DEF all
<1>8. a = SubSeq(all, 1, n + 1)
  <2> DEFINE z == n + 1
             b == SubSeq(all, 1, z)
  <2>1. z \in Nat /\ z <= Len(all)
    BY <1>1, <1>7
  <2> HIDE DEF z
  <2>2. b \in Seq(S) /\ Len(b) = z /\ \A i \in 1..z : b[i] = all[i]
    BY <1>7, <2>1, PrefixIs
  <2> HIDE DEF b
  <2>3. Len(a) = z /\ \A i \in 1..z : all[i] = a[i]
    BY <1>3, <1>7 DEF z
  <2>4. \A i \in 1..Len(a) : a[i] = b[i]
    BY <2>2, <2>3
  <2>5. a = b
    BY <1>3, <2>2, <2>3, <2>4, SeqEqual
  <2> QED  BY <2>5 DEF b, z
<1> QED  BY <1>1, <1>4, <1>7, <1>8 DEF a, r, all

\* A whole text that is short enough is kept whole.
LEMMA FitsWhole ==
  ASSUME NEW t \in Seq(Nat), Len(t) <= MaxText
  PROVE  SubSeq(t, 1, Fit(t)) = t
<1>1. Fit(t) = Len(t)
  BY DEF Fit
<1> QED  BY <1>1, SubSeqFull

\* restore: the record saved next is put back as it was, and pushes none out.
LEMMA PutBack ==
  ASSUME InboxOK, NEW b, Sound(b), NEW rest \in Seq(Kept), rest # <<>>,
         Messages(b) \in Seq(Kept), Holdable(Messages(b) \o rest)
  PROVE  LET m == Head(rest)
             c == Stored(b, Code(m.where, m.read), m.text)
         IN /\ m \in Kept /\ Readable(m.text) /\ Tail(rest) \in Seq(Kept)
            /\ Sound(c) /\ Holdable(Messages(c))
            /\ Messages(c) = Append(Messages(b), m)
            /\ Messages(c) \o Tail(rest) = Messages(b) \o rest
<1> DEFINE m == Head(rest)
           c == Stored(b, Code(m.where, m.read), m.text)
           ms == Messages(b)
           n == Len(ms)
           all == ms \o rest
           more == Append(ms, m)
           z == n + 1
<1>1. /\ m \in Kept /\ Tail(rest) \in Seq(Kept) /\ more \o Tail(rest) = all
      /\ z <= Len(all) /\ more = SubSeq(all, 1, z)
  BY MovesOver
<1>2. /\ m.where \in Wheres /\ m.where \in Nat /\ m.read \in BOOLEAN /\ m.text \in Seq(Nat)
      /\ Readable(m.text) /\ Len(m.text) <= MaxText /\ m \in Msgs
      /\ m = [where |-> m.where, read |-> m.read, text |-> m.text]
  BY <1>1 DEF Kept, Msgs
<1>3. all \in Seq(Kept) /\ Len(all) <= Limit /\ Cost(all, Fixed) <= Cap
  BY DEF Holdable
<1>4. Limit \in Nat /\ Cap \in Nat /\ Fixed \in Nat
  BY DEF InboxOK, Fixed
<1> HIDE DEF m, all
<1>5. ms \in Seq(Msgs) /\ n \in Nat /\ more \in Seq(Kept) /\ Len(more) = n + 1 /\ all \in Seq(Msgs)
      /\ Len(all) \in Nat
  <2>1. ms \in Seq(Msgs) /\ all \in Seq(Msgs) /\ Len(all) \in Nat
    BY <1>3, KeptAre, LenProperties
  <2>2. n \in Nat
    BY <2>1, LenProperties
  <2>3. more \in Seq(Kept) /\ Len(more) = n + 1
    BY <1>1, AppendProperties
  <2> QED  BY <2>1, <2>2, <2>3
<1> HIDE DEF ms, n
<1>6. Cost(more, Fixed) <= Cap /\ n < Limit /\ Len(more) <= Limit
  <2>1. PICK p : CostRuns(p, all, Fixed)
    BY <1>4, <1>5, CostHas
  <2> DEFINE L == Len(all)
  <2>2. /\ p \in [0..L -> Nat] /\ p[0] = 0 /\ (\A i, j \in 0..L : i <= j => p[i] <= p[j])
        /\ Cost(all, Fixed) = p[L]
    BY <1>4, <1>5, <2>1, CostStep
  <2>3. 1 \in 1..L + 1 /\ z \in 0..L /\ 1 <= z + 1 /\ 1 - 1 = 0 /\ L \in 0..L /\ z <= L
    BY <1>1, <1>5
  <2> HIDE DEF z, more
  <2>4. Cost(SubSeq(all, 1, z), Fixed) = p[z] - p[1 - 1]
    BY <1>4, <1>5, <2>1, <2>3, CostPart
  <2>5. p[z] <= p[L] /\ p[z] \in Nat /\ p[L] \in Nat
    BY <2>2, <2>3
  <2> DEFINE x == p[z]
             y == p[L]
  <2>6. Cost(more, Fixed) = x - 0 /\ x <= y /\ y <= Cap /\ x \in Nat /\ y \in Nat
    BY <1>1, <1>3, <2>2, <2>3, <2>4, <2>5
  <2> HIDE DEF x, y
  <2>7. Cost(more, Fixed) <= Cap
    BY <1>4, <2>6
  <2>8. n < Limit /\ n + 1 <= Limit
    BY <1>3, <1>4, <1>5, <2>3 DEF z
  <2> QED  BY <1>5, <2>7, <2>8
<1>7. Holdable(more)
  BY <1>5, <1>6 DEF Holdable
<1> DEFINE head == Code(m.where, m.read)
           cut == SubSeq(m.text, 1, Fit(m.text))
           got == [where |-> Where(head), read |-> Read(head), text |-> cut]
<1>8. head \in Nat /\ Where(head) = m.where /\ Read(head) = m.read
  BY <1>2, CodeIs
<1>9. cut = m.text
  BY <1>2, FitsWhole
<1>10. Where(head) \in Wheres /\ got = m
  BY <1>2, <1>8, <1>9
<1>11. ms \in Seq(Kept) /\ Holdable(ms)
  <2>2. Cost(ms, Fixed) \in Nat /\ Len(m.text) \in Nat /\ Cost(more, Fixed) = Cost(ms, Fixed) + Fixed + Len(m.text)
    BY <1>2, <1>4, <1>5, CostAppend
  <2>3. Cost(ms, Fixed) <= Cap
    <3> DEFINE x == Cost(ms, Fixed)
               y == Cost(more, Fixed)
               l == Len(m.text)
    <3>1. x \in Nat /\ l \in Nat /\ y = x + Fixed + l /\ y <= Cap
      BY <1>6, <2>2
    <3> HIDE DEF x, y, l
    <3>2. x <= Cap
      BY <1>4, <3>1
    <3> QED  BY <3>2 DEF x
  <2>4. n <= Limit
    BY <1>4, <1>5, <1>6
  <2> QED  BY <2>3, <2>4 DEF Holdable, ms, n
<1> HIDE DEF head
<1> DEFINE d == Stored(b, head, m.text)
<1>12. /\ Sound(d) /\ Holdable(Messages(d))
       /\ \E k \in 1..(n + 1) :
            LET End(j) == SubSeq(ms, j, n)
                Holds(j) == Len(End(j)) < Limit /\ Cost(Append(End(j), got), Fixed) <= Cap
            IN /\ Messages(d) = Append(End(k), got)
               /\ Holds(k) /\ \A j \in 1..(k - 1) : ~Holds(j)
  <2>1. Holdable(Messages(b))
    BY <1>11 DEF ms
  <2> QED  BY <1>2, <1>8, <1>10, <2>1, StoredIs DEF ms, n
<1> HIDE DEF got, d
<1>13. PICK k \in 1..(n + 1) :
         /\ Messages(d) = Append(SubSeq(ms, k, n), m)
         /\ \A j \in 1..(k - 1) : ~(Len(SubSeq(ms, j, n)) < Limit /\ Cost(Append(SubSeq(ms, j, n), m), Fixed) <= Cap)
  BY <1>10, <1>12
<1>14. SubSeq(ms, 1, n) = ms
  BY <1>5, SubSeqFull DEF n
<1>15. k = 1
  <2> SUFFICES ASSUME k # 1  PROVE FALSE
    OBVIOUS
  <2>1. 1 \in 1..(k - 1)
    BY <1>5
  <2>2. ~(Len(SubSeq(ms, 1, n)) < Limit /\ Cost(Append(SubSeq(ms, 1, n), m), Fixed) <= Cap)
    BY <1>13, <2>1
  <2> QED  BY <1>6, <1>14, <2>2 DEF n
<1>16. Messages(d) = more
  BY <1>13, <1>14, <1>15
<1>17. c = d
  BY DEF d, head
<1> QED  BY <1>1, <1>2, <1>12, <1>16, <1>17 DEF c, m, ms, all

\* One more record back.
LEMMA RestoreI ==
  ASSUME IInv, Restore
  PROVE  IInv'
<1> DEFINE m == Head(left)
           c == Stored(buf, Code(m.where, m.read), m.text)
<1>1. /\ stage = "loading" /\ left # <<>> /\ dirty' = dirty /\ saved' = saved /\ stage' = stage
      /\ step' = step /\ held' = held /\ offs' = offs /\ views' = views /\ out' = out
      /\ IF Readable(m.text) THEN buf' = c /\ left' = Tail(left) ELSE left' = <<>> /\ buf' = buf
  BY DEF Restore, saving
<1>2. /\ Sound(buf) /\ Messages(buf) \in Seq(Kept) /\ step = "idle" /\ left \in Seq(Kept)
      /\ Messages(buf) \o left = saved /\ Holdable(saved)
      /\ held = TRUE /\ offs = <<>> /\ views = <<>> /\ out = <<>> /\ dirty \in BOOLEAN
  BY <1>1 DEF IInv, ArenaOK, FlashOK, LoadOK, SaveOK, Holdable
<1>3. /\ Readable(m.text) /\ Tail(left) \in Seq(Kept) /\ Sound(c) /\ Holdable(Messages(c))
      /\ Messages(c) \o Tail(left) = Messages(buf) \o left
  BY <1>1, <1>2, InboxOK, PutBack
<1>4. buf' = c /\ left' = Tail(left)
  BY <1>1, <1>3
<1> HIDE DEF c, m
<1>5. ArenaOK'
  BY <1>3, <1>4 DEF ArenaOK
<1>6. FlashOK'
  BY <1>1 DEF IInv, FlashOK
<1>7. LoadOK'
  BY <1>1, <1>2, <1>3, <1>4 DEF LoadOK
<1>8. SaveOK'
  BY <1>1, <1>2, Resting
<1>9. FreshOK'
  BY <1>1 DEF FreshOK
<1> QED  BY <1>5, <1>6, <1>7, <1>8, <1>9 DEF IInv

\* What fits as a whole is kept as a whole.
LEMMA AllFits ==
  ASSUME InboxOK, NEW ms \in Seq(Msgs), Cost(ms, Overhead) <= Room
  PROVE  Fitting(ms) = ms
<1> DEFINE one == 1
<1>1. SubSeq(ms, one, Len(ms)) = ms /\ Len(ms) \in Nat
  BY SubSeqFull, LenProperties
<1>2. one \in 1..(Len(ms) + 1) /\ ~(one > 1)
  BY <1>1
<1>3. Recent(ms) = one
  <2> HIDE DEF one
  <2> QED  BY <1>1, <1>2, RecentHere
<1>4. Fitting(ms) = SubSeq(ms, Recent(ms), Len(ms))
  BY RecentIs
<1> QED  BY <1>1, <1>3, <1>4

LEMMA LoadedI ==
  ASSUME IInv, Loaded
  PROVE  IInv'
<1>1. /\ stage = "loading" /\ left = <<>> /\ stage' = "up" /\ dirty' = FALSE
      /\ buf' = buf /\ saved' = saved /\ left' = left
      /\ step' = step /\ held' = held /\ offs' = offs /\ views' = views /\ out' = out
  BY DEF Loaded, saving
<1>2. /\ Messages(buf) \in Seq(Kept) /\ step = "idle" /\ Messages(buf) \o left = saved
      /\ held = TRUE /\ offs = <<>> /\ views = <<>> /\ out = <<>> /\ Cost(saved, Overhead) <= Room
  BY <1>1 DEF IInv, ArenaOK, FlashOK, LoadOK, SaveOK, Holdable
<1>3. Messages(buf) = saved
  <2>1. Messages(buf) \o <<>> = Messages(buf)
    BY <1>2, ConcatEmptySeq
  <2> QED  BY <1>1, <1>2, <2>1
<1>4. Fitting(saved) = saved
  BY <1>2, <1>3, InboxOK, KeptAre, AllFits
<1>5. ArenaOK' /\ FlashOK'
  BY <1>1 DEF IInv, ArenaOK, FlashOK
<1>6. LoadOK'
  BY <1>1 DEF LoadOK
<1>7. SaveOK'
  BY <1>1, <1>2, Resting
<1>8. FreshOK'
  BY <1>1, <1>3, <1>4 DEF FreshOK
<1> QED  BY <1>5, <1>6, <1>7, <1>8 DEF IInv

\* What a save in progress rests on.
LEMMA Under ==
  ASSUME IInv, step # "idle"
  PROVE  LET ms == Messages(buf)
             n == Len(ms)
             o == Offsets(buf)
         IN /\ stage = "up" /\ held = TRUE /\ dirty \in BOOLEAN /\ left = <<>>
            /\ Laid(buf, o) /\ ms = Held(buf, o) /\ ms \in Seq(Msgs) /\ n = Len(o) - 1 /\ n \in Nat
            /\ Holdable(ms) /\ Walk(buf, All) = SubSeq(o, 1, n) /\ Walk(buf, All) \in Seq(Nat)
            /\ Len(Walk(buf, All)) = n /\ \A i \in 1..n : Walk(buf, All)[i] = o[i]
<1> DEFINE o == Offsets(buf)
           ms == Messages(buf)
           n == Len(ms)
           W == Walk(buf, All)
<1>1. Sound(buf) /\ Holdable(ms) /\ stage = "up" /\ held = TRUE /\ dirty \in BOOLEAN /\ left = <<>>
  BY DEF IInv, ArenaOK, LoadOK, SaveOK
<1>2. Laid(buf, o) /\ ms = Held(buf, o) /\ ms \in Seq(Msgs) /\ n = Len(o) - 1 /\ n \in Nat
  BY <1>1, SoundHas
<1>3. W = SubSeq(o, 1, Len(o) - 1)
  BY <1>2, WalkLaid
<1>4. o \in Seq(Nat) /\ n <= Len(o)
  <2>1. o \in Seq(Nat)
    BY <1>2 DEF Laid
  <2>2. Len(o) \in Nat
    BY <2>1
  <2> QED  BY <1>2, <2>1, <2>2
<1> HIDE DEF o, ms, n, W
<1>5. W = SubSeq(o, 1, n) /\ W \in Seq(Nat) /\ Len(W) = n /\ \A i \in 1..n : W[i] = o[i]
  <2>1. /\ SubSeq(o, 1, n) \in Seq(Nat) /\ Len(SubSeq(o, 1, n)) = n
        /\ \A i \in 1..n : SubSeq(o, 1, n)[i] = o[i]
    BY <1>2, <1>4, PrefixIs
  <2> QED  BY <1>2, <1>3, <2>1
<1> QED  BY <1>1, <1>2, <1>5 DEF o, ms, n, W

\* One more record found.
LEMMA WalkOnI ==
  ASSUME IInv, WalkOn
  PROVE  IInv'
<1> DEFINE ms == Messages(buf)
           n == Len(ms)
           o == Offsets(buf)
           W == Walk(buf, All)
           i == Len(offs)
           off == NextAfter(buf, IF offs = <<>> THEN -1 ELSE Last(offs), All)
<1>1. /\ step = "walk" /\ buf' = buf /\ dirty' = dirty /\ saved' = saved /\ left' = left
      /\ stage' = stage /\ held' = held /\ views' = views /\ out' = out
      /\ IF off = -1 THEN step' = "view" /\ offs' = offs
                     ELSE offs' = Append(offs, off) /\ step' = step
  BY DEF WalkOn
<1>2. /\ stage = "up" /\ held = TRUE /\ dirty \in BOOLEAN /\ left = <<>>
      /\ Laid(buf, o) /\ ms \in Seq(Msgs) /\ n = Len(o) - 1 /\ n \in Nat
      /\ W \in Seq(Nat) /\ Len(W) = n /\ \A j \in 1..n : W[j] = o[j]
  BY <1>1, Under
<1>3. views = <<>> /\ out = <<>> /\ i \in 0..n /\ offs = SubSeq(W, 1, i)
  BY <1>1 DEF IInv, SaveOK
<1>4. ArenaOK' /\ FlashOK'
  BY <1>1 DEF IInv, ArenaOK, FlashOK
<1>5. LoadOK'
  BY <1>1, <1>2 DEF LoadOK
<1>6. FreshOK'
  BY <1>1 DEF IInv, FreshOK
<1>7. /\ NextAfter(buf, -1, All) = IF n = 0 THEN -1 ELSE o[1]
      /\ \A k \in 1..n : NextAfter(buf, o[k], All) = IF k = n THEN -1 ELSE o[k + 1]
  <2> HIDE DEF ms, n, o, W
  <2>1. Laid(buf, o) /\ n = Len(o) - 1
    BY <1>2
  <2>2. OneByOne(buf, o, n)
    BY <2>1, NextLaid
  <2> QED  BY <2>2 DEF OneByOne
<1> HIDE DEF ms, n, o, W
<1>8. /\ i \in 0..n /\ i \in Nat /\ (offs = <<>> <=> i = 0) /\ (i > 0 => Last(offs) = o[i])
  <2>1. i \in Nat
    <3> HIDE DEF i
    <3> QED  BY <1>2, <1>3
  <2>2. i <= Len(W)
    <3> HIDE DEF i
    <3> QED  BY <1>2, <1>3
  <2> HIDE DEF i
  <2>3. (SubSeq(W, 1, i) = <<>> <=> i = 0) /\ (i > 0 => Last(SubSeq(W, 1, i)) = W[i])
    BY <1>2, <2>1, <2>2, PrefixIs
  <2>4. i > 0 => W[i] = o[i]
    <3>1. i > 0 => i \in 1..n
      BY <1>2, <1>3, <2>1
    <3> QED  BY <1>2, <3>1
  <2>5. offs = SubSeq(W, 1, i)
    BY <1>3
  <2> QED  BY <1>3, <2>1, <2>3, <2>4, <2>5
<1>9. off = IF i = n THEN -1 ELSE o[i + 1]
  <2>1. CASE i = 0
    <3>1. off = NextAfter(buf, -1, All)
      BY <1>8, <2>1
    <3> QED  BY <1>2, <1>7, <2>1, <3>1
  <2>2. CASE i # 0
    <3>1. off = NextAfter(buf, o[i], All) /\ i \in 1..n
      BY <1>2, <1>8, <2>2
    <3> QED  BY <1>7, <3>1
  <2> QED  BY <2>1, <2>2
<1> HIDE DEF off
<1>10. CASE i = n
  <2>1. step' = "view" /\ offs' = offs
    BY <1>1, <1>9, <1>10
  <2>2. Seen(buf, <<>>) /\ Len(<<>>) = 0
    BY SeenNone DEF IInv, ArenaOK
  <2>3. offs = SubSeq(W, 1, n - 0) /\ n - 0 = n
    BY <1>2, <1>3, <1>10
  <2>4. Cost(SubSeq(ms, n - 0 + 1, n), Overhead) <= Room
    <3>1. SubSeq(ms, n - 0 + 1, n) = <<>>
      BY <1>2, SubSeqEmpty
    <3>2. Cost(<<>>, Overhead) <= Room
      BY InboxOK, HoldNone
    <3> QED  BY <3>1, <3>2
  <2>5. offs = <<>> => Recent(ms) <= n - 0 + 1 /\ <<>> = SubSeq(ms, Recent(ms), n - 0)
    <3> SUFFICES ASSUME offs = <<>>  PROVE Recent(ms) <= n - 0 + 1 /\ <<>> = SubSeq(ms, Recent(ms), n - 0)
      OBVIOUS
    <3>1. n = 0
      BY <1>8, <1>10
    <3>2. Recent(ms) \in 1..(n + 1)
      BY <1>2, InboxOK, RecentIs DEF n
    <3> DEFINE k == Recent(ms)
    <3> HIDE DEF k
    <3>3. k = 1
      BY <3>1, <3>2 DEF k
    <3>4. SubSeq(ms, 1, 0) = <<>>
      BY SubSeqEmpty
    <3> QED  BY <3>1, <3>3, <3>4 DEF k
  <2>6. SaveOK'
    BY <1>1, <1>2, <1>3, <2>1, <2>2, <2>3, <2>4, <2>5 DEF SaveOK, ms, n, W
  <2> QED  BY <1>4, <1>5, <1>6, <2>6 DEF IInv
<1>11. CASE i # n
  <2>1. i + 1 \in 1..n /\ i < n
    BY <1>2, <1>8, <1>11
  <2>2. off # -1
    <3>1. o[i + 1] \in Nat
      <4>1. i + 1 \in 1..(Len(o) - 1)
        BY <1>2, <2>1
      <4> DEFINE j == i + 1
      <4> HIDE DEF j
      <4>2. o[j] \in Nat
        BY <1>2, <4>1, LaidAt DEF j
      <4> QED  BY <4>2 DEF j
    <3> QED  BY <1>9, <1>11, <3>1
  <2>3. step' = "walk" /\ offs' = Append(offs, o[i + 1])
    BY <1>1, <1>9, <1>11, <2>2
  <2>4. offs' = SubSeq(W, 1, i + 1)
    <3>1. Append(SubSeq(W, 0 + 1, i), W[i + 1]) = SubSeq(W, 0 + 1, i + 1)
      <4>1. 0 \in Nat /\ i \in Nat /\ 0 <= i /\ i < Len(W)
        BY <1>2, <1>8, <2>1
      <4> HIDE DEF i
      <4> QED  BY <1>2, <4>1, SliceMore
    <3>2. W[i + 1] = o[i + 1]
      BY <1>2, <2>1
    <3> QED  BY <1>3, <2>3, <3>1, <3>2
  <2>5. Len(offs') = i + 1
    <3> DEFINE z == i + 1
    <3>1. z \in Nat /\ z <= Len(W)
      BY <1>2, <1>8, <2>1
    <3> HIDE DEF z
    <3>2. Len(SubSeq(W, 1, z)) = z
      BY <1>2, <3>1, PrefixIs
    <3> QED  BY <2>4, <3>2 DEF z
  <2>6. SaveOK'
    <3>1. offs' = SubSeq(W, 1, Len(offs')) /\ Len(offs') \in 0..n
      <4>1. i + 1 \in 0..n
        BY <1>2, <1>8, <2>1
      <4> QED  BY <2>4, <2>5, <4>1
    <3> QED  BY <1>1, <1>2, <1>3, <2>3, <3>1 DEF SaveOK, ms, n, W
  <2> QED  BY <1>4, <1>5, <1>6, <2>6 DEF IInv
<1> QED  BY <1>10, <1>11

\* One record is chosen, or the choice is made: what is chosen is always the
\* newest, and as many as there is flash for.
LEMMA ViewI ==
  ASSUME IInv, View
  PROVE  IInv'
<1> DEFINE ms == Messages(buf)
           n == Len(ms)
           o == Offsets(buf)
           W == Walk(buf, All)
           v == Len(views)
           z == n - v
           x == Sight(buf, o[z])
           more == Append(views, x)
<1>1. /\ step = "view" /\ offs # <<>> /\ buf' = buf /\ dirty' = dirty /\ saved' = saved /\ left' = left
      /\ stage' = stage
      /\ LET off == Last(offs)
         IN IF off + Fixed > Len(buf) \/ off + Length(buf, off) > Len(buf) THEN Done
            ELSE IF Spent(Append(views, Sight(buf, off))) > Room
            THEN offs' = <<>> /\ step' = step /\ held' = held /\ views' = views /\ out' = out
            ELSE /\ offs' = Front(offs) /\ views' = Append(views, Sight(buf, off))
                 /\ step' = step /\ held' = held /\ out' = out
  BY DEF View, Sight
<1>2. /\ stage = "up" /\ held = TRUE /\ dirty \in BOOLEAN /\ left = <<>>
      /\ Laid(buf, o) /\ ms = Held(buf, o) /\ ms \in Seq(Msgs) /\ n = Len(o) - 1 /\ n \in Nat
      /\ W \in Seq(Nat) /\ Len(W) = n /\ \A j \in 1..n : W[j] = o[j]
  BY <1>1, Under
<1>3. /\ out = <<>> /\ Seen(buf, views) /\ offs = SubSeq(W, 1, z)
      /\ Cost(SubSeq(ms, z + 1, n), Overhead) <= Room
  BY <1>1 DEF IInv, SaveOK
<1>4. ArenaOK' /\ FlashOK'
  BY <1>1 DEF IInv, ArenaOK, FlashOK
<1>5. LoadOK'
  BY <1>1, <1>2 DEF LoadOK
<1>6. FreshOK' \/ step' # step
  BY <1>1 DEF IInv, FreshOK
<1> HIDE DEF ms, n, o, W
<1>7. v \in 0..n
  BY <1>2, <1>3, SeenIs
<1>8. /\ z \in 1..n /\ z \in Nat /\ Last(offs) = o[z] /\ Front(offs) = SubSeq(W, 1, z - 1) /\ z + 1 \in 1..(n + 1)
      /\ v < n /\ n - (v + 1) = z - 1 /\ n - (v + 1) + 1 = z
  <2>1. z \in Nat /\ z <= Len(W)
    BY <1>2, <1>7
  <2> HIDE DEF z
  <2>2. /\ SubSeq(W, 1, z) = <<>> <=> z = 0
        /\ z > 0 => Last(SubSeq(W, 1, z)) = W[z] /\ Front(SubSeq(W, 1, z)) = SubSeq(W, 1, z - 1)
    BY <1>2, <2>1, PrefixIs
  <2>3. z > 0 /\ z \in 1..n
    BY <1>1, <1>2, <1>3, <2>1, <2>2
  <2>4. v < n /\ n - (v + 1) = z - 1 /\ n - (v + 1) + 1 = z /\ z + 1 \in 1..(n + 1)
    BY <1>2, <1>7, <2>3 DEF z
  <2>5. Last(offs) = o[z] /\ Front(offs) = SubSeq(W, 1, z - 1)
    BY <1>2, <1>3, <2>2, <2>3
  <2> QED  BY <2>1, <2>3, <2>4, <2>5
<1>9. Seen(buf, more) /\ Len(more) = v + 1
  <2>1. Laid(buf, o) /\ n = Len(o) - 1 /\ Seen(buf, views) /\ Len(views) < n
    BY <1>2, <1>3, <1>8
  <2> QED  BY <2>1, SeenMore
<1>10. Spent(more) = Cost(SubSeq(ms, z, n), Overhead)
  <2> HIDE DEF more
  <2>1. Spent(more) = Cost(SubSeq(Held(buf, o), n - Len(more) + 1, n), Overhead)
    <3>1. Laid(buf, o) /\ n = Len(o) - 1 /\ Seen(buf, more)
      BY <1>2, <1>9
    <3> QED  BY ONLY <3>1, InboxOK, SeenSpent
  <2> QED  BY <1>2, <1>8, <1>9, <2>1
<1>11. ~(o[z] + Fixed > Len(buf) \/ o[z] + Length(buf, o[z]) > Len(buf))
  <2>1. z \in 1..(Len(o) - 1)
    BY <1>2, <1>8
  <2>2. o[z] \in Nat /\ o[z] + 2 <= Len(buf) /\ o[z + 1] = o[z] + Length(buf, o[z]) /\ o[z + 1] <= Len(buf)
        /\ Length(buf, o[z]) \in Nat /\ Len(buf) \in Nat
    <3> HIDE DEF z
    <3>1. Len(buf) \in Nat
      BY <1>2 DEF Laid
    <3> QED  BY <1>2, <2>1, <3>1, LaidAt
  <2> DEFINE u == o[z]
             l == Length(buf, u)
             B == Len(buf)
  <2>3. u \in Nat /\ l \in Nat /\ B \in Nat /\ u + 2 <= B /\ u + l <= B
    BY <2>2
  <2> HIDE DEF u, l, B
  <2>4. ~(u + Fixed > B \/ u + l > B)
    BY <2>3 DEF Fixed
  <2> QED  BY <2>4 DEF u, l, B
<1>12. Cost(SubSeq(ms, z, n), Overhead) \in Nat /\ Room \in Nat
  <2>1. SubSeq(ms, z, n) \in Seq(Msgs)
    <3> DEFINE a == z - 1
    <3>1. a \in Nat /\ a <= n /\ n <= Len(ms) /\ a + 1 = z
      BY <1>2, <1>8 DEF n
    <3> HIDE DEF a, z
    <3>2. SubSeq(ms, a + 1, n) \in Seq(Msgs)
      BY <1>2, <3>1, Slice
    <3> QED  BY <3>1, <3>2
  <2> DEFINE part == SubSeq(ms, z, n)
  <2> HIDE DEF part
  <2>2. Overhead \in Nat /\ Room \in Nat
    BY InboxOK DEF InboxOK
  <2>3. part \in Seq(Msgs)
    BY <2>1 DEF part
  <2>4. PICK p : CostRuns(p, part, Overhead)
    BY <2>2, <2>3, CostHas
  <2>5. p \in [0..Len(part) -> Nat] /\ Cost(part, Overhead) = p[Len(part)] /\ Len(part) \in Nat
    BY <2>2, <2>3, <2>4, CostStep, LenProperties
  <2>6. Len(part) \in 0..Len(part)
    BY <2>5
  <2> QED  BY <2>2, <2>5, <2>6 DEF part
<1> HIDE DEF more, x
<1>13. CASE Spent(more) > Room
  <2>1. offs' = <<>> /\ step' = step /\ held' = held /\ views' = views /\ out' = out
    BY <1>1, <1>8, <1>11, <1>13 DEF more, x
  <2>2. Recent(ms) = z + 1
    <3> DEFINE k == z + 1
    <3>1. k \in 1..(n + 1) /\ k - 1 = z
      BY <1>8
    <3> HIDE DEF k
    <3>2. Cost(SubSeq(ms, k, n), Overhead) <= Room
      BY <1>3 DEF k
    <3>3. ~(Cost(SubSeq(ms, k - 1, n), Overhead) <= Room)
      <4> DEFINE y == Cost(SubSeq(ms, z, n), Overhead)
      <4>1. y > Room /\ y \in Nat /\ Room \in Nat
        BY <1>10, <1>12, <1>13
      <4> HIDE DEF y
      <4>2. ~(y <= Room)
        BY <4>1
      <4> QED  BY <3>1, <4>2 DEF y
    <3>4. Recent(ms) = k
      BY <1>2, <3>1, <3>2, <3>3, InboxOK, RecentHere DEF n
    <3> QED  BY <3>4 DEF k
  <2>3. SubSeq(ms, z + 1, z) = <<>>
    BY <1>8, SubSeqEmpty
  <2>4. Recent(ms) <= z + 1 /\ <<>> = SubSeq(ms, Recent(ms), z)
    BY <1>8, <2>2, <2>3
  <2>5. SaveOK'
    BY <1>1, <1>2, <1>3, <2>1, <2>4 DEF SaveOK, ms, n, W
  <2> QED  BY <1>4, <1>5, <1>6, <2>1, <2>5 DEF IInv
<1>14. CASE ~(Spent(more) > Room)
  <2>1. offs' = SubSeq(W, 1, z - 1) /\ step' = step /\ held' = held /\ views' = more /\ out' = out
    BY <1>1, <1>8, <1>11, <1>14 DEF more, x
  <2>2. Cost(SubSeq(ms, z, n), Overhead) <= Room
    <3> DEFINE y == Cost(SubSeq(ms, z, n), Overhead)
    <3>1. ~(y > Room) /\ y \in Nat /\ Room \in Nat
      BY <1>10, <1>12, <1>14
    <3> HIDE DEF y
    <3>2. y <= Room
      BY <3>1
    <3> QED  BY <3>2 DEF y
  <2>3. n - Len(views') = z - 1 /\ n - Len(views') + 1 = z
    BY <1>8, <1>9, <2>1
  <2>4. offs' = <<>> => Recent(ms) <= (z - 1) + 1 /\ <<>> = SubSeq(ms, Recent(ms), z - 1)
    <3> SUFFICES ASSUME offs' = <<>>
                 PROVE  Recent(ms) <= (z - 1) + 1 /\ <<>> = SubSeq(ms, Recent(ms), z - 1)
      OBVIOUS
    <3> DEFINE y == z - 1
    <3>1. y \in Nat /\ y <= Len(W)
      BY <1>2, <1>8
    <3> HIDE DEF y
    <3>2. SubSeq(W, 1, y) = <<>> <=> y = 0
      BY <1>2, <3>1, PrefixIs
    <3>3. y = 0
      BY <2>1, <3>2 DEF y
    <3>4. z = 1
      BY <1>8, <3>3 DEF y
    <3>5. Recent(ms) \in 1..(n + 1) /\ Recent(ms) <= z
      <4>1. /\ Recent(ms) \in 1..(n + 1)
            /\ \A j \in 1..(n + 1) : Cost(SubSeq(ms, j, n), Overhead) <= Room => Recent(ms) <= j
        BY <1>2, InboxOK, RecentIs DEF n
      <4>2. z \in 1..(n + 1)
        BY <1>2, <1>8
      <4> QED  BY <2>2, <4>1, <4>2
    <3> DEFINE k == Recent(ms)
    <3>6. k = 1
      <4> HIDE DEF z
      <4> QED  BY <1>2, <3>4, <3>5
    <3> HIDE DEF k
    <3>7. SubSeq(ms, 1, 0) = <<>>
      BY SubSeqEmpty
    <3> HIDE DEF z
    <3> QED  BY <3>3, <3>4, <3>6, <3>7 DEF k, y
  <2>5. step' = "view" /\ Seen(buf, views') /\ out' = <<>>
    BY <1>1, <1>3, <1>9, <2>1
  <2>6. /\ offs' # <<>> => offs' = SubSeq(W, 1, n - Len(views'))
                           /\ Cost(SubSeq(ms, n - Len(views') + 1, n), Overhead) <= Room
        /\ offs' = <<>> => Recent(ms) <= n - Len(views') + 1
                           /\ out' = SubSeq(ms, Recent(ms), n - Len(views'))
    <3> HIDE DEF z
    <3>1. n - Len(views') + 1 = (z - 1) + 1
      BY <2>3
    <3> QED  BY <2>1, <2>2, <2>3, <2>4, <2>5, <3>1
  <2>7. SaveOK'
    BY <1>1, <1>2, <2>1, <2>5, <2>6 DEF SaveOK, ms, n, W
  <2> QED  BY <1>4, <1>5, <1>6, <2>1, <2>7 DEF IInv
<1> QED  BY <1>13, <1>14

\* One more record packed, oldest first.
LEMMA PackI ==
  ASSUME IInv, Pack
  PROVE  IInv'
<1> DEFINE ms == Messages(buf)
           n == Len(ms)
           o == Offsets(buf)
           v == Len(views)
           z == n - v
           y == z + 1
           k == Recent(ms)
           e == Last(views)
           m == [where |-> Where(e.head), read |-> Read(e.head), text |-> Text(buf, e.at, e.take)]
<1>1. /\ step = "view" /\ offs = <<>> /\ views # <<>> /\ out' = Append(out, m) /\ views' = Front(views)
      /\ buf' = buf /\ dirty' = dirty /\ saved' = saved /\ left' = left /\ stage' = stage
      /\ step' = step /\ held' = held /\ offs' = offs
  BY DEF Pack
<1>2. /\ stage = "up" /\ held = TRUE /\ dirty \in BOOLEAN /\ left = <<>>
      /\ Laid(buf, o) /\ ms = Held(buf, o) /\ ms \in Seq(Msgs) /\ n = Len(o) - 1 /\ n \in Nat
  BY <1>1, Under
<1>3. Seen(buf, views) /\ k <= z + 1 /\ out = SubSeq(ms, k, z)
  BY <1>1 DEF IInv, SaveOK
<1>4. ArenaOK' /\ FlashOK'
  BY <1>1 DEF IInv, ArenaOK, FlashOK
<1>5. LoadOK'
  BY <1>1, <1>2 DEF LoadOK
<1>6. FreshOK'
  BY <1>1 DEF IInv, FreshOK
<1> HIDE DEF ms, n, o, e
<1>7. v \in 1..n /\ e = Sight(buf, o[y]) /\ Seen(buf, Front(views)) /\ Len(Front(views)) = v - 1
  <2>1. Laid(buf, o) /\ n = Len(o) - 1 /\ Seen(buf, views) /\ views # <<>>
    BY <1>1, <1>2, <1>3
  <2> QED  BY ONLY <2>1, SeenLess DEF e
<1>8. y \in 1..n /\ n - (v - 1) = y /\ z \in Nat /\ z < n
  BY <1>2, <1>7
<1>9. m = ms[y]
  <2>1. y \in 1..(Len(o) - 1)
    BY <1>2, <1>8
  <2> HIDE DEF y
  <2> DEFINE g == Sight(buf, o[y])
  <2>2. [where |-> Where(g.head), read |-> Read(g.head), text |-> Text(buf, g.at, g.take)] = Held(buf, o)[y]
    BY <1>2, <2>1, SightIs
  <2> QED  BY <1>2, <1>7, <2>2
<1> HIDE DEF m
<1>10. k \in 1..(n + 1)
  BY <1>2, InboxOK, RecentIs DEF n
<1>11. out' = SubSeq(ms, k, y)
  <2> DEFINE a == k - 1
  <2>1. a \in Nat /\ a <= z /\ z < Len(ms) /\ a + 1 = k
    BY <1>3, <1>8, <1>10 DEF n
  <2>2. z \in Nat
    BY <1>8
  <2> HIDE DEF a, k, z
  <2>3. Append(SubSeq(ms, a + 1, z), ms[z + 1]) = SubSeq(ms, a + 1, z + 1)
    BY <1>2, <2>1, <2>2, SliceMore
  <2> QED  BY <1>1, <1>3, <1>9, <2>1, <2>3
<1>12. n - Len(views') = y /\ k <= y + 1
  <2> HIDE DEF k
  <2>1. n - Len(views') = y
    BY <1>1, <1>7, <1>8
  <2> QED  BY <1>3, <1>8, <1>10, <2>1
<1>13. SaveOK'
  <2>1. Recent(ms) <= n - Len(views') + 1 /\ out' = SubSeq(ms, Recent(ms), n - Len(views'))
    BY <1>11, <1>12
  <2> HIDE DEF y, k
  <2> QED  BY <1>1, <1>2, <1>7, <2>1 DEF SaveOK, ms, n
<1> QED  BY <1>4, <1>5, <1>6, <1>13 DEF IInv

\* What is written is the newest that fits.
LEMMA WrittenIs ==
  ASSUME IInv, Write
  PROVE  saved' = Fitting(Messages(buf)) /\ buf' = buf /\ stage = "up"
<1> DEFINE ms == Messages(buf)
           n == Len(ms)
<1>1. step = "view" /\ offs = <<>> /\ views = <<>> /\ saved' = out /\ buf' = buf
  BY DEF Write
<1>2. stage = "up" /\ ms \in Seq(Msgs) /\ n \in Nat
  BY <1>1, Under
<1>3. out = SubSeq(ms, Recent(ms), n - 0)
  <2>1. Len(<<>>) = 0
    OBVIOUS
  <2> QED  BY <1>1, <2>1 DEF IInv, SaveOK
<1> HIDE DEF ms
<1>4. Fitting(ms) = SubSeq(ms, Recent(ms), n) /\ n - 0 = n
  BY <1>2, InboxOK, RecentIs
<1> QED  BY <1>1, <1>2, <1>3, <1>4 DEF ms

\* What is written is what fits.
LEMMA WriteI ==
  ASSUME IInv, Write
  PROVE  IInv'
<1> DEFINE ms == Messages(buf)
           n == Len(ms)
<1>1. /\ step = "view" /\ offs = <<>> /\ views = <<>> /\ step' = "clean"
      /\ buf' = buf /\ dirty' = dirty /\ left' = left /\ stage' = stage /\ held' = held
      /\ offs' = offs /\ views' = views /\ out' = out
  BY DEF Write
<1>2. /\ stage = "up" /\ held = TRUE /\ dirty \in BOOLEAN /\ left = <<>>
      /\ ms \in Seq(Msgs) /\ Holdable(ms)
  BY <1>1, Under
<1>3. saved' = Fitting(ms)
  BY WrittenIs
<1>4. ArenaOK'
  BY <1>1 DEF IInv, ArenaOK
<1>5. LoadOK'
  BY <1>1, <1>2 DEF LoadOK
<1>6. FreshOK'
  BY <1>1, <1>3 DEF FreshOK
<1> HIDE DEF ms
<1>7. FlashOK'
  <2>1. /\ Recent(ms) \in 1..(n + 1) /\ Cost(SubSeq(ms, Recent(ms), n), Overhead) <= Room
        /\ Fitting(ms) = SubSeq(ms, Recent(ms), n)
    BY <1>2, InboxOK, RecentIs
  <2> DEFINE k == Recent(ms)
  <2> HIDE DEF k
  <2>2. Holdable(SubSeq(ms, k, Len(ms)))
    BY <1>2, <2>1, InboxOK, HoldLess DEF k
  <2> QED  BY <1>3, <2>1, <2>2 DEF FlashOK, k
<1>8. SaveOK'
  BY <1>1, <1>2 DEF SaveOK
<1> QED  BY <1>4, <1>5, <1>6, <1>7, <1>8 DEF IInv

\* Every step keeps the invariant.
LEMMA StepI ==
  ASSUME IInv, ~StopSaves, [Next]_vars
  PROVE  IInv'
<1>1. CASE UNCHANGED vars
  <2>1. /\ buf' = buf /\ dirty' = dirty /\ saved' = saved /\ left' = left /\ stage' = stage /\ step' = step
        /\ held' = held /\ offs' = offs /\ views' = views /\ out' = out
    BY <1>1 DEF vars, saving
  <2> QED  BY <2>1 DEF IInv, ArenaOK, FlashOK, LoadOK, SaveOK, FreshOK
<1>2. CASE \E w \in Wheres, t \in Texts : Add(w, t)
  BY <1>2, AddI
<1>3. CASE \E want \in Wheres \cup {All} : Look(want)
  BY <1>3, LookI
<1>4. CASE FactoryReset
  BY <1>4, FactoryResetI
<1>5. CASE Begin
  BY <1>5, BeginI
<1>6. CASE WalkOn
  BY <1>6, WalkOnI
<1>7. CASE View
  BY <1>7, ViewI
<1>8. CASE Pack
  BY <1>8, PackI
<1>9. CASE Write
  BY <1>9, WriteI
<1>10. CASE Clean
  BY <1>10, CleanI
<1>11. CASE GiveUp
  BY <1>11, GiveUpI
<1>12. CASE Restart
  BY <1>12, RestartI
<1>13. CASE Restore
  BY <1>13, RestoreI
<1>14. CASE Loaded
  BY <1>14, LoadedI
<1> QED
  BY <1>1, <1>2, <1>3, <1>4, <1>5, <1>6, <1>7, <1>8, <1>9, <1>10, <1>11, <1>12, <1>13, <1>14 DEF Next

\* As long as the callback is kept out of every save, the arena holds whole
\* messages and nothing else, a save in progress has read no other ones, and
\* what is loading and what was loaded make up what was saved.
THEOREM HoldsTogether ==
  ASSUME ~StopSaves
  PROVE  Spec => []IInv
<1>1. Init => IInv
  BY InitI
<1>2. IInv /\ [Next]_vars => IInv'
  BY StepI
<1> QED  BY <1>1, <1>2, PTL DEF Spec

\* The records fill the arena exactly, within its bytes and its number of
\* messages, each of a conversation there is and no longer than allowed
\* (inbox.rs:append, inbox.rs:next).
THEOREM ArenaFilled ==
  ASSUME ~StopSaves
  PROVE  Spec => []TypeOK
<1>1. IInv => TypeOK
  <2> SUFFICES ASSUME IInv  PROVE TypeOK
    OBVIOUS
  <2> DEFINE ms == Messages(buf)
  <2>1. Sound(buf) /\ ms \in Seq(Kept) /\ Len(ms) <= Limit /\ Cost(ms, Fixed) <= Cap
    BY DEF IInv, ArenaOK, Holdable
  <2>2. Cost(ms, Fixed) = Len(buf)
    BY <2>1, SoundHas
  <2> HIDE DEF ms
  <2>3. \A i \in DOMAIN ms : ms[i].where \in Wheres /\ Len(ms[i].text) <= MaxText
    <3>1. DOMAIN ms = 1..Len(ms)
      BY <2>1, LenProperties
    <3>2. \A i \in DOMAIN ms : ms[i] \in Kept
      BY <2>1, <3>1, ElementOfSeq
    <3> QED  BY <3>2 DEF Kept
  <2>4. /\ dirty \in BOOLEAN /\ held \in BOOLEAN /\ step \in {"idle", "walk", "view", "clean"}
        /\ stage = "up" => left = <<>>
    BY DEF IInv, SaveOK, LoadOK
  <2> QED  BY <2>1, <2>2, <2>3, <2>4 DEF TypeOK, ms
<1> QED  BY <1>1, HoldsTogether, PTL

\* Nothing owed to flash means that flash holds what is in the arena, as much of
\* it as fits (inbox.py:161, mesh.py:436).
THEOREM CleanSaved ==
  ASSUME ~StopSaves
  PROVE  Spec => []CleanIsSaved
<1>1. IInv => CleanIsSaved
  BY DEF IInv, FreshOK, CleanIsSaved
<1> QED  BY <1>1, HoldsTogether, PTL

-----------------------------------------------------------------------------
(* The steps of the arena are steps of the mailbox.                        *)

LEMMA CostAgrees ==
  ASSUME NEW s, NEW c
  PROVE  Promise!Cost(s, c) = Cost(s, c)
  BY DEF Promise!Cost, Cost, FoldSeq, FoldFunction, FoldFunctionOnSet, MapThenFoldSet,
     Promise!FoldSeq, Promise!FoldFunction, Promise!FoldFunctionOnSet, Promise!MapThenFoldSet

\* The newest of a list, by where they begin and by how many they are.
LEMMA EndIs ==
  ASSUME NEW S, NEW s \in Seq(S), NEW k \in 1..(Len(s) + 1)
  PROVE  LET n == Len(s)
             p == SubSeq(s, k, n)
         IN /\ p \in Seq(S) /\ Len(p) \in Nat /\ n \in Nat /\ Len(p) <= n
            /\ n - Len(p) + 1 = k /\ n - (Len(p) + 1) + 1 = k - 1
            /\ Len(p) < n => k - 1 \in 1..(n + 1) /\ k - 1 \in 1..(k - 1)
<1> DEFINE n == Len(s)
           a == k - 1
           p == SubSeq(s, k, n)
           l == Len(p)
<1>1. n \in Nat /\ a \in Nat /\ a <= n /\ n <= Len(s) /\ a + 1 = k /\ k \in 1..(n + 1)
  OBVIOUS
<1>2. p \in Seq(S) /\ l = n - a
  <2>1. SubSeq(s, a + 1, n) \in Seq(S) /\ Len(SubSeq(s, a + 1, n)) = n - a
    <3> HIDE DEF a
    <3> QED  BY <1>1, Slice
  <2> QED  BY <1>1, <2>1
<1> HIDE DEF n, a, l
<1>3. /\ l \in Nat /\ l <= n /\ n - l + 1 = k /\ n - (l + 1) + 1 = k - 1
      /\ l < n => k - 1 \in 1..(n + 1) /\ k - 1 \in 1..(k - 1)
  BY <1>1, <1>2
<1> QED  BY <1>1, <1>2, <1>3 DEF n, l

\* The last of a list, and what is before it.
LEMMA FrontAppend ==
  ASSUME NEW S, NEW s \in Seq(S), NEW e \in S
  PROVE  Append(s, e) # <<>> /\ Last(Append(s, e)) = e /\ Front(Append(s, e)) = s
<1> DEFINE g == Append(s, e)
           n == Len(s)
           z == n + 1
<1>1. g \in Seq(S) /\ g # <<>> /\ Len(g) = z /\ g[z] = e /\ \A i \in 1..n : g[i] = s[i]
  BY AppendProperties
<1>2. n \in Nat /\ n <= z /\ z - 1 = n
  OBVIOUS
<1> HIDE DEF g
<1>3. Last(g) = e
  BY <1>1 DEF Last
<1>4. SubSeq(g, 1, n) \in Seq(S) /\ Len(SubSeq(g, 1, n)) = n /\ \A i \in 1..n : SubSeq(g, 1, n)[i] = g[i]
  <2> HIDE DEF n
  <2>1. n <= Len(g)
    BY <1>1, <1>2
  <2> QED  BY <1>1, <1>2, <2>1, PrefixIs
<1> DEFINE f == SubSeq(g, 1, n)
<1> HIDE DEF f
<1>5. f = s
  <2>1. f \in Seq(S) /\ Len(f) = Len(s) /\ \A i \in 1..Len(f) : f[i] = s[i]
    BY <1>1, <1>4 DEF f
  <2> QED  BY <2>1, SeqEqual
<1>6. Front(g) = f
  BY <1>1, <1>2 DEF Front, f
<1> QED  BY <1>1, <1>3, <1>5, <1>6 DEF g

\* What is appended is cut where it reads, and as few go for it as must.
LEMMA AddDelivers ==
  ASSUME IInv, NEW w \in Wheres, NEW t \in Texts, Add(w, t)
  PROVE  Promise!Deliver
<1> DEFINE head == Code(w, FALSE)
           ms == Messages(buf)
           n == Len(ms)
           cut == SubSeq(t, 1, Fit(t))
           got == [where |-> Where(head), read |-> Read(head), text |-> cut]
           c == Stored(buf, head, t)
           End(j) == SubSeq(ms, j, n)
           Holds(p) == Len(p) < Limit /\ Cost(Append(p, got), Fixed) <= Cap
<1>1. /\ stage = "up" /\ Readable(t) /\ buf' = c /\ saved' = saved /\ left' = left /\ stage' = stage
  BY DEF Add, Free
<1>2. w \in Nat /\ t \in Seq(Nat)
  BY InboxOK DEF InboxOK
<1>3. head \in Nat /\ Where(head) = w /\ Where(head) \in Wheres /\ ~Read(head)
  <2> DEFINE no == FALSE
  <2>1. no \in BOOLEAN /\ ~no
    OBVIOUS
  <2> HIDE DEF no
  <2>2. Code(w, no) \in Nat /\ Where(Code(w, no)) = w /\ Read(Code(w, no)) = no
    BY <1>2, <2>1, CodeIs
  <2> QED  BY <2>1, <2>2 DEF no
<1>4. Sound(buf) /\ Holdable(ms) /\ ms \in Seq(Msgs)
  <2>1. Sound(buf) /\ Holdable(ms)
    BY DEF IInv, ArenaOK
  <2> QED  BY <2>1, SoundHas
<1> HIDE DEF head
<1>5. /\ got \in Kept
      /\ \E k \in 1..(n + 1) :
           /\ Messages(c) = Append(End(k), got)
           /\ Holds(End(k)) /\ \A j \in 1..(k - 1) : ~Holds(End(j))
  BY <1>1, <1>2, <1>3, <1>4, InboxOK, StoredIs
<1>6. got.where \in Wheres /\ ~got.read /\ got.text = cut
  BY <1>3
<1> HIDE DEF got, c, ms
<1>7. PICK k \in 1..(n + 1) :
        /\ Messages(c) = Append(End(k), got)
        /\ Holds(End(k)) /\ \A j \in 1..(k - 1) : ~Holds(End(j))
  BY <1>5
<1> DEFINE p == End(k)
<1>8. /\ p \in Seq(Msgs) /\ Len(p) \in Nat /\ n \in Nat /\ Len(p) <= n
      /\ n - Len(p) + 1 = k /\ n - (Len(p) + 1) + 1 = k - 1
      /\ Len(p) < n => k - 1 \in 1..(k - 1)
  BY <1>4, EndIs
<1>9. got \in Msgs
  BY <1>5 DEF Kept
<1> HIDE DEF p
<1>10. /\ Messages(c) # <<>> /\ Last(Messages(c)) = got /\ Front(Messages(c)) = p
  <2>1. Messages(c) = Append(p, got)
    BY <1>7 DEF p
  <2> QED  BY <1>8, <1>9, <2>1, FrontAppend
<1>11. Promise!LongestCut(cut, t)
  <2> DEFINE take == Fit(t)
             fits == {i \in 0..Len(t) : i <= MaxText /\ Readable(SubSeq(t, 1, i))}
  <2>1. /\ take \in 0..Len(t) /\ take <= MaxText /\ Readable(SubSeq(t, 1, take))
        /\ \A i \in 0..Len(t) : i <= MaxText /\ Readable(SubSeq(t, 1, i)) => i <= take
    BY <1>1, <1>2, InboxOK, FitIs
  <2> HIDE DEF take
  <2>2. take \in fits /\ \A i \in fits : i <= take
    BY <2>1
  <2>3. cut = SubSeq(t, 1, take)
    BY DEF take
  <2> QED  BY <2>2, <2>3 DEF Promise!LongestCut
<1>12. /\ Len(p) <= n /\ p = SubSeq(ms, n - Len(p) + 1, n)
       /\ Len(p) < Limit /\ Promise!Cost(Append(p, got), Fixed) <= Cap
       /\ Len(p) < n => LET q == SubSeq(ms, n - (Len(p) + 1) + 1, n)
                        IN ~(Len(q) < Limit /\ Promise!Cost(Append(q, got), Fixed) <= Cap)
  <2>1. p = SubSeq(ms, n - Len(p) + 1, n)
    BY <1>8 DEF p
  <2>2. Holds(p)
    BY <1>7 DEF p
  <2>3. Len(p) < n => ~Holds(SubSeq(ms, n - (Len(p) + 1) + 1, n))
    BY <1>7, <1>8
  <2> QED  BY <1>8, <2>1, <2>2, <2>3, CostAgrees
<1> DEFINE later == Messages(buf)'
<1>13. later = Messages(c)
  BY <1>1
<1>14. Promise!Last(later) = got /\ Promise!Front(later) = p /\ later # <<>>
  BY <1>10, <1>13 DEF Promise!Last, Promise!Front, Last, Front
<1>15. got.where \in Wheres /\ ~got.read /\ \E x \in Texts : Readable(x) /\ Promise!LongestCut(got.text, x)
  BY <1>1, <1>6, <1>11
<1> HIDE DEF cut, p
<1>16. UNCHANGED <<saved, left, stage = "up">> /\ stage = "up"
  BY <1>1
<1> QED
  BY <1>12, <1>14, <1>15, <1>16 DEF Promise!Deliver, Promise!LongestEnd, ms, later, n

\* What is marked is what the mailbox has read.
LEMMA LookLooks ==
  ASSUME IInv, NEW want, Look(want)
  PROVE  Promise!Look(want)
<1> DEFINE ms == Messages(buf)
           seen == [i \in DOMAIN ms |-> IF want \in {All, ms[i].where}
                                        THEN [ms[i] EXCEPT !.read = TRUE] ELSE ms[i]]
<1>1. /\ stage = "up" /\ buf' = Marked(buf, want)
      /\ UNCHANGED <<saved, left, stage>>
  BY DEF Look
<1>2. Sound(buf) /\ Holdable(ms)
  BY DEF IInv, ArenaOK
<1>3. Messages(Marked(buf, want)) = seen
  BY <1>2, MarkedIs
<1>4. ms' = seen
  BY <1>1, <1>3
<1> QED  BY <1>1, <1>4 DEF Promise!Look

\* Nothing is left, here or in flash.
LEMMA ResetErases ==
  ASSUME FactoryReset
  PROVE  Promise!Erase
<1>1. stage = "up" /\ buf' = <<>> /\ saved' = <<>> /\ UNCHANGED <<left, stage>>
  BY DEF FactoryReset
<1>2. Messages(buf)' = <<>>
  BY <1>1, SoundEmpty
<1> QED  BY <1>1, <1>2 DEF Promise!Erase

\* What is written is as much of the recent end as fits in flash.
LEMMA WriteKeeps ==
  ASSUME IInv, Write
  PROVE  Promise!Keep
<1> DEFINE ms == Messages(buf)
           n == Len(ms)
           k == Recent(ms)
           p == SubSeq(ms, k, n)
<1>1. /\ saved' = Fitting(ms) /\ stage = "up" /\ UNCHANGED <<buf, left, stage>>
  BY WrittenIs DEF Write
<1>2. ms \in Seq(Msgs)
  BY SoundHas DEF IInv, ArenaOK
<1>3. /\ k \in 1..(n + 1) /\ Cost(p, Overhead) <= Room
      /\ \A j \in 1..(n + 1) : Cost(SubSeq(ms, j, n), Overhead) <= Room => k <= j
      /\ saved' = p
  BY <1>1, <1>2, InboxOK, RecentIs
<1> HIDE DEF ms, k
<1>4. /\ Len(p) \in Nat /\ n \in Nat /\ Len(p) <= n
      /\ n - Len(p) + 1 = k /\ n - (Len(p) + 1) + 1 = k - 1
      /\ Len(p) < n => k - 1 \in 1..(n + 1) /\ k - 1 \in 1..(k - 1)
  BY <1>2, <1>3, EndIs
<1> DEFINE l == Len(p)
           j == n - (l + 1) + 1
<1>5. l < n => ~(Cost(SubSeq(ms, j, n), Overhead) <= Room)
  <2>1. SUFFICES ASSUME l < n  PROVE ~(Cost(SubSeq(ms, j, n), Overhead) <= Room)
    OBVIOUS
  <2>2. j \in 1..(n + 1) /\ j = k - 1
    BY <1>4, <2>1
  <2>3. ~(k <= j)
    BY <1>3, <1>4, <2>2
  <2> HIDE DEF j
  <2> QED  BY <1>3, <2>2, <2>3
<1>6. p = SubSeq(ms, n - l + 1, n)
  BY <1>4
<1> HIDE DEF p, n
<1>7. /\ l <= n /\ p = SubSeq(ms, n - l + 1, n) /\ Promise!Cost(p, Overhead) <= Room
      /\ l < n => ~(Promise!Cost(SubSeq(ms, j, n), Overhead) <= Room)
  BY <1>3, <1>4, <1>5, <1>6, CostAgrees
<1> QED  BY <1>1, <1>3, <1>7 DEF Promise!Keep, Promise!LongestEnd, ms, n

\* Flash is what is to come back.
LEMMA RestartResets ==
  ASSUME Restart
  PROVE  Promise!Reset
<1>1. buf' = <<>> /\ left' = saved /\ stage' = "loading" /\ UNCHANGED saved
  BY DEF Restart
<1>2. Messages(buf)' = <<>>
  BY <1>1, SoundEmpty
<1> QED  BY <1>1, <1>2 DEF Promise!Reset

\* Each message comes back whole, where it was.
LEMMA RestoreRecalls ==
  ASSUME IInv, Restore
  PROVE  Promise!Recall
<1> DEFINE m == Head(left)
           c == Stored(buf, Code(m.where, m.read), m.text)
<1>1. /\ stage = "loading" /\ left # <<>> /\ UNCHANGED <<saved, stage>>
      /\ IF Readable(m.text) THEN buf' = c /\ left' = Tail(left) ELSE left' = <<>> /\ buf' = buf
  BY DEF Restore
<1>2. /\ Sound(buf) /\ Messages(buf) \in Seq(Kept) /\ left \in Seq(Kept)
      /\ Messages(buf) \o left = saved /\ Holdable(saved)
  BY <1>1 DEF IInv, ArenaOK, FlashOK, LoadOK, Holdable
<1>3. Readable(m.text) /\ Messages(c) = Append(Messages(buf), m)
  BY <1>1, <1>2, InboxOK, PutBack
<1>4. buf' = c /\ left' = Tail(left)
  BY <1>1, <1>3
<1> HIDE DEF c
<1>5. Messages(buf)' = Append(Messages(buf), Head(left))
  BY <1>3, <1>4
<1> QED  BY <1>1, <1>4, <1>5 DEF Promise!Recall

LEMMA LoadedIsReady ==
  ASSUME Loaded
  PROVE  Promise!Ready
  BY DEF Loaded, Promise!Ready

\* A save shows only when it is written.
LEMMA SaveStutters ==
  ASSUME Begin \/ WalkOn \/ View \/ Pack \/ Clean \/ GiveUp \/ UNCHANGED vars
  PROVE  UNCHANGED <<Messages(buf), saved, left, stage = "up">>
<1>1. UNCHANGED <<buf, saved, left, stage>>
  BY DEF Begin, WalkOn, View, Pack, Clean, GiveUp, vars
<1> QED  BY <1>1

\* Every step is one of the mailbox, or none.
LEMMA StepPromised ==
  ASSUME IInv, ~StopSaves, [Next]_vars
  PROVE  [Promise!Next]_<<Messages(buf), saved, left, stage = "up">>
<1>1. CASE \E w \in Wheres, t \in Texts : Add(w, t)
  BY <1>1, AddDelivers DEF Promise!Next
<1>2. CASE \E want \in Wheres \cup {All} : Look(want)
  BY <1>2, LookLooks DEF Promise!Next
<1>3. CASE FactoryReset
  BY <1>3, ResetErases DEF Promise!Next
<1>4. CASE Write
  BY <1>4, WriteKeeps DEF Promise!Next
<1>5. CASE Restart
  BY <1>5, RestartResets DEF Promise!Next
<1>6. CASE Restore
  BY <1>6, RestoreRecalls DEF Promise!Next
<1>7. CASE Loaded
  BY <1>7, LoadedIsReady DEF Promise!Next
<1>8. CASE Begin \/ WalkOn \/ View \/ Pack \/ Clean \/ GiveUp \/ UNCHANGED vars
  BY <1>8, SaveStutters
<1> QED  BY <1>1, <1>2, <1>3, <1>4, <1>5, <1>6, <1>7, <1>8 DEF Next

\* The packed arena, its walks and evictions, and the save taken call by call do
\* what the mailbox promises: a new message put last and the oldest gone for it,
\* cut where it can be read, the newest that fit saved, and brought back in order
\* after a reset (inbox.py:1).
THEOREM ArenaIsMailbox ==
  ASSUME ~StopSaves
  PROVE  Spec => RefinesMailbox
<1>1. Init => Promise!Init
  BY SoundEmpty DEF Init, Promise!Init
<1>2. IInv /\ [Next]_vars => [Promise!Next]_<<Messages(buf), saved, left, stage = "up">>
  BY StepPromised
<1> QED  BY <1>1, <1>2, HoldsTogether, PTL DEF Spec, RefinesMailbox, Promise!Spec

=============================================================================
