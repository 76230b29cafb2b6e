--------------------------- MODULE DutyWindow_proofs ---------------------------
(***************************************************************************)
(* Theorems about DutyWindow for every ring, bucket width, budget and set  *)
(* of airtimes: what the ring holds, what the node has had on the air, and *)
(* that the bench's own ring (BenchDuty) is the same.                      *)
(***************************************************************************)
EXTENDS BenchDuty, FiniteSetTheorems, WellFoundedInduction, TLAPS

(* What WindowExact rests on: the header never runs ahead of the clock,    *)
(* and nothing is credited past it.                                        *)
Behind ==
  /\ booted <= clock
  /\ last <= Slot
  /\ \A s \in Slots : s > last => credit[s] = 0

\* A transmission in progress began in the past and holds a frame.
Holding ==
  /\ stage = "idle" => us = 0
  /\ stage # "idle" => us \in Airtimes

\* The frame on the air.
Current == [at |-> began, us |-> us]

IInv == TypeOK /\ Behind /\ Holding /\ WindowExact

-----------------------------------------------------------------------------
(* Folds over finite sets, and sums.  The library's theorems on induction take *)
(* a predicate; that a proper subset is smaller, and that every nonempty set   *)
(* of numbers has a least element, do without one.                             *)

LEMMA Least ==
  ASSUME NEW S \in SUBSET Nat, S # {}
  PROVE  \E n \in S : \A m \in S : n <= m
<1> DEFINE R == {ss \in Nat \X Nat : ss[1] < ss[2]}
<1>1. IsWellFoundedOn(R, Nat)
  BY NatLessThanWellFounded DEF OpToRel
<1>2. \A x, y \in Nat : <<y, x>> \in R <=> y < x
  OBVIOUS
<1> HIDE DEF R
<1>3. PICK n \in S : \A m \in S : ~(<<m, n>> \in R)
  BY <1>1, WFMin
<1>4. \A m \in S : ~(m < n)
  <2> TAKE m \in S
  <2>1. m \in Nat /\ n \in Nat /\ ~(<<m, n>> \in R)
    BY <1>3
  <2> QED  BY <1>2, <2>1
<1> QED  BY <1>4

\* What holds of a set when it holds of its proper subsets holds of them all.
LEMMA SubsetInduction ==
  ASSUME NEW S, IsFiniteSet(S), NEW X,
         \A T \in SUBSET S : (\A U \in SUBSET T : U # T => U \in X) => T \in X
  PROVE  SUBSET S \subseteq X
<1> DEFINE Z == (SUBSET S) \ X
           C == {Cardinality(T) : T \in Z}
<1> SUFFICES ASSUME Z # {}  PROVE FALSE
  OBVIOUS
<1>1. \A T \in SUBSET S : IsFiniteSet(T) /\ Cardinality(T) \in Nat
  BY FS_Subset, FS_CardinalityType
<1>2. C \in SUBSET Nat /\ C # {}
  BY <1>1
<1> HIDE DEF C
<1>3. PICK n \in C : \A k \in C : n <= k
  BY <1>2, Least
<1>4. PICK T \in Z : n = Cardinality(T)
  BY DEF C
<1>5. \A U \in SUBSET T : U # T => U \in X
  <2> SUFFICES ASSUME NEW U \in SUBSET T, U # T, U \notin X  PROVE FALSE
    OBVIOUS
  <2>1. U \in Z /\ IsFiniteSet(T)
    BY <1>1
  <2>2. Cardinality(U) \in C /\ Cardinality(U) \in Nat /\ Cardinality(T) \in Nat
    BY <1>1, <2>1 DEF C
  <2>3. Cardinality(U) <= Cardinality(T) /\ (Cardinality(T) = Cardinality(U) => T = U)
    BY <2>1, FS_Subset
  <2>4. Cardinality(T) <= Cardinality(U)
    BY <1>3, <1>4, <2>2
  <2> QED  BY <2>2, <2>3, <2>4
<1> QED  BY <1>5

\* The member a fold takes next.
Pick(T) == CHOOSE x \in T : TRUE

LEMMA PickIs ==
  ASSUME NEW T, T # {}
  PROVE  Pick(T) \in T /\ T \ {Pick(T)} \in SUBSET T /\ T \ {Pick(T)} # T
  BY DEF Pick

\* A function of the subsets of a finite set is defined by its value for none and
\* by what one member more makes of it.
Folded(g, S, V, a, f) ==
  /\ g \in [SUBSET S -> V]
  /\ g[{}] = a
  /\ \A T \in SUBSET S : T # {} => g[T] = f[<<Pick(T), g[T \ {Pick(T)}]>>]

LEMMA Folding ==
  ASSUME NEW S, IsFiniteSet(S), NEW V, NEW a \in V, NEW f \in [S \X V -> V]
  PROVE  \E g : Folded(g, S, V, a, f)
<1> DEFINE From(g, T) == IF T = {} THEN a ELSE f[<<Pick(T), g[T \ {Pick(T)}]>>]
           Good(g, n) == \A T \in SUBSET S : Cardinality(T) <= n => g[T] = From(g, T)
           W == [SUBSET S -> V]
           X == {n \in Nat : \E g \in W : Good(g, n)}
<1>1. \A T \in SUBSET S : IsFiniteSet(T) /\ Cardinality(T) \in Nat /\ (Cardinality(T) = 0 <=> T = {})
  BY FS_Subset, FS_CardinalityType, FS_EmptySet
<1>2. \A T \in SUBSET S : T # {} =>
         /\ Pick(T) \in S /\ T \ {Pick(T)} \in SUBSET S
         /\ Cardinality(T \ {Pick(T)}) = Cardinality(T) - 1
  <2> TAKE T \in SUBSET S
  <2> HAVE T # {}
  <2>1. Pick(T) \in T
    BY PickIs
  <2> QED  BY <1>1, <2>1, FS_RemoveElement
<1>3. \A g \in W, T \in SUBSET S : From(g, T) \in V
  <2> TAKE g \in W, T \in SUBSET S
  <2>1. CASE T = {}
    BY <2>1
  <2>2. CASE T # {}
    <3>1. <<Pick(T), g[T \ {Pick(T)}]>> \in S \X V
      BY <1>2, <2>2
    <3> QED  BY <2>2, <3>1
  <2> QED  BY <2>1, <2>2
<1>4. 0 \in X
  <2> DEFINE g == [T \in SUBSET S |-> a]
  <2>1. g \in W
    OBVIOUS
  <2>2. \A T \in SUBSET S : Cardinality(T) <= 0 => g[T] = From(g, T)
    BY <1>1
  <2> HIDE DEF g
  <2> QED  BY <2>1, <2>2
<1>5. ASSUME NEW n \in Nat, NEW g \in W, Good(g, n)
      PROVE  \E h \in W : Good(h, n + 1)
  <2> DEFINE h == [T \in SUBSET S |-> From(g, T)]
  <2>1. h \in W
    BY <1>3
  <2>2. ASSUME NEW T \in SUBSET S, Cardinality(T) <= n + 1
        PROVE  h[T] = From(h, T)
    <3>1. CASE T = {}
      BY <3>1
    <3>2. CASE T # {}
      <4> DEFINE U == T \ {Pick(T)}
      <4>1. U \in SUBSET S /\ Cardinality(U) <= n
        BY <1>1, <1>2, <2>2, <3>2
      <4>2. h[U] = From(g, U) /\ g[U] = From(g, U)
        BY <1>5, <4>1
      <4>3. h[T] = f[<<Pick(T), g[U]>>]
        BY <3>2
      <4> HIDE DEF h
      <4> QED  BY <3>2, <4>2, <4>3
    <3> QED  BY <3>1, <3>2
  <2> HIDE DEF h
  <2> QED  BY <2>1, <2>2
<1>6. \A n \in Nat : n \in X => n + 1 \in X
  <2> HIDE DEF Good, W
  <2> QED  BY <1>5
<1>7. Cardinality(S) \in X
  <2> HIDE DEF X
  <2> SUFFICES ASSUME Nat \ X # {}  PROVE FALSE
    BY <1>1
  <2>1. PICK n \in Nat \ X : \A m \in Nat \ X : n <= m
    BY Least
  <2>2. n # 0 /\ n - 1 \in Nat /\ (n - 1) + 1 = n
    BY <1>4, <2>1
  <2>3. n - 1 \in X
    BY <2>1, <2>2
  <2> QED  BY <1>6, <2>1, <2>2, <2>3
<1>8. PICK g \in W : Good(g, Cardinality(S))
  BY <1>7
<1>9. \A T \in SUBSET S : g[T] = From(g, T)
  <2> TAKE T \in SUBSET S
  <2>1. Cardinality(T) <= Cardinality(S)
    BY FS_Subset
  <2> QED  BY <1>8, <2>1
<1> HIDE DEF Good
<1> QED  BY <1>9 DEF Folded

\* Two members may be taken in either order.
Commutes(f, S, V) ==
  \A x, y \in S, v \in V : f[<<x, f[<<y, v>>]>>] = f[<<y, f[<<x, v>>]>>]

\* Any member may be taken first.
AnyFirst(g, S, f) ==
  \A T \in SUBSET S, x \in S : x \in T => g[T] = f[<<x, g[T \ {x}]>>]

LEMMA AnyOrder ==
  ASSUME NEW S, IsFiniteSet(S), NEW V, NEW a \in V, NEW f \in [S \X V -> V],
         NEW g, Folded(g, S, V, a, f),
         Commutes(f, S, V)
  PROVE  AnyFirst(g, S, f)
<1> DEFINE X == {T \in SUBSET S : \A x \in T : g[T] = f[<<x, g[T \ {x}]>>]}
<1>1. /\ \A T \in SUBSET S : g[T] \in V
      /\ \A T \in SUBSET S : T # {} => g[T] = f[<<Pick(T), g[T \ {Pick(T)}]>>]
  BY DEF Folded
<1>2. ASSUME NEW T \in SUBSET S, \A U \in SUBSET T : U # T => U \in X
      PROVE  T \in X
  <2> SUFFICES ASSUME NEW x \in T  PROVE g[T] = f[<<x, g[T \ {x}]>>]
    OBVIOUS
  <2> DEFINE p == Pick(T)
  <2>1. p \in T /\ g[T] = f[<<p, g[T \ {p}]>>]
    BY <1>1, PickIs
  <2> HIDE DEF p
  <2>2. CASE x = p
    BY <2>1, <2>2
  <2>3. CASE x # p
    <3> DEFINE Y == (T \ {p}) \ {x}
    <3>1. /\ T \ {p} \in SUBSET T /\ T \ {p} # T /\ x \in T \ {p}
          /\ T \ {x} \in SUBSET T /\ T \ {x} # T /\ p \in T \ {x}
          /\ (T \ {x}) \ {p} = Y /\ Y \in SUBSET S
      BY <2>1, <2>3
    <3>2. T \ {p} \in X /\ T \ {x} \in X
      BY <1>2, <3>1
    <3>3. g[T \ {p}] = f[<<x, g[Y]>>] /\ g[T \ {x}] = f[<<p, g[Y]>>]
      <4>1. \A U \in X : \A z \in U : g[U] = f[<<z, g[U \ {z}]>>]
        OBVIOUS
      <4> DEFINE P == T \ {p}
                 Q == T \ {x}
      <4>2. P \in X /\ Q \in X /\ x \in P /\ p \in Q /\ P \ {x} = Y /\ Q \ {p} = Y
        BY <3>1, <3>2
      <4> HIDE DEF X, P, Q, Y
      <4>3. g[P] = f[<<x, g[P \ {x}]>>] /\ g[Q] = f[<<p, g[Q \ {p}]>>]
        BY <4>1, <4>2
      <4>4. g[P] = f[<<x, g[Y]>>] /\ g[Q] = f[<<p, g[Y]>>]
        BY <4>2, <4>3
      <4> QED  BY <4>4 DEF P, Q
    <3>4. f[<<p, f[<<x, g[Y]>>]>>] = f[<<x, f[<<p, g[Y]>>]>>]
      <4>1. p \in S /\ x \in S /\ g[Y] \in V
        BY <1>1, <2>1, <3>1
      <4> HIDE DEF Y
      <4> QED  BY <4>1 DEF Commutes
    <3> QED  BY <2>1, <3>3, <3>4
  <2> QED  BY <2>2, <2>3
<1> HIDE DEF X
<1>3. SUBSET S \subseteq X
  BY <1>2, SubsetInduction
<1> QED  BY <1>3 DEF X, AnyFirst


\* What a sum over the subsets of S is, a member at a time.
Summed(g, c, S) ==
  /\ g \in [SUBSET S -> Nat]
  /\ g[{}] = 0
  /\ \A T \in SUBSET S, x \in S : x \in T => g[T] = c[x] + g[T \ {x}]

LEMMA SumOn ==
  ASSUME NEW S, IsFiniteSet(S), NEW c, \A x \in S : c[x] \in Nat
  PROVE  \E g : Summed(g, c, S) /\ SumFunctionOnSet(c, S) = g[S]
<1> DEFINE f == [p \in S \X Nat |-> c[p[1]] + p[2]]
<1>1. f \in [S \X Nat -> Nat] /\ \A x \in S, v \in Nat : f[<<x, v>>] = c[x] + v
  OBVIOUS
<1> HIDE DEF f
<1>2. PICK g : Folded(g, S, Nat, 0, f)
  BY <1>1, Folding
<1>3. /\ g \in [SUBSET S -> Nat] /\ g[{}] = 0
      /\ \A T \in SUBSET S : T # {} => g[T] = f[<<Pick(T), g[T \ {Pick(T)}]>>]
  BY <1>2 DEF Folded
<1>4. \A T \in SUBSET S : T # {} => g[T] = c[Pick(T)] + g[T \ {Pick(T)}]
  <2> TAKE T \in SUBSET S
  <2> HAVE T # {}
  <2>1. Pick(T) \in S /\ T \ {Pick(T)} \in SUBSET S
    BY PickIs
  <2>2. g[T \ {Pick(T)}] \in Nat
    BY <1>3, <2>1
  <2> QED  BY <1>1, <1>3, <2>1, <2>2
<1> DEFINE h == CHOOSE h : h = [s \in SUBSET S |->
                   IF s = {} THEN 0 ELSE c[Pick(s)] + h[s \ {Pick(s)}]]
<1>5. g = [s \in SUBSET S |-> IF s = {} THEN 0 ELSE c[Pick(s)] + g[s \ {Pick(s)}]]
  <2> HIDE DEF h
  <2> QED  BY <1>3, <1>4
<1>6. h = [s \in SUBSET S |-> IF s = {} THEN 0 ELSE c[Pick(s)] + h[s \ {Pick(s)}]]
  BY <1>5
<1>7. SumFunctionOnSet(c, S) = h[S]
  BY DEF SumFunctionOnSet, FoldFunctionOnSet, MapThenFoldSet, Pick
<1> HIDE DEF h
<1>8. \A T \in SUBSET S : T # {} => h[T] = c[Pick(T)] + h[T \ {Pick(T)}]
  BY <1>6
<1>9. h = g
  <2> DEFINE X == {T \in SUBSET S : h[T] = g[T]}
  <2>1. ASSUME NEW T \in SUBSET S, \A U \in SUBSET T : U # T => U \in X
        PROVE  T \in X
    <3>1. CASE T = {}
      BY <1>3, <1>6, <3>1
    <3>2. CASE T # {}
      <4> DEFINE U == T \ {Pick(T)}
      <4>1. U \in SUBSET T /\ U # T
        BY <3>2, PickIs
      <4>2. U \in X
        BY <2>1, <4>1
      <4>3. h[U] = g[U]
        BY <4>2
      <4> QED  BY <1>4, <1>8, <3>2, <4>3
    <3> QED  BY <3>1, <3>2
  <2> HIDE DEF X
  <2>2. SUBSET S \subseteq X
    BY <2>1, SubsetInduction
  <2>3. DOMAIN h = SUBSET S /\ DOMAIN g = SUBSET S
    BY <1>3, <1>6
  <2>4. \A T \in SUBSET S : h[T] = g[T]
    BY <2>2 DEF X
  <2>5. g = [T \in SUBSET S |-> g[T]] /\ h = [T \in SUBSET S |-> h[T]]
    BY <1>3, <1>6
  <2> QED  BY <2>4, <2>5
<1>10. AnyFirst(g, S, f)
  <2>1. \A x, y \in S, v \in Nat : f[<<x, f[<<y, v>>]>>] = f[<<y, f[<<x, v>>]>>]
    <3> TAKE x, y \in S, v \in Nat
    <3>1. c[x] + v \in Nat /\ c[y] + v \in Nat /\ c[x] \in Nat /\ c[y] \in Nat
      OBVIOUS
    <3>2. /\ f[<<x, v>>] = c[x] + v /\ f[<<y, v>>] = c[y] + v
          /\ f[<<x, c[y] + v>>] = c[x] + (c[y] + v)
          /\ f[<<y, c[x] + v>>] = c[y] + (c[x] + v)
      BY <1>1, <3>1
    <3> QED  BY <3>1, <3>2
  <2>2. Commutes(f, S, Nat)
    BY <2>1 DEF Commutes
  <2>3. 0 \in Nat
    OBVIOUS
  <2> QED  BY ONLY <1>1, <1>2, <2>2, <2>3, IsFiniteSet(S), AnyOrder
<1>11. Summed(g, c, S)
  <2>1. \A T \in SUBSET S, x \in S : x \in T => g[T] = c[x] + g[T \ {x}]
    <3> TAKE T \in SUBSET S, x \in S
    <3>1. g[T \ {x}] \in Nat
      BY <1>3
    <3> QED  BY <1>1, <1>10, <3>1 DEF AnyFirst
  <2> QED  BY <1>3, <2>1 DEF Summed
<1> QED  BY <1>7, <1>9, <1>11

\* The sums over two sets are one function where the sets overlap.
LEMMA SumsAgree ==
  ASSUME NEW S, IsFiniteSet(S), NEW c, NEW d, NEW R \in SUBSET S,
         \A x \in R : c[x] = d[x],
         NEW g, Summed(g, c, S), NEW h, Summed(h, d, R)
  PROVE  \A T \in SUBSET R : g[T] = h[T]
<1> DEFINE X == {T \in SUBSET R : g[T] = h[T]}
<1>1. /\ g[{}] = h[{}]
      /\ \A T \in SUBSET R, x \in R : x \in T => g[T] = c[x] + g[T \ {x}] /\ h[T] = d[x] + h[T \ {x}]
  BY DEF Summed
<1>2. ASSUME NEW T \in SUBSET R, \A U \in SUBSET T : U # T => U \in X
      PROVE  T \in X
  <2>1. CASE T = {}
    BY <1>1, <2>1
  <2>2. CASE T # {}
    <3>1. PICK x \in T : TRUE
      BY <2>2
    <3> DEFINE U == T \ {x}
    <3>2. U \in X
      BY <1>2
    <3>3. g[U] = h[U] /\ c[x] = d[x]
      BY <3>2
    <3> HIDE DEF X
    <3>4. g[T] = h[T]
      BY <1>1, <3>3
    <3> QED  BY <3>4 DEF X
  <2> QED  BY <2>1, <2>2
<1> HIDE DEF X
<1>3. IsFiniteSet(R)
  BY FS_Subset
<1>4. SUBSET R \subseteq X
  BY <1>2, <1>3, SubsetInduction
<1> QED  BY <1>4 DEF X

\* The sums over the subsets of a finite set.
LEMMA Sums ==
  ASSUME NEW S, IsFiniteSet(S), NEW c, \A x \in S : c[x] \in Nat
  PROVE  /\ SumFunctionOnSet(c, {}) = 0
         /\ \A T \in SUBSET S : SumFunctionOnSet(c, T) \in Nat
         /\ \A T \in SUBSET S, x \in S :
              x \in T => SumFunctionOnSet(c, T) = c[x] + SumFunctionOnSet(c, T \ {x})
<1>1. PICK g : Summed(g, c, S)
  BY SumOn
<1>2. \A T \in SUBSET S : SumFunctionOnSet(c, T) = g[T]
  <2> TAKE T \in SUBSET S
  <2>1. IsFiniteSet(T) /\ \A x \in T : c[x] \in Nat
    BY FS_Subset
  <2>2. PICK h : Summed(h, c, T) /\ SumFunctionOnSet(c, T) = h[T]
    BY <2>1, SumOn
  <2>3. \A U \in SUBSET T : g[U] = h[U]
    BY <1>1, <2>2, SumsAgree
  <2> QED  BY <2>2, <2>3
<1>3. /\ g[{}] = 0 /\ \A T \in SUBSET S : g[T] \in Nat
      /\ \A T \in SUBSET S, x \in S : x \in T => g[T] = c[x] + g[T \ {x}]
  BY <1>1 DEF Summed
<1> QED  BY <1>2, <1>3

\* Sums of two functions that agree on a set.
LEMMA SumSame ==
  ASSUME NEW S, IsFiniteSet(S), NEW c, \A x \in S : c[x] \in Nat,
         NEW d, \A x \in S : c[x] = d[x]
  PROVE  SumFunctionOnSet(c, S) = SumFunctionOnSet(d, S)
<1>1. \A x \in S : d[x] \in Nat
  OBVIOUS
<1>2. PICK g : Summed(g, c, S) /\ SumFunctionOnSet(c, S) = g[S]
  BY SumOn
<1>3. PICK h : Summed(h, d, S) /\ SumFunctionOnSet(d, S) = h[S]
  BY <1>1, SumOn
<1>4. \A T \in SUBSET S : g[T] = h[T]
  BY <1>2, <1>3, SumsAgree
<1> QED  BY <1>2, <1>3, <1>4

\* A sum over a part is at most the sum over the whole, and as much where the
\* rest adds nothing.
LEMMA SumPart ==
  ASSUME NEW S, IsFiniteSet(S), NEW c, \A x \in S : c[x] \in Nat, NEW R \in SUBSET S
  PROVE  /\ SumFunctionOnSet(c, R) <= SumFunctionOnSet(c, S)
         /\ (\A x \in S \ R : c[x] = 0) => SumFunctionOnSet(c, R) = SumFunctionOnSet(c, S)
<1> DEFINE s(T) == SumFunctionOnSet(c, T)
           Good(T) == /\ s(T \cap R) <= s(T)
                      /\ (\A x \in S \ R : c[x] = 0) => s(T \cap R) = s(T)
           X == {T \in SUBSET S : Good(T)}
<1>1. /\ s({}) = 0
      /\ \A T \in SUBSET S : s(T) \in Nat
      /\ \A T \in SUBSET S, x \in S : x \in T => s(T) = c[x] + s(T \ {x})
  BY Sums
<1> HIDE DEF s
<1>2. ASSUME NEW T \in SUBSET S, \A U \in SUBSET T : U # T => U \in X
      PROVE  T \in X
  <2>1. CASE T = {}
    <3>1. T \cap R = {}
      BY <2>1
    <3> QED  BY <1>1, <2>1, <3>1
  <2>2. CASE T # {}
    <3>1. PICK x \in T : TRUE
      BY <2>2
    <3> DEFINE U == T \ {x}
    <3>2. U \in X
      BY <1>2
    <3>3. s(T) = c[x] + s(U) /\ s(U) \in Nat /\ c[x] \in Nat /\ x \in S
      BY <1>1
    <3>4. Good(U)
      BY <3>2
    <3>5. CASE x \in R
      <4> DEFINE P == T \cap R
      <4>1. P \in SUBSET S /\ x \in P /\ P \ {x} = U \cap R
        BY <3>5
      <4>2. s(P) = c[x] + s(P \ {x}) /\ s(P \ {x}) \in Nat
        BY <1>1, <3>3, <4>1
      <4>3. s(P) = c[x] + s(U \cap R) /\ s(U \cap R) \in Nat
        BY <4>1, <4>2
      <4> HIDE DEF U
      <4>4. s(P) <= s(T) /\ ((\A y \in S \ R : c[y] = 0) => s(P) = s(T))
        <5> HIDE DEF P
        <5> QED  BY <3>3, <3>4, <4>3
      <4> QED  BY <4>4
    <3>6. CASE x \notin R
      <4>1. T \cap R = U \cap R
        BY <3>6
      <4>2. s(U \cap R) \in Nat
        BY <1>1
      <4>3. (\A y \in S \ R : c[y] = 0) => c[x] = 0
        BY <3>3, <3>6
      <4> HIDE DEF U
      <4>4. s(U \cap R) <= s(T) /\ ((\A y \in S \ R : c[y] = 0) => s(U \cap R) = s(T))
        BY <3>3, <3>4, <4>2, <4>3
      <4> QED  BY <4>1, <4>4
    <3> QED  BY <3>5, <3>6
  <2> QED  BY <2>1, <2>2
<1> HIDE DEF X
<1>3. SUBSET S \subseteq X
  BY <1>2, SubsetInduction
<1>4. Good(S) /\ S \cap R = R
  BY <1>3 DEF X
<1> QED  BY <1>4 DEF s

\* Counting the same under other names.
LEMMA SumRenamed ==
  ASSUME NEW S, IsFiniteSet(S), NEW c, \A x \in S : c[x] \in Nat,
         NEW R, IsFiniteSet(R), NEW d, \A y \in R : d[y] \in Nat,
         NEW m \in [S -> R], \A x, y \in S : m[x] = m[y] => x = y,
         \A x \in S : c[x] = d[m[x]]
  PROVE  SumFunctionOnSet(c, S) = SumFunctionOnSet(d, {m[x] : x \in S})
<1> DEFINE s(T) == SumFunctionOnSet(c, T)
           r(T) == SumFunctionOnSet(d, T)
           To(T) == {m[x] : x \in T}
           X == {T \in SUBSET S : s(T) = r(To(T))}
<1>1. /\ s({}) = 0 /\ r({}) = 0
      /\ \A T \in SUBSET S, x \in S : x \in T => s(T) = c[x] + s(T \ {x})
      /\ \A T \in SUBSET R, x \in R : x \in T => r(T) = d[x] + r(T \ {x})
  BY Sums
<1> HIDE DEF s, r
<1>2. ASSUME NEW T \in SUBSET S, \A U \in SUBSET T : U # T => U \in X
      PROVE  T \in X
  <2>1. CASE T = {}
    <3>1. To(T) = {}
      BY <2>1
    <3> QED  BY <1>1, <2>1, <3>1
  <2>2. CASE T # {}
    <3>1. PICK x \in T : TRUE
      BY <2>2
    <3> DEFINE U == T \ {x}
               P == To(T)
               y == m[x]
    <3>2. U \in X
      BY <1>2
    <3>3. P \in SUBSET R /\ y \in R /\ y \in P /\ x \in S
      OBVIOUS
    <3>4. P \ {y} = To(U)
      OBVIOUS
    <3>5. s(U) = r(P \ {y})
      BY <3>2, <3>4
    <3>6. c[x] = d[y]
      OBVIOUS
    <3> HIDE DEF P, y
    <3>7. s(T) = r(P)
      BY <1>1, <3>3, <3>5, <3>6
    <3> QED  BY <3>7 DEF P
  <2> QED  BY <2>1, <2>2
<1> HIDE DEF X
<1>3. SUBSET S \subseteq X
  BY <1>2, SubsetInduction
<1> QED  BY <1>3 DEF X, s, r

-----------------------------------------------------------------------------
(* Arithmetic of a ring of n.                                              *)

\* Two numbers less than n apart with the same remainder are the same.
LEMMA SameRemainder ==
  ASSUME NEW n \in Nat \ {0}, NEW a \in Int, NEW b \in Int,
         a % n = b % n, a - b < n, b - a < n
  PROVE  a = b
<1>1. a = n * (a \div n) + (a % n) /\ b = n * (b \div n) + (b % n)
      /\ a \div n \in Int /\ b \div n \in Int
  OBVIOUS
<1> DEFINE d == a \div n - b \div n
<1>2. d \in Int /\ a - b = n * d
  BY <1>1
<1>3. d = 0
  <2>1. n * d < n /\ -n < n * d
    BY <1>2
  <2>2. \A e \in Int : n * e < n /\ -n < n * e => e = 0
    OBVIOUS
  <2> QED BY <1>2, <2>1, <2>2
<1> QED BY <1>2, <1>3

\* The latest number up to l with remainder k.
LEMMA LatestOn ==
  ASSUME NEW n \in Nat \ {0}, NEW l \in Int, NEW k \in 0..n - 1
  PROVE  /\ l - ((l - k) % n) \in Int
         /\ (l - ((l - k) % n)) % n = k
         /\ l - ((l - k) % n) <= l
         /\ l - ((l - k) % n) > l - n
<1> DEFINE r == (l - k) % n  q == (l - k) \div n
<1>1. r \in 0..n - 1 /\ q \in Int /\ l - k = n * q + r
  OBVIOUS
<1>2. l - r = n * q + k
  BY <1>1
<1>3. (n * q + k) % n = k
  <2>1. \A p \in Int, j \in 0..n - 1 : (n * p + j) % n = j
    OBVIOUS
  <2> QED BY <2>1, <1>1
<1> QED BY <1>1, <1>2, <1>3

LEMMA SlotsInRange ==
  ASSUME NEW w \in Nat \ {0}, NEW a \in Nat, NEW b \in Nat, a <= b
  PROVE  a \div w \in 0..(b \div w)
OBVIOUS

LEMMA SlotOK ==
  ASSUME IInv PROVE Slot \in Slots /\ last \in Nat /\ Slot \in Nat
<1>1. clock - booted \in Nat /\ clock - booted <= Horizon
  BY DutyOK DEF IInv, TypeOK, Behind
<1>2. Slot \in Slots
  BY <1>1, SlotsInRange, DutyOK DEF Slot, Slots
<1> QED BY <1>2 DEF IInv, TypeOK, Slots

(* Expiring up to s leaves every bucket with what was recorded in the slot *)
(* it stands for now.                                                      *)
LEMMA ExpireExact ==
  ASSUME IInv, NEW s \in Slots, s >= last, NEW k \in Ring
  PROVE  LET t == s - ((s - k) % Buckets)
         IN  Expire(s)[k] = IF t < 0 THEN 0 ELSE credit[t]
<1> DEFINE t == s - ((s - k) % Buckets)
           u == last - ((last - k) % Buckets)
<1>0. Buckets \in Nat \ {0} /\ s \in Int /\ last \in Int /\ k \in 0..Buckets - 1
      /\ last \in Nat /\ s \in Nat
  BY DutyOK DEF IInv, TypeOK, Slots, Ring
<1>1. t \in Int /\ t % Buckets = k /\ t <= s /\ t > s - Buckets
  BY <1>0, LatestOn
<1>2. u \in Int /\ u % Buckets = k /\ u <= last /\ u > last - Buckets
  BY <1>0, LatestOn
<1>3. window[k] = IF u < 0 THEN 0 ELSE credit[u]
  BY DEF IInv, WindowExact, SlotOf
<1>4. t > last => (IF t < 0 THEN 0 ELSE credit[t]) = 0
  <2>1. SUFFICES ASSUME t > last PROVE credit[t] = 0
    BY <1>0, <1>1
  <2>2. t \in Slots
    <3> HIDE DEF t
    <3>1. t \in Int /\ 0 <= t /\ t <= s
      BY <2>1, <1>0, <1>1
    <3>2. Horizon \div BucketS \in Int
      BY DutyOK
    <3> DEFINE top == Horizon \div BucketS
    <3>3. s <= top /\ top \in Int
      BY <3>2 DEF Slots
    <3> HIDE DEF top
    <3>4. t \in 0..top
      BY <3>1, <3>3, <1>0
    <3> QED BY <3>4 DEF top, Slots
  <2> QED BY <2>1, <2>2 DEF IInv, Behind
<1>5. NoAirtime[k] = 0
  BY DEF NoAirtime
<1>6. CASE s = last
  <2>1. t = u /\ Expire(s) = window
    BY <1>6 DEF Expire
  <2> QED BY <2>1, <1>3
<1>7. CASE s # last /\ s - last >= Buckets
  <2>1. Expire(s) = NoAirtime
    BY <1>7 DEF Expire
  <2>2. t > last
    BY <1>7, <1>0, <1>1
  <2> QED BY <2>1, <2>2, <1>4, <1>5
<1>8. CASE s # last /\ ~(s - last >= Buckets)
  <2>1. Expire(s)[k] = IF k \in Passed(s) THEN 0 ELSE window[k]
    BY <1>8, <1>0 DEF Expire
  <2>2. CASE t > last
    <3>1. t - last \in 1..(s - last) /\ last + (t - last) = t
      BY <2>2, <1>0, <1>1
    <3>2. k \in Passed(s)
      BY <3>1, <1>1 DEF Passed
    <3> QED BY <2>1, <2>2, <3>2, <1>4
  <2>3. CASE ~(t > last)
    <3>1. t = u
      <4>1. t - u < Buckets /\ u - t < Buckets
        BY <2>3, <1>0, <1>1, <1>2
      <4> HIDE DEF t, u
      <4> QED BY <4>1, <1>0, <1>1, <1>2, SameRemainder
    <3>2. k \notin Passed(s)
      <4>1. SUFFICES ASSUME NEW j \in 1..(s - last), (last + j) % Buckets = k
                     PROVE  FALSE
        BY DEF Passed
      <4>2. last + j \in Int /\ last + j > last /\ last + j <= s
        BY <4>1, <1>0
      <4>3. t - (last + j) < Buckets /\ (last + j) - t < Buckets
        BY <4>2, <2>3, <1>0, <1>1
      <4> HIDE DEF t, u
      <4>4. t = last + j
        BY <4>1, <4>2, <4>3, <1>0, <1>1, SameRemainder
      <4> QED BY <4>2, <4>4, <2>3, <1>0, <1>1
    <3> QED BY <2>1, <3>1, <3>2, <1>3
  <2> QED BY <2>2, <2>3
<1> QED BY <1>0, <1>6, <1>7, <1>8

LEMMA ExpireType ==
  ASSUME IInv, NEW s PROVE Expire(s) \in [Ring -> 0..Largest]
<1>1. NoAirtime \in [Ring -> 0..Largest]
  BY DutyOK DEF NoAirtime
<1>2. window \in [Ring -> 0..Largest] /\ 0 \in 0..Largest
  BY DutyOK DEF IInv, TypeOK
<1> QED BY <1>1, <1>2 DEF Expire

-----------------------------------------------------------------------------
LEMMA InitIInv == Init => IInv
<1> SUFFICES ASSUME Init PROVE IInv
  OBVIOUS
<1>1. Slot = 0 /\ 0 \in Slots
  <2>1. Slot = 0 \div BucketS
    BY DEF Init, Slot
  <2>2. \A w \in Nat \ {0} : 0 \div w = 0
    OBVIOUS
  <2> QED BY <2>1, <2>2, DutyOK, SlotsInRange DEF Slots
<1>2. TypeOK
  BY <1>1, DutyOK DEF Init, TypeOK, NoAirtime, NoCredit
<1>3. Behind /\ Holding
  BY <1>1, DutyOK DEF Init, Behind, Holding, NoCredit
<1>4. WindowExact
  <2> SUFFICES ASSUME NEW k \in Ring, ~(SlotOf(k) < 0)
               PROVE  credit[SlotOf(k)] = 0
    BY DEF WindowExact, Init, NoAirtime
  <2>1. SlotOf(k) \in Int /\ SlotOf(k) <= 0
    BY LatestOn, DutyOK DEF SlotOf, Init, Ring
  <2> QED BY <2>1, <1>1 DEF Init, NoCredit
<1> QED BY <1>2, <1>3, <1>4 DEF IInv

(* A step that leaves the ring, the header and the credit alone.           *)
LEMMA KeepIInv ==
  ASSUME IInv, UNCHANGED <<open, window, last, credit, booted, boots>>,
         clock' \in 0..Horizon, clock' >= clock,
         stage' \in {"idle", "waiting", "sending"}, us' \in Airtimes \cup {0},
         began' \in 0..Horizon, Holding',
         aired' \cup unrecorded' \subseteq [at: 0..Horizon, us: Airtimes]
  PROVE  IInv'
<1>1. TypeOK'
  BY DEF IInv, TypeOK
<1>2. Slot' >= Slot
  <2>1. clock - booted \in Int /\ clock' - booted \in Int
        /\ clock - booted <= clock' - booted
    <3>1. clock \in Int /\ booted \in Int /\ clock' \in Int /\ booted' = booted
      BY DutyOK DEF IInv, TypeOK
    <3>2. \A x, y, z \in Int : y >= x => x - z \in Int /\ y - z \in Int /\ x - z <= y - z
      OBVIOUS
    <3> QED BY <3>1, <3>2
  <2>2. \A w \in Nat \ {0} : \A a, b \in Int : a <= b => a \div w <= b \div w
    OBVIOUS
  <2> QED BY <2>1, <2>2, DutyOK DEF Slot
<1>3. Slot \in Int /\ Slot' \in Int
  BY DutyOK DEF Slot, IInv, TypeOK
<1>4. Behind'
  BY <1>2, <1>3, DutyOK DEF IInv, Behind, TypeOK, Slots
<1>5. WindowExact'
  BY DEF IInv, WindowExact, SlotOf
<1> QED BY <1>1, <1>4, <1>5 DEF IInv

(* A read of the ring moves the header and keeps the rest.                 *)
LEMMA ReadIInv ==
  ASSUME IInv, Read, UNCHANGED <<clock, booted, boots, open, began, history>>,
         stage' \in {"idle", "waiting", "sending"}, us' \in Airtimes \cup {0}, Holding'
  PROVE  IInv'
<1>1. Slot \in Slots /\ last \in Nat /\ Slot \in Nat /\ Slot' = Slot /\ Slot >= last
  BY SlotOK DEF IInv, Behind, Slot
<1>2. TypeOK'
  BY <1>1, ExpireType DEF IInv, TypeOK, Read, history
<1>3. Behind'
  BY <1>1 DEF IInv, Behind, Read, Slots, history
<1>4. WindowExact'
  BY <1>1, ExpireExact DEF WindowExact, SlotOf, Read, history
<1> QED BY <1>2, <1>3, <1>4 DEF IInv

LEMMA RecordIInv == ASSUME IInv, Record PROVE IInv'
<1> DEFINE s == Slot  w == Expire(s)  b == s % Buckets
<1>1. s \in Slots /\ last \in Nat /\ s \in Nat /\ Slot' = s /\ s >= last
  BY SlotOK DEF IInv, Behind, Slot, Record
<1>2. w \in [Ring -> 0..Largest]
  BY ExpireType
<1>3. b \in Ring /\ Buckets \in Nat \ {0}
  BY <1>1, DutyOK DEF Ring
<1>4. us \in Nat
  BY DutyOK DEF IInv, TypeOK
<1>5. /\ window' = [w EXCEPT ![b] = Capped(w[b], us)] /\ last' = s
      /\ credit' = [credit EXCEPT ![s] = Capped(credit[s], us)]
      /\ stage' = "idle" /\ us' = 0 /\ began' = 0
      /\ UNCHANGED <<clock, booted, boots, open, aired, unrecorded>>
  BY DEF Record
<1> HIDE DEF s, w, b
<1>6. \A x \in 0..Largest : Capped(x, us) \in 0..Largest
  BY <1>4, DutyOK DEF Capped, Smaller
<1>7. TypeOK'
  BY <1>1, <1>2, <1>3, <1>5, <1>6, DutyOK DEF IInv, TypeOK
<1>8. Behind' /\ Holding'
  BY <1>1, <1>5 DEF IInv, Behind, Holding, TypeOK, Slots
<1>9. ASSUME NEW k \in Ring
      PROVE  window'[k] = IF SlotOf(k)' < 0 THEN 0 ELSE credit'[SlotOf(k)']
  <2> DEFINE t == s - ((s - k) % Buckets)
  <2>1. SlotOf(k)' = t
    BY <1>5 DEF SlotOf
  <2>2. w[k] = IF t < 0 THEN 0 ELSE credit[t]
    BY <1>1, ExpireExact DEF w
  <2>3. t \in Int /\ t % Buckets = k /\ t <= s /\ t > s - Buckets
    <3>1. s \in Int /\ k \in 0..Buckets - 1 /\ Buckets \in Nat \ {0}
      BY <1>1, <1>3, <1>9 DEF Ring
    <3> QED BY <3>1, LatestOn
  <2>4. t >= 0 => t \in Slots
    <3> HIDE DEF t
    <3> DEFINE top == Horizon \div BucketS
    <3>1. top \in Int /\ s <= top
      BY <1>1, DutyOK DEF Slots
    <3> HIDE DEF top
    <3>2. t >= 0 => t \in 0..top
      BY <3>1, <2>3, <1>1
    <3> QED BY <3>2 DEF top, Slots
  <2> HIDE DEF t
  <2>5. CASE k = b
    <3>1. t = s
      <4>1. t % Buckets = s % Buckets /\ t - s < Buckets /\ s - t < Buckets
        BY <2>3, <2>5, <1>1, <1>3 DEF b
      <4>2. t \in Int /\ s \in Int /\ Buckets \in Nat \ {0}
        BY <2>3, <1>1, <1>3
      <4> QED BY <4>1, <4>2, SameRemainder
    <3>2. w[k] = credit[s]
      BY <3>1, <2>2, <1>1
    <3> QED BY <3>1, <3>2, <2>1, <2>5, <1>1, <1>2, <1>3, <1>5 DEF IInv, TypeOK
  <2>6. CASE k # b
    <3>1. t # s
      BY <2>3, <2>6 DEF b
    <3> QED BY <3>1, <2>1, <2>2, <2>4, <2>6, <1>1, <1>2, <1>3, <1>5 DEF IInv, TypeOK
  <2> QED BY <2>5, <2>6
<1> QED BY <1>7, <1>8, <1>9 DEF IInv, WindowExact

(* A new ring, of a later boot or of a restart.                            *)
LEMMA EmptiedIInv ==
  ASSUME IInv, Emptied, clock' \in 0..Horizon, booted' \in 0..Horizon, booted' <= clock',
         boots' \in 0..MaxBoots, open' \in BOOLEAN
  PROVE  IInv'
<1>1. TypeOK'
  <2>1. 0 \in Slots /\ 0 \in 0..Horizon /\ 0 \in 0..Largest
    <3>1. Horizon \div BucketS \in Nat
      BY DutyOK
    <3> QED  BY <3>1, DutyOK DEF Slots
  <2> QED  BY <2>1 DEF Emptied, TypeOK, NoAirtime, NoCredit
<1>2. Behind' /\ Holding'
  <2> DEFINE a == clock' - booted'
  <2>1. a \in Nat /\ BucketS \in Nat \ {0}
    <3>1. \A x, y \in 0..Horizon : y <= x => x - y \in Nat
      BY DutyOK
    <3> QED  BY <3>1, DutyOK
  <2>2. Slot' = a \div BucketS
    BY DEF Slot
  <2> HIDE DEF a
  <2>3. Slot' \in Nat
    BY <2>1, <2>2
  <2> QED  BY <2>3 DEF Emptied, Behind, Holding, NoCredit
<1>3. WindowExact'
  <2> SUFFICES ASSUME NEW k \in Ring, ~(SlotOf(k)' < 0)
               PROVE  credit'[SlotOf(k)'] = 0
    BY DEF WindowExact, Emptied, NoAirtime
  <2>1. SlotOf(k)' \in Int /\ SlotOf(k)' <= 0
    BY LatestOn, DutyOK DEF SlotOf, Emptied, Ring
  <2>2. SlotOf(k)' = 0 /\ 0 \in Slots
    <3>1. Horizon \div BucketS \in Nat
      BY DutyOK
    <3> QED  BY <2>1, <3>1 DEF Slots
  <2> QED BY <2>2 DEF Emptied, NoCredit
<1> QED BY <1>1, <1>2, <1>3 DEF IInv

LEMMA NextIInv == IInv /\ [Next]_vars => IInv'
<1> SUFFICES ASSUME IInv, [Next]_vars PROVE IInv'
  OBVIOUS
<1> USE DutyOK
<1>1. CASE UNCHANGED vars
  BY <1>1, KeepIInv DEF vars, IInv, TypeOK, Holding
<1>2. ASSUME NEW a \in Airtimes, Ask(a) PROVE IInv'
  <2>1. /\ stage' \in {"idle", "waiting", "sending"} /\ us' \in Airtimes \cup {0}
        /\ Holding' /\ UNCHANGED <<clock, booted, boots, open, began, history>>
    BY <1>2 DEF Ask, IInv, TypeOK, Holding
  <2>2. CASE open
    BY <2>1, <2>2, <1>2, KeepIInv DEF Ask, ring, history, IInv, TypeOK
  <2>3. CASE ~open
    BY <2>1, <2>3, <1>2, ReadIInv DEF Ask
  <2> QED BY <2>2, <2>3
<1>3. CASE GiveUp
  BY <1>3, KeepIInv DEF GiveUp, ring, history, IInv, TypeOK, Holding
<1>4. CASE Transmit
  BY <1>4, KeepIInv DEF Transmit, ring, IInv, TypeOK, Holding
<1>5. CASE Record
  BY <1>5, RecordIInv
<1>6. CASE Report
  BY <1>6, ReadIInv DEF Report, call, history, IInv, TypeOK, Holding
<1>7. CASE Tick
  BY <1>7, KeepIInv DEF Tick, ring, call, history, IInv, TypeOK, Holding
<1>8. CASE LeftOnAir
  <2>1. Current \in [at: 0..Horizon, us: Airtimes]
    BY <1>8 DEF LeftOnAir, Current, IInv, TypeOK, Holding
  <2>2. UNCHANGED <<open, window, last, credit, booted, boots, clock>> /\ stage' = "idle" /\ us' = 0 /\ began' = 0
    BY <1>8 DEF LeftOnAir, ring
  <2>3. aired' \cup unrecorded' = aired \cup unrecorded \/ aired' \cup unrecorded' = aired \cup unrecorded \cup {Current}
    BY <1>8 DEF LeftOnAir, Current
  <2> QED  BY <2>1, <2>2, <2>3, KeepIInv DEF IInv, TypeOK, Holding
<1>9. CASE Restart
  BY <1>9, EmptiedIInv DEF Restart, IInv, TypeOK, Behind
<1>10. CASE Reboot
  BY <1>10, EmptiedIInv DEF Reboot, IInv, TypeOK
<1> QED BY <1>1, <1>2, <1>3, <1>4, <1>5, <1>6, <1>7, <1>8, <1>9, <1>10 DEF Next

LEMMA Inductive == Spec => []IInv
BY InitIInv, NextIInv, PTL DEF Spec

-----------------------------------------------------------------------------
(* The ring, the header and the call in progress keep their types: the     *)
(* header is always a slot that has been reached, the buckets never leave  *)
(* their range.                                                            *)
THEOREM DutyTypeCorrect == Spec => []TypeOK
<1>1. IInv => TypeOK
  BY DEF IInv
<1> QED BY Inductive, <1>1, PTL

(* DutyCycle's ring is exact: for any number of buckets of any width, each *)
(* bucket holds what was recorded in the one slot it stands for, so airtime *)
(* is neither forgotten before its bucket expires nor counted after.       *)
THEOREM RingIsExact == Spec => []WindowExact
<1>1. IInv => WindowExact
  BY DEF IInv
<1> QED BY Inductive, <1>1, PTL

-----------------------------------------------------------------------------
(* What BudgetKept rests on: frames go out one after the other, so all but *)
(* the one on the air are over by now; what is over has been credited in   *)
(* the slot it ended in or later; and the frame the node holds fits beside *)
(* what the ring held when it asked.                                       *)

\* The transmissions that are over.
Over == {e \in aired : stage = "sending" => e # Current}

\* In the order they were made, since this boot.
OneByOne ==
  /\ IsFiniteSet(aired) /\ IsFiniteSet(unrecorded)
  /\ \A e \in aired : e.at >= booted
  /\ \A e \in Over : e.at + e.us <= IF stage = "sending" THEN began ELSE clock
  /\ stage = "sending" => Current \in aired /\ began <= clock

Airtime == [e \in aired |-> e.us]

\* The slot of an instant, the first one before the boot.
SlotAt(from) == IF from <= booted THEN 0 ELSE (from - booted) \div BucketS

\* What is credited from a slot on.
CreditFrom(s) == SumFunctionOnSet(credit, {t \in Slots : t >= s})

Credited ==
  ~open => \A from \in 0..Horizon :
    SumFunctionOnSet(Airtime, {e \in Over : e.at + e.us > from}) <= CreditFrom(SlotAt(from))

Fits == ~open /\ stage # "idle" => CreditFrom(last - Buckets + 1) + us <= Budget

\* What was or will be recorded is within the budget.
Within ==
  ~open => \A from \in 0..Horizon : OnAir(aired, from, (Buckets - 1) * BucketS) <= Budget

BInv == IInv /\ OneByOne /\ Credited /\ Fits /\ Within

LEMMA SlotsFinite == IsFiniteSet(Slots) /\ Horizon \div BucketS \in Nat
<1>1. Horizon \div BucketS \in Nat
  BY DutyOK
<1> QED  BY <1>1, FS_Interval DEF Slots

LEMMA CreditTypes ==
  ASSUME TypeOK, NEW s \in Int
  PROVE  CreditFrom(s) \in Nat
<1>1. \A t \in Slots : credit[t] \in Nat
  BY DutyOK DEF TypeOK
<1> DEFINE T == {t \in Slots : t >= s}
<1>2. T \in SUBSET Slots
  OBVIOUS
<1> HIDE DEF T
<1>3. SumFunctionOnSet(credit, T) \in Nat
  BY ONLY <1>1, <1>2, SlotsFinite, Sums
<1> QED  BY <1>3 DEF CreditFrom, T

\* From a later slot on there is no more.
LEMMA CreditLess ==
  ASSUME TypeOK, NEW s \in Int, NEW u \in Int, u <= s
  PROVE  CreditFrom(s) <= CreditFrom(u)
<1>1. \A t \in Slots : credit[t] \in Nat
  BY DutyOK DEF TypeOK
<1> DEFINE T == {t \in Slots : t >= s}
           U == {t \in Slots : t >= u}
<1>2. T \in SUBSET U /\ IsFiniteSet(U) /\ \A t \in U : credit[t] \in Nat
  <2>1. \A t \in Slots : t \in Int
    BY DEF Slots
  <2>2. T \in SUBSET U
    BY <2>1
  <2>3. IsFiniteSet(U)
    BY SlotsFinite, FS_Subset
  <2> QED  BY <1>1, <2>2, <2>3
<1> HIDE DEF T, U
<1>3. SumFunctionOnSet(credit, T) <= SumFunctionOnSet(credit, U)
  BY ONLY <1>2, SumPart
<1> QED  BY <1>3 DEF CreditFrom, T, U

\* The slots of two instants.
LEMMA SlotAtIs ==
  ASSUME TypeOK, Behind, NEW from \in 0..Horizon
  PROVE  /\ SlotAt(from) \in Int
         /\ clock > from => SlotAt(from) <= Slot
         /\ clock < from + (Buckets - 1) * BucketS => Slot <= SlotAt(from) + (Buckets - 1)
<1> DEFINE a == clock - booted
           f == from - booted
           n == Buckets - 1
<1>1. a \in Int /\ f \in Int /\ n \in Nat /\ a >= 0 /\ BucketS \in Nat \ {0} /\ booted \in Int
      /\ from \in Int /\ clock \in Int
  BY DutyOK DEF TypeOK, Behind
<1>2. \A w \in Nat \ {0} : \A x, y \in Int : x <= y => x \div w <= y \div w
  OBVIOUS
<1>3. \A w \in Nat \ {0} : \A x \in Int, m \in Nat : x < m * w => x \div w <= m
  OBVIOUS
<1>4. \A w \in Nat \ {0} : \A x, y \in Int, m \in Nat : x < y + m * w => x \div w <= (y \div w) + m
  <2> TAKE w \in Nat \ {0}
  <2> TAKE x, y \in Int, m \in Nat
  <2> HAVE x < y + m * w
  <2> DEFINE z == m * w
  <2>1. z \in Int /\ (y + z) \div w = (y \div w) + m
    OBVIOUS
  <2>2. x <= y + z /\ y + z \in Int
    BY <2>1
  <2> HIDE DEF z
  <2>3. x \div w <= (y + z) \div w
    BY <1>2, <2>2
  <2> QED  BY <2>1, <2>3
<1>5. a \div BucketS \in Int /\ f \div BucketS \in Int /\ a \div BucketS >= 0
  BY <1>1
<1>6. Slot = a \div BucketS
  BY DEF Slot
<1> DEFINE z == n * BucketS
<1>7. z \in Int
  BY <1>1
<1>8. CASE from <= booted
  <2>1. SlotAt(from) = 0
    BY <1>8 DEF SlotAt
  <2>2. clock < from + z => a < z
    <3> HIDE DEF z
    <3> QED  BY <1>1, <1>7, <1>8
  <2>3. a < z => a \div BucketS <= n
    BY <1>1, <1>3
  <2> HIDE DEF a, z, n
  <2> QED  BY <1>1, <1>5, <1>6, <2>1, <2>2, <2>3 DEF n, z
<1>9. CASE ~(from <= booted)
  <2>1. SlotAt(from) = f \div BucketS
    BY <1>9 DEF SlotAt
  <2>2. clock > from => f <= a
    BY <1>1
  <2>3. f <= a => f \div BucketS <= a \div BucketS
    BY <1>1, <1>2
  <2>4. clock < from + z => a < f + z
    <3> HIDE DEF z
    <3> QED  BY <1>1, <1>7
  <2>5. a < f + z => a \div BucketS <= (f \div BucketS) + n
    BY <1>1, <1>4
  <2> HIDE DEF a, f, z, n
  <2> QED  BY <1>5, <1>6, <2>1, <2>2, <2>3, <2>4, <2>5 DEF n, z
<1> QED  BY <1>8, <1>9

LEMMA AiredTypes ==
  ASSUME TypeOK
  PROVE  /\ \A e \in aired : e.at \in Nat /\ e.us \in Nat \ {0} /\ e.at + e.us \in Nat
         /\ \A e \in Over : e \in aired
<1>1. \A e \in aired : e.at \in Nat /\ e.us \in Nat \ {0}
  <2>1. \A e \in aired : e.at \in 0..Horizon /\ e.us \in Airtimes
    BY DEF TypeOK
  <2>2. 0..Horizon \subseteq Nat /\ Airtimes \subseteq Nat \ {0}
    BY DutyOK
  <2> QED  BY ONLY <2>1, <2>2
<1> QED  BY <1>1 DEF Over

\* Airtime of the transmissions of one boot, over any part of them.
LEMMA AirtimeIs ==
  ASSUME TypeOK, IsFiniteSet(aired)
  PROVE  /\ \A e \in aired : Airtime[e] \in Nat /\ Airtime[e] = e.us
         /\ \A T \in SUBSET aired : SumFunctionOnSet(Airtime, T) \in Nat
<1>1. \A e \in aired : Airtime[e] \in Nat /\ Airtime[e] = e.us
  BY DutyOK DEF TypeOK, Airtime
<1>2. \A T \in SUBSET aired : SumFunctionOnSet(Airtime, T) \in Nat
  BY ONLY <1>1, IsFiniteSet(aired), Sums
<1> QED  BY <1>1, <1>2

\* The ring, read at the present slot, adds up to what is credited in the slots
\* it still holds.
LEMMA RingSum ==
  ASSUME IInv
  PROVE  SumFunction(Expire(Slot)) = CreditFrom(Slot - Buckets + 1)
<1> DEFINE s == Slot
           w == Expire(s)
           At(k) == s - ((s - k) % Buckets)
           K == {k \in Ring : At(k) >= 0}
           m == [k \in K |-> At(k)]
           M == {m[k] : k \in K}
           T == {t \in Slots : t >= s - Buckets + 1}
<1>1. /\ s \in Slots /\ s \in Nat /\ last \in Nat /\ s >= last
      /\ Buckets \in Nat \ {0} /\ w \in [Ring -> 0..Largest] /\ Largest \in Nat
      /\ credit \in [Slots -> 0..Largest] /\ IsFiniteSet(Ring)
  <2>1. s \in Slots /\ s \in Nat /\ last \in Nat /\ s >= last
    BY SlotOK DEF IInv, Behind
  <2>2. IsFiniteSet(Ring)
    BY DutyOK, FS_Interval DEF Ring
  <2> QED  BY <2>1, <2>2, ExpireType, DutyOK DEF IInv, TypeOK
<1>2. \A k \in Ring : /\ At(k) \in Int /\ At(k) % Buckets = k /\ At(k) <= s /\ At(k) > s - Buckets
                      /\ w[k] = IF At(k) < 0 THEN 0 ELSE credit[At(k)]
  <2> TAKE k \in Ring
  <2>1. k \in 0..Buckets - 1 /\ s \in Int
    BY <1>1 DEF Ring
  <2>2. w[k] = IF At(k) < 0 THEN 0 ELSE credit[At(k)]
    BY <1>1, ExpireExact
  <2> QED  BY <1>1, <2>1, <2>2, LatestOn
<1>3. \A t \in Int : 0 <= t /\ t <= s => t \in Slots
  BY <1>1, SlotsFinite DEF Slots
<1> HIDE DEF s, w, At
<1>4. SumFunction(w) = SumFunctionOnSet(w, Ring)
  <2>1. DOMAIN w = Ring
    BY <1>1
  <2> QED  BY <2>1 DEF SumFunction
<1>5. SumFunctionOnSet(w, K) = SumFunctionOnSet(w, Ring)
  <2>1. K \in SUBSET Ring /\ \A k \in Ring \ K : w[k] = 0
    BY <1>2
  <2>2. \A k \in Ring : w[k] \in Nat
    BY <1>1
  <2> HIDE DEF K
  <2> QED  BY <1>1, <2>1, <2>2, SumPart
<1>6. SumFunctionOnSet(w, K) = SumFunctionOnSet(credit, M)
  <2>1. /\ IsFiniteSet(K) /\ m \in [K -> Slots]
        /\ \A x, y \in K : m[x] = m[y] => x = y
        /\ \A x \in K : w[x] = credit[m[x]]
    <3>1. IsFiniteSet(K)
      BY <1>1, FS_Subset
    <3>2. \A k \in K : At(k) \in Slots
      BY <1>2, <1>3
    <3>3. \A x, y \in K : At(x) = At(y) => x = y
      <4> TAKE x, y \in K
      <4>1. At(x) % Buckets = x /\ At(y) % Buckets = y
        BY <1>2
      <4> QED  BY <4>1
    <3>4. \A x \in K : w[x] = credit[At(x)]
      BY <1>2
    <3> QED  BY <3>1, <3>2, <3>3, <3>4
  <2>2. (\A k \in K : w[k] \in Nat) /\ \A t \in Slots : credit[t] \in Nat
    BY <1>1
  <2> HIDE DEF K, m
  <2> QED  BY <2>1, <2>2, SlotsFinite, SumRenamed
<1>7. M \in SUBSET T /\ \A t \in T \ M : credit[t] = 0
  <2>1. M \in SUBSET T
    <3> SUFFICES ASSUME NEW k \in K  PROVE At(k) \in T
      OBVIOUS
    <3>1. At(k) \in Slots /\ At(k) >= s - Buckets + 1
      BY <1>1, <1>2, <1>3
    <3> QED  BY <3>1
  <2>2. ASSUME NEW t \in T \ M  PROVE credit[t] = 0
    <3>1. t \in Slots /\ t \in Nat /\ t > s - Buckets
      BY <1>1 DEF Slots
    <3>2. t > s
      <4> SUFFICES ASSUME t <= s  PROVE FALSE
        BY <1>1, <3>1
      <4> DEFINE k == t % Buckets
      <4>1. k \in Ring /\ k \in 0..Buckets - 1
        BY <1>1, <3>1 DEF Ring
      <4>2. At(k) % Buckets = k /\ At(k) \in Int /\ At(k) <= s /\ At(k) > s - Buckets
        BY <1>2, <4>1
      <4> DEFINE a == At(k)
      <4>3. a % Buckets = t % Buckets /\ a - t < Buckets /\ t - a < Buckets /\ a \in Int /\ t \in Int
        BY <1>1, <3>1, <4>2
      <4> HIDE DEF a, k
      <4>4. a = t
        BY ONLY <1>1, <4>3, SameRemainder
      <4>5. k \in K /\ m[k] = t
        BY <3>1, <4>1, <4>4 DEF a
      <4> QED  BY <4>5
    <3>3. t > last
      BY <1>1, <3>1, <3>2
    <3> QED  BY <3>1, <3>3 DEF IInv, Behind
  <2> QED  BY <2>1, <2>2
<1>8. SumFunctionOnSet(credit, M) = SumFunctionOnSet(credit, T)
  <2>1. IsFiniteSet(T) /\ \A t \in T : credit[t] \in Nat
    BY <1>1, SlotsFinite, FS_Subset
  <2> HIDE DEF M, T
  <2> QED  BY <1>7, <2>1, SumPart
<1>9. CreditFrom(s - Buckets + 1) = SumFunctionOnSet(credit, T)
  BY DEF CreditFrom
<1> HIDE DEF K, M, T
<1> QED  BY <1>4, <1>5, <1>6, <1>8, <1>9 DEF s, w

\* A frame the budget allows fits beside what the ring holds.
LEMMA AllowedFits ==
  ASSUME IInv, ~open, NEW a \in Airtimes, Allows(a)
  PROVE  CreditFrom(Slot - Buckets + 1) + a <= Budget
<1> DEFINE c == CreditFrom(Slot - Buckets + 1)
<1>1. Slot - Buckets + 1 \in Int
  BY SlotOK, DutyOK
<1>2. c \in Nat
  BY <1>1, CreditTypes DEF IInv
<1>3. Used(Expire(Slot)) = Smaller(c, Largest)
  BY RingSum DEF Used
<1>4. Used(Expire(Slot)) + a <= Budget
  BY DEF Allows
<1>5. a \in Nat \ {0} /\ Budget \in Nat /\ Largest \in Nat /\ Budget <= Largest
  BY DutyOK, BudgetOK DEF BudgetOK
<1> HIDE DEF c
<1> QED  BY <1>2, <1>3, <1>4, <1>5 DEF Smaller, c

LEMMA NoSum == \A c : SumFunctionOnSet(c, {}) = 0
<1> TAKE c
<1>1. IsFiniteSet({}) /\ \A x \in {} : c[x] \in Nat
  BY FS_EmptySet
<1> QED  BY <1>1, Sums

-----------------------------------------------------------------------------
(* The steps.                                                              *)

\* One that puts nothing on the air and records nothing.
LEMMA Quiet ==
  ASSUME IInv, OneByOne, Credited, Within,
         UNCHANGED <<aired, unrecorded, credit, booted, open>>, clock' \in Nat, clock' >= clock,
         (stage = "sending") = (stage' = "sending"),
         stage = "sending" => us' = us /\ began' = began
  PROVE  OneByOne' /\ Credited' /\ Within'
<1>1. Over' = Over
  BY DEF Over, Current
<1>2. Within'
  BY DEF Within, OnAir
<1>3. Credited'
  BY <1>1 DEF Credited, CreditFrom, SlotAt, Airtime
<1>4. OneByOne'
  <2>1. \A e \in Over : e.at + e.us \in Int
    BY AiredTypes DEF IInv
  <2>2. clock \in Int /\ began \in Int
    BY DutyOK DEF IInv, TypeOK
  <2>3. \A e \in Over' : e.at + e.us <= IF stage' = "sending" THEN began' ELSE clock'
    BY <1>1, <2>1, <2>2 DEF OneByOne
  <2>4. stage' = "sending" => Current' \in aired' /\ began' <= clock'
    BY <2>2 DEF OneByOne, Current
  <2> QED  BY <2>3, <2>4 DEF OneByOne
<1> QED  BY <1>2, <1>3, <1>4

\* Recording n more in slot s.
LEMMA CreditMore ==
  ASSUME TypeOK, NEW s \in Slots, NEW n \in Nat, NEW u \in Int,
         credit' = [credit EXCEPT ![s] = credit[s] + n]
  PROVE  CreditFrom(u)' = IF u <= s THEN CreditFrom(u) + n ELSE CreditFrom(u)
<1> DEFINE T == {t \in Slots : t >= u}
           R == T \ {s}
           d == credit'
<1>1. /\ IsFiniteSet(T) /\ IsFiniteSet(R) /\ R \in SUBSET T /\ s \in Int
      /\ (s \in T <=> u <= s)
  <2>1. \A t \in Slots : t \in Int
    BY DEF Slots
  <2> QED  BY <2>1, SlotsFinite, FS_Subset
<1>2. /\ \A t \in T : credit[t] \in Nat
      /\ \A t \in T : d[t] \in Nat
      /\ \A t \in R : credit[t] = d[t]
      /\ d[s] = credit[s] + n
  BY DutyOK DEF TypeOK
<1>3. CreditFrom(u) = SumFunctionOnSet(credit, T) /\ CreditFrom(u)' = SumFunctionOnSet(d, T)
  BY DEF CreditFrom
<1>4. s \notin T => T = R
  OBVIOUS
<1> DEFINE a == SumFunctionOnSet(credit, T)
           b == SumFunctionOnSet(d, T)
           e == SumFunctionOnSet(credit, R)
           f == SumFunctionOnSet(d, R)
<1> HIDE DEF d
<1>5. e = f
  <2>1. \A t \in R : credit[t] \in Nat
    BY <1>2
  <2> HIDE DEF R, T
  <2> QED  BY <1>1, <1>2, <2>1, SumSame
<1>6. e \in Nat /\ (s \in T => a = credit[s] + e /\ b = d[s] + f)
  <2> DEFINE Of(c) == /\ \A Q \in SUBSET T : SumFunctionOnSet(c, Q) \in Nat
                      /\ \A Q \in SUBSET T, x \in T :
                           x \in Q => SumFunctionOnSet(c, Q) = c[x] + SumFunctionOnSet(c, Q \ {x})
  <2>1. Of(credit) /\ Of(d)
    <3> HIDE DEF T
    <3>1. Of(credit)
      BY <1>1, <1>2, Sums
    <3>2. Of(d)
      BY <1>1, <1>2, Sums
    <3> HIDE DEF Of
    <3> QED  BY <3>1, <3>2
  <2>2. T \in SUBSET T /\ R \in SUBSET T
    OBVIOUS
  <2>3. e \in Nat
    BY <2>1, <2>2
  <2>4. ASSUME s \in T  PROVE a = credit[s] + e /\ b = d[s] + f
    BY <2>1, <2>2, <2>4
  <2> QED  BY <2>3, <2>4
<1>7. a = CreditFrom(u) /\ b = CreditFrom(u)'
  BY <1>3
<1>8. CASE u <= s
  <2>1. a = credit[s] + e /\ b = (credit[s] + n) + e /\ credit[s] \in Nat
    BY <1>1, <1>2, <1>5, <1>6, <1>8
  <2> HIDE DEF a, b, e, f
  <2> QED  BY <1>6, <1>7, <1>8, <2>1
<1>9. CASE ~(u <= s)
  <2>1. a = e /\ b = f
    BY <1>1, <1>4, <1>9
  <2> QED  BY <1>5, <1>7, <1>9, <2>1
<1> QED  BY <1>8, <1>9

\* The frame being recorded is within the range of the slot it is recorded in.
LEMMA NotCapped ==
  ASSUME IInv, OneByOne, Fits, ~open, stage # "idle"
  PROVE  Capped(credit[Slot], us) = credit[Slot] + us
<1> DEFINE u == last - Buckets + 1
           T == {t \in Slots : t >= u}
<1>1. /\ Slot \in Slots /\ last \in Slots /\ Slot \in Nat /\ last \in Nat /\ last <= Slot /\ u \in Int
      /\ u <= last /\ us \in Nat /\ Budget \in Nat /\ Largest \in Nat /\ Budget <= Largest
  BY SlotOK, DutyOK, BudgetOK DEF IInv, TypeOK, Behind, Slots, BudgetOK
<1>2. \A t \in Slots : credit[t] \in Nat
  BY DutyOK DEF IInv, TypeOK
<1>3. credit[last] <= CreditFrom(u)
  <2>1. last \in T /\ T \in SUBSET Slots /\ T \ {last} \in SUBSET Slots
    BY <1>1
  <2> DEFINE s(Q) == SumFunctionOnSet(credit, Q)
  <2>2. /\ \A Q \in SUBSET Slots : s(Q) \in Nat
        /\ \A Q \in SUBSET Slots, x \in Slots : x \in Q => s(Q) = credit[x] + s(Q \ {x})
    BY <1>2, SlotsFinite, Sums
  <2>3. CreditFrom(u) = s(T)
    BY DEF CreditFrom
  <2> HIDE DEF s, T, u
  <2>4. s(T) = credit[last] + s(T \ {last}) /\ s(T \ {last}) \in Nat
    BY <1>1, <2>1, <2>2
  <2> QED  BY <1>1, <1>2, <2>3, <2>4
<1>4. credit[Slot] <= CreditFrom(u)
  <2>1. Slot # last => credit[Slot] = 0
    BY <1>1 DEF IInv, Behind
  <2>2. CreditFrom(u) \in Nat
    BY <1>1, CreditTypes DEF IInv
  <2> HIDE DEF u
  <2> QED  BY <1>1, <1>3, <2>1, <2>2
<1>5. CreditFrom(u) + us <= Budget
  BY DEF Fits
<1>6. CreditFrom(u) \in Nat /\ credit[Slot] \in Nat
  BY <1>1, <1>2, CreditTypes DEF IInv
<1> HIDE DEF u
<1>7. credit[Slot] + us <= Largest
  BY <1>1, <1>4, <1>5, <1>6
<1> QED  BY <1>1, <1>6, <1>7 DEF Capped, Smaller

LEMMA RecordBudget ==
  ASSUME IInv, OneByOne, Credited, Fits, Within, Record
  PROVE  OneByOne' /\ Credited' /\ Fits' /\ Within'
<1>1. /\ stage = "sending" /\ clock >= began + us /\ stage' = "idle"
      /\ credit' = [credit EXCEPT ![Slot] = Capped(credit[Slot], us)]
      /\ UNCHANGED <<clock, booted, boots, open, aired, unrecorded>>
  BY DEF Record
<1>2. /\ Slot \in Slots /\ Slot \in Nat /\ clock \in Nat /\ began \in Nat /\ us \in Nat /\ Current \in aired
      /\ IsFiniteSet(aired)
  BY <1>1, SlotOK, DutyOK DEF IInv, TypeOK, OneByOne
<1>3. Over' = aired
  BY <1>1 DEF Over
<1>4. Fits' /\ Within'
  BY <1>1 DEF Fits, Within, OnAir
<1>5. OneByOne'
  <2>1. ASSUME NEW e \in aired  PROVE e.at + e.us <= clock
    <3>1. CASE e = Current
      BY <1>1, <3>1 DEF Current
    <3>2. CASE e # Current
      <4>1. e \in Over /\ e.at + e.us <= began /\ e.at + e.us \in Nat
        BY <1>1, <3>2, AiredTypes DEF Over, OneByOne, IInv
      <4> QED  BY <1>1, <1>2, <4>1
    <3> QED  BY <3>1, <3>2
  <2> QED  BY <1>1, <1>3, <2>1 DEF OneByOne
<1>6. Credited'
  <2> SUFFICES ASSUME ~open, NEW from \in 0..Horizon, NEW u, u = SlotAt(from)
               PROVE  SumFunctionOnSet(Airtime, {e \in aired : e.at + e.us > from}) <= CreditFrom(u)'
    BY <1>1, <1>3 DEF Credited, Airtime, SlotAt, CreditFrom
  <2> DEFINE E == {e \in Over : e.at + e.us > from}
             F == {e \in aired : e.at + e.us > from}
             s(Q) == SumFunctionOnSet(Airtime, Q)
             n == us
  <2>1. credit' = [credit EXCEPT ![Slot] = credit[Slot] + n]
    BY <1>1, NotCapped
  <2>2. u \in Int /\ from \in Int /\ (clock > from => u <= Slot)
    BY SlotAtIs, DutyOK DEF IInv
  <2>3. CreditFrom(u)' = IF u <= Slot THEN CreditFrom(u) + n ELSE CreditFrom(u)
    <3>1. n \in Nat /\ TypeOK
      BY <1>2 DEF IInv
    <3> DEFINE z == Slot
    <3>2. z \in Slots /\ credit' = [credit EXCEPT ![z] = credit[z] + n]
      BY <1>2, <2>1
    <3> HIDE DEF z, n
    <3> QED  BY <2>2, <3>1, <3>2, CreditMore DEF z
  <2>4. s(E) <= CreditFrom(u) /\ CreditFrom(u) \in Nat
    BY <2>2, CreditTypes DEF Credited, IInv
  <2>5. /\ \A Q \in SUBSET aired : s(Q) \in Nat
        /\ \A Q \in SUBSET aired, x \in aired : x \in Q => s(Q) = Airtime[x] + s(Q \ {x})
    <3>1. \A e \in aired : Airtime[e] \in Nat
      BY <1>2, AirtimeIs DEF IInv
    <3> QED  BY <1>2, <3>1, Sums
  <2>6. E \in SUBSET aired /\ F \in SUBSET aired /\ F \ {Current} = E
    BY <1>1 DEF Over
  <2>7. Airtime[Current] = n /\ (Current \in F <=> began + n > from)
    BY <1>2 DEF Airtime, Current
  <2> HIDE DEF E, F, s
  <2>9. n \in Nat /\ s(E) \in Nat
    BY <1>2, <2>5, <2>6
  <2>10. CASE began + n > from
    <3>1. s(F) = n + s(E)
      BY <1>2, <2>5, <2>6, <2>7, <2>10
    <3>2. u <= Slot
      BY <1>1, <1>2, <2>2, <2>10
    <3> HIDE DEF n
    <3> QED  BY <2>3, <2>4, <2>9, <3>1, <3>2 DEF F, s
  <2>11. CASE ~(began + n > from)
    <3>1. F = E
      BY <2>6, <2>7, <2>11
    <3>2. CreditFrom(u) + n >= CreditFrom(u)
      BY <2>4, <2>9
    <3> HIDE DEF n
    <3>3. s(E) <= CreditFrom(u)'
      BY <2>3, <2>4, <2>9, <3>2
    <3> QED  BY <3>1, <3>3 DEF F, s
  <2> QED  BY <2>10, <2>11
<1> QED  BY <1>4, <1>5, <1>6

LEMMA TransmitBudget ==
  ASSUME IInv, OneByOne, Credited, Fits, Within, Transmit
  PROVE  OneByOne' /\ Credited' /\ Fits' /\ Within'
<1> DEFINE new == [at |-> clock, us |-> us]
<1>1. /\ stage = "waiting" /\ stage' = "sending" /\ began' = clock
      /\ aired' = aired \cup {new}
      /\ UNCHANGED <<clock, booted, boots, open, window, last, us, credit, unrecorded>>
  BY DEF Transmit, ring
<1>2. /\ clock \in Nat /\ booted \in Nat /\ us \in Nat \ {0} /\ Budget \in Nat
      /\ last \in Nat /\ Slot \in Nat /\ last <= Slot /\ booted <= clock /\ Buckets \in Nat \ {0}
  BY <1>1, SlotOK, DutyOK DEF IInv, TypeOK, Behind, Holding
<1>3. Over = aired /\ Current' = new
  BY <1>1 DEF Over, Current
<1>4. \A e \in aired : e.at + e.us <= clock /\ e.at \in Nat /\ e.us \in Nat \ {0} /\ e # new
  <2> TAKE e \in aired
  <2>1. e.at + e.us <= clock /\ e.at \in Nat /\ e.us \in Nat \ {0}
    BY <1>1, <1>3, AiredTypes DEF OneByOne, IInv
  <2>2. e.at # clock
    BY <1>2, <2>1
  <2> QED  BY <2>1, <2>2
<1>5. Over' = aired
  <2>1. Over' = {e \in aired \cup {new} : e # new}
    BY <1>1, <1>3 DEF Over
  <2> HIDE DEF new
  <2> QED  BY <1>4, <2>1
<1>6. OneByOne'
  <2>1. IsFiniteSet(aired')
    BY <1>1, FS_AddElement DEF OneByOne
  <2>2. \A e \in aired' : e.at >= booted'
    BY <1>1, <1>2 DEF OneByOne
  <2>3. \A e \in Over' : e.at + e.us <= began'
    BY <1>1, <1>4, <1>5
  <2>4. Current' \in aired' /\ began' <= clock'
    BY <1>1, <1>2, <1>3
  <2> QED  BY <1>1, <2>1, <2>2, <2>3, <2>4 DEF OneByOne
<1> DEFINE old == Airtime
           next == Airtime'
<1>7. /\ \A e \in aired : old[e] \in Nat /\ old[e] = next[e] /\ next[e] \in Nat
      /\ new \notin aired /\ next[new] = us /\ \A e \in aired' : next[e] \in Nat
  BY <1>1, <1>2, <1>4 DEF Airtime
<1>8. IsFiniteSet(aired) /\ IsFiniteSet(aired')
  BY <1>6 DEF OneByOne
<1> HIDE DEF new, old, next
<1>9. \A T \in SUBSET aired : SumFunctionOnSet(old, T) = SumFunctionOnSet(next, T)
  <2> TAKE T \in SUBSET aired
  <2>1. IsFiniteSet(T) /\ \A e \in T : old[e] \in Nat /\ old[e] = next[e]
    BY <1>7, <1>8, FS_Subset
  <2> QED  BY <2>1, SumSame
<1>10. Credited'
  <2> SUFFICES ASSUME ~open, NEW from \in 0..Horizon
               PROVE  SumFunctionOnSet(next, {e \in aired : e.at + e.us > from}) <= CreditFrom(SlotAt(from))
    BY <1>1, <1>5 DEF Credited, SlotAt, CreditFrom, next
  <2> DEFINE E == {e \in aired : e.at + e.us > from}
  <2>1. SumFunctionOnSet(old, E) <= CreditFrom(SlotAt(from))
    BY <1>3 DEF Credited, old
  <2>2. E \in SUBSET aired
    OBVIOUS
  <2> HIDE DEF E
  <2>3. SumFunctionOnSet(next, E) <= CreditFrom(SlotAt(from))
    BY <1>9, <2>1, <2>2
  <2> QED  BY <2>3 DEF E
<1>11. Fits'
  BY <1>1 DEF Fits, CreditFrom
<1>12. Within'
  <2> DEFINE span == (Buckets - 1) * BucketS
  <2>1. next = [e \in aired' |-> e.us]
    BY DEF next, Airtime
  <2>2. span \in Int
    BY DutyOK
  <2> SUFFICES ASSUME ~open, NEW from \in 0..Horizon
               PROVE  SumFunctionOnSet(next, {e \in aired' : e.at < from + span /\ e.at + e.us > from}) <= Budget
    BY <1>1, <2>1 DEF Within, OnAir
  <2> DEFINE I == {e \in aired : e.at < from + span /\ e.at + e.us > from}
             J == {e \in aired' : e.at < from + span /\ e.at + e.us > from}
             E == {e \in aired : e.at + e.us > from}
  <2>3. I \in SUBSET E /\ E \in SUBSET aired /\ I \in SUBSET aired /\ J \in SUBSET aired'
    OBVIOUS
  <2>4. SumFunctionOnSet(old, I) <= Budget
    BY DEF Within, OnAir, old, Airtime
  <2>5. new \in J => clock < from + span
    BY DEF new
  <2>6. J \ {new} = I
    BY <1>1, <1>7
  <2>7. SumFunctionOnSet(old, E) <= CreditFrom(SlotAt(from))
    BY <1>3 DEF Credited, old
  <2> HIDE DEF I, J, E, span
  <2>8. CASE new \notin J
    <3>1. J = I
      BY <2>6, <2>8
    <3>2. SumFunctionOnSet(next, J) <= Budget
      BY <1>9, <2>3, <2>4, <3>1
    <3> QED  BY <3>2 DEF J
  <2>9. CASE new \in J
    <3> DEFINE u == SlotAt(from)
               v == last - Buckets + 1
               a == SumFunctionOnSet(next, J)
               b == SumFunctionOnSet(next, I)
               c == SumFunctionOnSet(next, E)
    <3>1. new \in aired' /\ I \in SUBSET aired' /\ E \in SUBSET aired'
      BY <1>1, <2>3
    <3>2. a = us + b /\ b \in Nat
      <4>1. /\ \A Q \in SUBSET aired' : SumFunctionOnSet(next, Q) \in Nat
            /\ \A Q \in SUBSET aired', x \in aired' :
                 x \in Q => SumFunctionOnSet(next, Q) = next[x] + SumFunctionOnSet(next, Q \ {x})
        BY <1>7, <1>8, Sums
      <4>2. SumFunctionOnSet(next, J) = next[new] + SumFunctionOnSet(next, J \ {new})
        BY <2>3, <2>9, <3>1, <4>1
      <4>3. SumFunctionOnSet(next, I) \in Nat
        BY <3>1, <4>1
      <4> QED  BY <1>7, <2>6, <4>2, <4>3
    <3>3. b <= c /\ c \in Nat
      <4>1. IsFiniteSet(E) /\ \A e \in E : next[e] \in Nat
        BY <1>7, <1>8, <2>3, FS_Subset
      <4>2. E \in SUBSET E
        OBVIOUS
      <4>3. SumFunctionOnSet(next, I) <= SumFunctionOnSet(next, E)
        BY <2>3, <4>1, SumPart
      <4>4. SumFunctionOnSet(next, E) \in Nat
        BY <4>1, <4>2, Sums
      <4> QED  BY <4>3, <4>4
    <3>4. c <= CreditFrom(u)
      BY <1>9, <2>3, <2>7
    <3>5. u \in Int /\ v \in Int /\ v <= u
      <4>1. u \in Int /\ Slot <= u + (Buckets - 1)
        BY <2>5, <2>9, SlotAtIs DEF IInv, span
      <4> HIDE DEF u
      <4> QED  BY <1>2, <4>1
    <3>6. CreditFrom(u) <= CreditFrom(v) /\ CreditFrom(u) \in Nat /\ CreditFrom(v) \in Nat
      <4>1. TypeOK
        BY DEF IInv
      <4> HIDE DEF u, v
      <4> QED  BY <3>5, <4>1, CreditLess, CreditTypes
    <3>7. CreditFrom(v) + us <= Budget
      BY <1>1 DEF Fits
    <3> HIDE DEF a, b, c, u, v
    <3>8. a <= Budget
      BY <1>2, <3>2, <3>3, <3>4, <3>6, <3>7
    <3> QED  BY <3>8 DEF a, J
  <2> QED  BY <2>8, <2>9
<1> QED  BY <1>6, <1>10, <1>11, <1>12

\* Nothing is on the air when a boot begins.
LEMMA FreshBudget ==
  ASSUME TypeOK', aired' = {}, unrecorded' = {}, stage' = "idle"
  PROVE  OneByOne' /\ Credited' /\ Fits' /\ Within'
<1>1. Over' = {}
  BY DEF Over
<1>2. OneByOne' /\ Fits'
  BY <1>1, FS_EmptySet DEF OneByOne, Fits
<1>3. Within'
  BY NoSum, DutyOK DEF Within, OnAir
<1>4. Credited'
  <2> SUFFICES ASSUME NEW from \in 0..Horizon
               PROVE  (SumFunctionOnSet(Airtime, {e \in Over : e.at + e.us > from}) <= CreditFrom(SlotAt(from)))'
    BY DEF Credited
  <2>1. SumFunctionOnSet(Airtime, {e \in Over : e.at + e.us > from})' = 0
    BY <1>1, NoSum
  <2>2. \A t \in Slots : credit'[t] \in Nat
    BY DutyOK DEF TypeOK
  <2> DEFINE T == {t \in Slots : t >= SlotAt(from)'}
             d == credit'
  <2>3. T \in SUBSET Slots
    OBVIOUS
  <2>4. SumFunctionOnSet(d, T) \in Nat
    <3> HIDE DEF T, d
    <3>1. \A t \in Slots : d[t] \in Nat
      BY <2>2 DEF d
    <3> QED  BY <2>3, <3>1, SlotsFinite, Sums
  <2>5. CreditFrom(SlotAt(from))' = SumFunctionOnSet(d, T)
    BY DEF CreditFrom
  <2> HIDE DEF T, d
  <2> QED  BY <2>1, <2>4, <2>5
<1> QED  BY <1>2, <1>3, <1>4

\* A transmission an exception leaves takes its airtime with it.
LEMMA LeftBudget ==
  ASSUME IInv, OneByOne, Credited, Within, LeftOnAir
  PROVE  OneByOne' /\ Credited' /\ Fits' /\ Within'
<1> DEFINE old == Airtime
           next == Airtime'
<1>1. /\ stage = "sending" /\ stage' = "idle" /\ aired' = aired \ {Current}
      /\ unrecorded' = unrecorded \cup {Current}
      /\ UNCHANGED <<clock, booted, boots, open, window, last, credit>>
  BY DEF LeftOnAir, Current, ring
<1>2. Over' = Over /\ Over = aired'
  BY <1>1 DEF Over
<1>3. IsFiniteSet(aired) /\ IsFiniteSet(aired') /\ IsFiniteSet(unrecorded')
  BY <1>1, FS_Subset, FS_AddElement DEF OneByOne
<1>4. OneByOne'
  <2>1. \A e \in Over : e.at + e.us <= clock
    <3> TAKE e \in Over
    <3>1. e.at + e.us <= began /\ began <= clock /\ e.at + e.us \in Nat
      BY <1>1, AiredTypes DEF OneByOne, IInv
    <3>2. began \in Int /\ clock \in Int
      BY DutyOK DEF IInv, TypeOK
    <3> QED  BY <3>1, <3>2
  <2> QED  BY <1>1, <1>2, <1>3, <2>1 DEF OneByOne
<1>5. /\ \A e \in aired : old[e] \in Nat
      /\ \A e \in aired' : e \in aired /\ old[e] = next[e]
  <2>1. \A e \in aired : old[e] \in Nat
    BY <1>3, AirtimeIs DEF IInv
  <2> QED  BY <1>1, <2>1 DEF Airtime
<1> HIDE DEF old, next
<1>6. \A T \in SUBSET aired' : SumFunctionOnSet(old, T) = SumFunctionOnSet(next, T)
  <2> TAKE T \in SUBSET aired'
  <2>1. IsFiniteSet(T) /\ \A e \in T : old[e] \in Nat /\ old[e] = next[e]
    BY <1>3, <1>5, FS_Subset
  <2> QED  BY <2>1, SumSame
<1>7. Credited'
  <2> SUFFICES ASSUME ~open, NEW from \in 0..Horizon
               PROVE  SumFunctionOnSet(next, {e \in Over : e.at + e.us > from}) <= CreditFrom(SlotAt(from))
    BY <1>1, <1>2 DEF Credited, SlotAt, CreditFrom, next
  <2> DEFINE E == {e \in Over : e.at + e.us > from}
  <2>1. SumFunctionOnSet(old, E) <= CreditFrom(SlotAt(from))
    BY DEF Credited, old
  <2>2. E \in SUBSET aired'
    BY <1>2
  <2> HIDE DEF E
  <2>3. SumFunctionOnSet(next, E) <= CreditFrom(SlotAt(from))
    BY <1>6, <2>1, <2>2
  <2> QED  BY <2>3 DEF E
<1>8. Within'
  <2> DEFINE span == (Buckets - 1) * BucketS
  <2>1. next = [e \in aired' |-> e.us]
    BY DEF next, Airtime
  <2> SUFFICES ASSUME ~open, NEW from \in 0..Horizon
               PROVE  SumFunctionOnSet(next, {e \in aired' : e.at < from + span /\ e.at + e.us > from}) <= Budget
    BY <1>1, <2>1 DEF Within, OnAir
  <2> DEFINE I == {e \in aired : e.at < from + span /\ e.at + e.us > from}
             J == {e \in aired' : e.at < from + span /\ e.at + e.us > from}
  <2>2. SumFunctionOnSet(old, I) <= Budget
    BY DEF Within, OnAir, old, Airtime
  <2>3. J \in SUBSET I /\ J \in SUBSET aired' /\ I \in SUBSET aired
    BY <1>1
  <2> HIDE DEF I, J, span
  <2>4. IsFiniteSet(I) /\ \A e \in I : old[e] \in Nat
    BY <1>3, <1>5, <2>3, FS_Subset
  <2>5. SumFunctionOnSet(old, J) <= SumFunctionOnSet(old, I)
    BY <2>3, <2>4, SumPart
  <2>6. SumFunctionOnSet(old, J) \in Nat /\ SumFunctionOnSet(old, I) \in Nat
    <3>1. I \in SUBSET I
      OBVIOUS
    <3> QED  BY <2>3, <2>4, <3>1, Sums
  <2>7. SumFunctionOnSet(old, J) <= Budget
    BY <2>2, <2>5, <2>6, DutyOK
  <2>8. SumFunctionOnSet(next, J) <= Budget
    BY <1>6, <2>3, <2>7
  <2> QED  BY <2>8 DEF J
<1>9. Fits'
  BY <1>1 DEF Fits
<1> QED  BY <1>4, <1>7, <1>8, <1>9

LEMMA NextBInv == BInv /\ [Next]_vars => BInv'
<1> SUFFICES ASSUME BInv, [Next]_vars  PROVE OneByOne' /\ Credited' /\ Fits' /\ Within'
  BY NextIInv DEF BInv
<1>1. IInv /\ OneByOne /\ Credited /\ Fits /\ Within /\ IInv'
  BY NextIInv DEF BInv
<1>2. clock \in Int /\ clock' \in Nat
  BY <1>1, DutyOK DEF IInv, TypeOK
<1>3. CASE UNCHANGED vars
  <2>1. Fits'
    BY <1>1, <1>3 DEF vars, Fits, CreditFrom
  <2> QED  BY <1>1, <1>2, <1>3, <2>1, Quiet DEF vars
<1>4. ASSUME NEW a \in Airtimes, Ask(a)  PROVE OneByOne' /\ Credited' /\ Fits' /\ Within'
  <2>1. /\ stage = "idle" /\ stage' \in {"idle", "waiting"}
        /\ UNCHANGED <<clock, booted, boots, open, began, credit, aired, unrecorded>>
    BY <1>4 DEF Ask, history
  <2>2. Fits'
    <3>1. CASE open \/ stage' = "idle"
      BY <2>1, <3>1 DEF Fits
    <3>2. CASE ~open /\ stage' # "idle"
      <4>1. Allows(a) /\ us' = a /\ last' = Slot
        BY <1>4, <2>1, <3>2 DEF Ask, Read
      <4>2. CreditFrom(Slot - Buckets + 1) + a <= Budget
        BY <1>1, <3>2, <4>1, AllowedFits
      <4> QED  BY <2>1, <4>1, <4>2 DEF Fits, CreditFrom
    <3> QED  BY <3>1, <3>2
  <2> QED  BY <1>1, <1>2, <2>1, <2>2, Quiet
<1>5. CASE GiveUp
  <2>1. Fits'
    BY <1>5 DEF GiveUp, Fits
  <2> QED  BY <1>1, <1>2, <1>5, <2>1, Quiet DEF GiveUp, history
<1>6. CASE Transmit
  BY <1>1, <1>6, TransmitBudget
<1>7. CASE Record
  BY <1>1, <1>7, RecordBudget
<1>8. CASE Report
  <2>1. Fits'
    BY <1>8 DEF Report, call, history, Fits
  <2> QED  BY <1>1, <1>2, <1>8, <2>1, Quiet DEF Report, call, history
<1>9. CASE Tick
  <2>1. Fits'
    BY <1>1, <1>9 DEF Tick, call, ring, history, Fits, CreditFrom
  <2> QED  BY <1>1, <1>2, <1>9, <2>1, Quiet DEF Tick, call, history
<1>10. CASE Restart \/ Reboot
  BY <1>1, <1>10, FreshBudget DEF Restart, Reboot, Emptied, IInv
<1>11. CASE LeftOnAir
  BY <1>1, <1>11, LeftBudget
<1> QED  BY <1>3, <1>4, <1>5, <1>6, <1>7, <1>8, <1>9, <1>10, <1>11 DEF Next

\* As FreshBudget, of the first state.
LEMMA InitBInv == Init => BInv
<1> SUFFICES ASSUME Init  PROVE OneByOne /\ Credited /\ Fits /\ Within
  BY InitIInv DEF BInv
<1>1. aired = {} /\ unrecorded = {} /\ stage = "idle" /\ Over = {} /\ TypeOK
  BY InitIInv DEF Init, Over, IInv
<1>2. OneByOne /\ Fits
  BY <1>1, FS_EmptySet DEF OneByOne, Fits
<1>3. Within
  BY <1>1, NoSum, DutyOK DEF Within, OnAir
<1>4. Credited
  <2> SUFFICES ASSUME NEW from \in 0..Horizon
               PROVE  SumFunctionOnSet(Airtime, {e \in Over : e.at + e.us > from}) <= CreditFrom(SlotAt(from))
    BY DEF Credited
  <2>1. SumFunctionOnSet(Airtime, {e \in Over : e.at + e.us > from}) = 0
    BY <1>1, NoSum
  <2>2. Behind
    BY InitIInv DEF IInv
  <2>3. CreditFrom(SlotAt(from)) \in Nat
    BY <1>1, <2>2, SlotAtIs, CreditTypes
  <2> QED  BY <2>1, <2>3
<1> QED  BY <1>2, <1>3, <1>4

\* The airtime of two sets of transmissions is at most that of each.
LEMMA SumBoth ==
  ASSUME NEW S, IsFiniteSet(S), NEW c, \A x \in S : c[x] \in Nat,
         NEW A \in SUBSET S, NEW B \in SUBSET S
  PROVE  SumFunctionOnSet(c, A \cup B) <= SumFunctionOnSet(c, A) + SumFunctionOnSet(c, B)
<1> DEFINE s(T) == SumFunctionOnSet(c, T)
           X == {T \in SUBSET S : s(A \cup T) <= s(A) + s(T)}
<1>1. /\ s({}) = 0
      /\ \A T \in SUBSET S : s(T) \in Nat
      /\ \A T \in SUBSET S, x \in S : x \in T => s(T) = c[x] + s(T \ {x})
  BY Sums
<1> HIDE DEF s
<1>2. ASSUME NEW T \in SUBSET S, \A U \in SUBSET T : U # T => U \in X
      PROVE  T \in X
  <2>1. CASE T = {}
    <3>1. A \cup T = A
      BY <2>1
    <3> QED  BY <1>1, <2>1, <3>1
  <2>2. CASE T # {}
    <3>1. PICK x \in T : TRUE
      BY <2>2
    <3> DEFINE U == T \ {x}
    <3>2. U \in X
      BY <1>2
    <3>3. U \in SUBSET S /\ A \cup U \in SUBSET S /\ A \cup T \in SUBSET S /\ x \in S
      OBVIOUS
    <3>4. s(T) = c[x] + s(U) /\ s(U) \in Nat /\ s(A) \in Nat /\ c[x] \in Nat /\ s(A \cup U) \in Nat
      BY <1>1, <3>3
    <3>5. s(A \cup U) <= s(A) + s(U)
      BY <3>2
    <3>6. s(A \cup T) = s(A \cup U) \/ s(A \cup T) = c[x] + s(A \cup U)
      <4>1. CASE x \in A
        <5>1. A \cup T = A \cup U
          BY <4>1
        <5> QED  BY <5>1
      <4>2. CASE x \notin A
        <5>1. (A \cup T) \ {x} = A \cup U /\ x \in A \cup T
          BY <4>2
        <5> QED  BY <1>1, <3>3, <5>1
      <4> QED  BY <4>1, <4>2
    <3> HIDE DEF U, X
    <3>7. s(A \cup T) <= s(A) + s(T)
      BY <3>4, <3>5, <3>6
    <3> QED  BY <3>7 DEF X
  <2> QED  BY <2>1, <2>2
<1> HIDE DEF X
<1>3. B \in X
  BY <1>2, SubsetInduction
<1> QED  BY <1>3 DEF X, s

LEMMA WithinIsEnough ==
  ASSUME TypeOK, OneByOne, Within
  PROVE  BudgetKept
<1> SUFFICES ASSUME ~open, NEW from \in 0..Horizon, NEW span, span = (Buckets - 1) * BucketS
             PROVE  OnAir(aired \cup unrecorded, from, span) <= Budget + OnAir(unrecorded, from, span)
  BY DEF BudgetKept
<1> DEFINE E == aired \cup unrecorded
           In(S) == {e \in S : e.at < from + span /\ e.at + e.us > from}
           c == [e \in E |-> e.us]
           s(T) == SumFunctionOnSet(c, T)
<1>1. IsFiniteSet(E) /\ \A e \in E : c[e] \in Nat
  <2>1. \A e \in E : e \in [at: 0..Horizon, us: Airtimes]
    BY DEF TypeOK
  <2>2. \A e \in E : e.us \in Airtimes
    BY <2>1
  <2> QED  BY <2>2, FS_Union, DutyOK DEF OneByOne
<1>2. ASSUME NEW S \in SUBSET E  PROVE OnAir(S, from, span) = s(In(S)) /\ s(In(S)) \in Nat
  <2> DEFINE d == [e \in S |-> e.us]
             T == In(S)
  <2>1. /\ IsFiniteSet(T) /\ \A e \in T : c[e] \in Nat /\ c[e] = d[e]
        /\ OnAir(S, from, span) = SumFunctionOnSet(d, T)
    BY <1>1, FS_Subset DEF OnAir
  <2>2. T \in SUBSET T
    OBVIOUS
  <2> HIDE DEF T, c, d
  <2> QED  BY <2>1, <2>2, SumSame, Sums DEF T
<1>3. aired \in SUBSET E /\ unrecorded \in SUBSET E /\ E \in SUBSET E
  OBVIOUS
<1>4. In(E) = In(aired) \cup In(unrecorded) /\ In(aired) \in SUBSET E /\ In(unrecorded) \in SUBSET E
  OBVIOUS
<1>5. OnAir(aired, from, span) <= Budget
  BY DEF Within
<1> HIDE DEF E, In, c, s
<1>6. s(In(E)) <= s(In(aired)) + s(In(unrecorded))
  BY <1>1, <1>4, SumBoth DEF s
<1>7. /\ OnAir(E, from, span) = s(In(E)) /\ s(In(E)) \in Nat
      /\ OnAir(aired, from, span) = s(In(aired)) /\ s(In(aired)) \in Nat
      /\ OnAir(unrecorded, from, span) = s(In(unrecorded)) /\ s(In(unrecorded)) \in Nat
  BY <1>2, <1>3
<1>8. OnAir(E, from, span) <= Budget + OnAir(unrecorded, from, span)
  BY <1>5, <1>6, <1>7, DutyOK
<1> QED  BY <1>8 DEF E

(* A node that refuses by its ring keeps to its budget but for what it did *)
(* not record: over any stretch of the window less one bucket, wherever it *)
(* starts, what it has had on the air since the ring was last emptied, by  *)
(* a reset or by release() and start(), is within DutyCycle.budget_us and  *)
(* the airtime of the transmissions ctrl-C or a failing driver left before *)
(* meshnode.py:313, for every ring, bucket width and set of airtimes,      *)
(* whenever it asks, waits, transmits and records, and however long the    *)
(* radio takes to return.                                                  *)
THEOREM BudgetIsKept == Spec => []BudgetKept
<1>1. BInv => BudgetKept
  BY WithinIsEnough DEF BInv, IInv
<1> QED  BY InitBInv, NextBInv, <1>1, PTL DEF Spec

-----------------------------------------------------------------------------
(* The bench's ring beside the crate's.                                    *)

\* Clearing the buckets after `last` one by one clears those Expire clears.
LEMMA SameExpire ==
  ASSUME TypeOK, NEW slot \in Slots
  PROVE  BenchExpire(slot) = Expire(slot)
<1>1. /\ last \in Nat /\ slot \in Nat /\ Buckets \in Nat \ {0} /\ Largest \in Nat
      /\ window \in [Ring -> 0..Largest]
  BY DutyOK DEF TypeOK, Slots
<1>2. CASE slot = last
  BY <1>2 DEF BenchExpire, Expire
<1>3. CASE slot # last /\ (slot < last \/ slot - last >= Buckets)
  <2>1. BenchExpire(slot) = [k \in Ring |-> 0]
    BY <1>3 DEF BenchExpire, FoldSeq, FoldFunction, FoldFunctionOnSet, MapThenFoldSet
  <2>2. Expire(slot) = NoAirtime
    BY <1>3 DEF Expire
  <2> QED  BY <2>1, <2>2 DEF NoAirtime
<1>4. CASE slot # last /\ ~(slot < last \/ slot - last >= Buckets)
  <2> DEFINE q == [k \in 1..(slot - last) |-> k]
             D == DOMAIN q
             V == [Ring -> 0..Largest]
             f == [p \in D \X V |-> [p[2] EXCEPT ![(last + q[p[1]]) % Buckets] = 0]]
             h == CHOOSE h : h = [s \in SUBSET D |->
                    IF s = {} THEN window
                    ELSE [h[s \ {Pick(s)}] EXCEPT ![(last + q[Pick(s)]) % Buckets] = 0]]
             Clear(T) == [k \in Ring |-> IF \E j \in T : (last + j) % Buckets = k THEN 0 ELSE window[k]]
  <2>1. BenchExpire(slot) = h[D]
    BY <1>4 DEF BenchExpire, FoldSeq, FoldFunction, FoldFunctionOnSet, MapThenFoldSet, Pick
  <2>2. /\ D = 1..(slot - last) /\ IsFiniteSet(D) /\ \A x \in D : q[x] = x /\ x \in Nat
    BY <1>1, FS_Interval
  <2>a. IsFiniteSet(D)
    BY <2>2
  <2> HIDE DEF q, D
  <2>b. \A x \in D : \A v \in V : f[<<x, v>>] = [v EXCEPT ![(last + q[x]) % Buckets] = 0]
    OBVIOUS
  <2>c. \A v \in V : \A b : [v EXCEPT ![b] = 0] \in V
    <3>1. 0 \in 0..Largest
      BY <1>1
    <3> QED  BY <3>1
  <2>3. /\ \A x \in D : \A v \in V : f[<<x, v>>] = [v EXCEPT ![(last + q[x]) % Buckets] = 0]
        /\ \A p \in D \X V : f[p] \in V
    <3>1. \A p \in D \X V : f[p] \in V
      <4> SUFFICES ASSUME NEW p \in D \X V  PROVE [p[2] EXCEPT ![(last + q[p[1]]) % Buckets] = 0] \in V
        OBVIOUS
      <4> HIDE DEF V
      <4>1. p[2] \in V
        OBVIOUS
      <4> QED  BY <2>c, <4>1
    <3> HIDE DEF f, V
    <3> QED  BY <2>b, <3>1
  <2>4. f \in [D \X V -> V] /\ window \in V
    BY <1>1, <2>3
  <2> HIDE DEF f, V
  <2>5. PICK g : Folded(g, D, V, window, f)
    BY <2>2, <2>4, Folding
  <2>6. /\ g \in [SUBSET D -> V] /\ g[{}] = window
        /\ \A T \in SUBSET D : T # {} => g[T] = f[<<Pick(T), g[T \ {Pick(T)}]>>]
    BY <2>5 DEF Folded
  <2>7. \A T \in SUBSET D : T # {} => g[T] = [g[T \ {Pick(T)}] EXCEPT ![(last + q[Pick(T)]) % Buckets] = 0]
    <3> TAKE T \in SUBSET D
    <3> HAVE T # {}
    <3>1. Pick(T) \in D /\ T \ {Pick(T)} \in SUBSET D
      BY PickIs
    <3>2. g[T \ {Pick(T)}] \in V
      BY <2>6, <3>1
    <3> QED  BY <2>3, <2>6, <3>1, <3>2
  <2>8. g = [s \in SUBSET D |->
               IF s = {} THEN window
               ELSE [g[s \ {Pick(s)}] EXCEPT ![(last + q[Pick(s)]) % Buckets] = 0]]
    <3> HIDE DEF h
    <3> QED  BY <2>6, <2>7
  <2>9. h = [s \in SUBSET D |->
               IF s = {} THEN window
               ELSE [h[s \ {Pick(s)}] EXCEPT ![(last + q[Pick(s)]) % Buckets] = 0]]
    BY <2>8
  <2> HIDE DEF h
  <2> DEFINE X == {T \in SUBSET D : h[T] = Clear(T)}
  <2>10. ASSUME NEW T \in SUBSET D, \A U \in SUBSET T : U # T => U \in X
         PROVE  T \in X
    <3>1. CASE T = {}
      <4>1. h[T] = window
        BY <2>9, <3>1
      <4>2. Clear(T) = window
        BY <1>1, <3>1
      <4> QED  BY <4>1, <4>2
    <3>2. CASE T # {}
      <4> DEFINE p == Pick(T)
                 U == T \ {p}
                 b == (last + p) % Buckets
      <4>1. p \in T /\ U \in SUBSET T /\ U # T /\ q[p] = p /\ p \in D /\ p \in Nat
        BY <2>2, <3>2, PickIs
      <4>2. h[T] = [h[U] EXCEPT ![b] = 0]
        BY <2>9, <3>2, <4>1
      <4>3. h[U] = Clear(U)
        BY <2>10, <4>1
      <4>4. b \in Ring
        BY <1>1, <4>1 DEF Ring
      <4>5. \A k \in Ring : (\E j \in T : (last + j) % Buckets = k)
                              <=> k = b \/ \E j \in U : (last + j) % Buckets = k
        BY <4>1
      <4> HIDE DEF U, b
      <4>6. [Clear(U) EXCEPT ![b] = 0] = Clear(T)
        BY <4>4, <4>5
      <4> QED  BY <4>2, <4>3, <4>6
    <3> QED  BY <3>1, <3>2
  <2> HIDE DEF X
  <2>11. SUBSET D \subseteq X
    BY <2>a, <2>10, SubsetInduction
  <2>12. h[D] = Clear(D)
    BY <2>11 DEF X
  <2>13. Expire(slot) = [k \in Ring |-> IF k \in Passed(slot) THEN 0 ELSE window[k]]
    BY <1>4 DEF Expire
  <2>14. \A k \in Ring : k \in Passed(slot) <=> \E j \in D : (last + j) % Buckets = k
    BY <2>2 DEF Passed
  <2> QED  BY <2>1, <2>12, <2>13, <2>14
<1> QED  BY <1>2, <1>3, <1>4

LEMMA SmallerSteps ==
  ASSUME NEW a \in Nat, NEW b \in Nat, NEW top \in Nat
  PROVE  /\ Smaller(a, b) = Smaller(b, a)
         /\ Smaller(Smaller(a, top) + b, top) = Smaller(b + a, top)
BY DEF Smaller

\* The sum over the buckets, by their number from 1.
LEMMA RingByNumber ==
  ASSUME NEW w \in [Ring -> Nat], NEW c, c = [k \in 1..Buckets |-> w[k - 1]]
  PROVE  SumFunctionOnSet(c, 1..Buckets) = SumFunction(w)
<1> DEFINE N == 1..Buckets
           m == [k \in N |-> k - 1]
<1>1. IsFiniteSet(N) /\ IsFiniteSet(Ring) /\ Buckets \in Nat
  BY DutyOK, FS_Interval DEF Ring
<1>2. /\ m \in [N -> Ring] /\ \A x, y \in N : m[x] = m[y] => x = y
      /\ \A x \in N : c[x] = w[m[x]] /\ c[x] \in Nat
      /\ \A y \in Ring : w[y] \in Nat
  BY <1>1 DEF Ring
<1>3. {m[x] : x \in N} = Ring
  <2>1. \A y \in Ring : y + 1 \in N /\ m[y + 1] = y
    BY <1>1 DEF Ring
  <2>2. \A x \in N : m[x] \in Ring
    BY <1>2
  <2> HIDE DEF m, N
  <2> QED  BY <2>1, <2>2
<1> HIDE DEF m, N
<1>4. SumFunctionOnSet(c, N) = SumFunctionOnSet(w, {m[x] : x \in N})
  <2>1. \A x \in N : c[x] \in Nat
    BY <1>2
  <2>2. \A x \in N : c[x] = w[m[x]]
    BY <1>2
  <2>3. IsFiniteSet(N) /\ IsFiniteSet(Ring)
    BY <1>1
  <2> QED  BY ONLY <1>2, <2>1, <2>2, <2>3, SumRenamed
<1>5. DOMAIN w = Ring
  OBVIOUS
<1> QED  BY <1>3, <1>4, <1>5 DEF SumFunction, N

\* What the buckets numbered so add up to.
Total(w, s) == SumFunctionOnSet([k \in 1..Buckets |-> w[k - 1]], s)

LEMMA TotalIs ==
  ASSUME NEW w \in [Ring -> Nat]
  PROVE  /\ Total(w, {}) = 0
         /\ \A T \in SUBSET (1..Buckets) : Total(w, T) \in Nat
         /\ \A T \in SUBSET (1..Buckets) :
              T # {} => /\ Total(w, T) = Total(w, T \ {Pick(T)}) + w[Pick(T) - 1]
                        /\ w[Pick(T) - 1] \in Nat
         /\ Total(w, 1..Buckets) = SumFunction(w)
<1> DEFINE D == 1..Buckets
           c == [k \in D |-> w[k - 1]]
<1>1. IsFiniteSet(D) /\ \A x \in D : x - 1 \in Ring
  BY DutyOK, FS_Interval DEF Ring
<1>2. \A x \in D : c[x] = w[x - 1] /\ c[x] \in Nat
  BY <1>1
<1>3. Total(w, D) = SumFunction(w)
  BY RingByNumber DEF Total
<1> DEFINE s(T) == SumFunctionOnSet(c, T)
<1>4. \A T : Total(w, T) = s(T)
  BY DEF Total
<1>a. \A x \in D : c[x] \in Nat
  BY <1>2
<1> HIDE DEF D, c
<1>5. /\ s({}) = 0
      /\ \A T \in SUBSET D : s(T) \in Nat
      /\ \A T \in SUBSET D, x \in D : x \in T => s(T) = c[x] + s(T \ {x})
  BY <1>1, <1>a, Sums
<1> HIDE DEF s
<1>6. ASSUME NEW T \in SUBSET D, T # {}
      PROVE  Total(w, T) = Total(w, T \ {Pick(T)}) + w[Pick(T) - 1] /\ w[Pick(T) - 1] \in Nat
  <2> DEFINE p == Pick(T)
             U == T \ {p}
  <2>1. p \in T /\ p \in D /\ U \in SUBSET D
    BY <1>6, PickIs
  <2> HIDE DEF p
  <2>2. s(T) = c[p] + s(U) /\ s(U) \in Nat /\ c[p] \in Nat /\ c[p] = w[p - 1]
    BY <1>2, <1>5, <2>1
  <2>3. s(T) = s(U) + w[p - 1] /\ w[p - 1] \in Nat
    BY <2>2
  <2> QED  BY <1>4, <2>3 DEF p
<1> QED  BY <1>3, <1>4, <1>5, <1>6 DEF D

\* A sum of the buckets taken from 1 up, whole or capped at every step.
Whole(h, w) ==
  LET q == [k \in 1..Buckets |-> k - 1]
  IN h = [s \in SUBSET (DOMAIN q) |->
           IF s = {} THEN 0 ELSE h[s \ {Pick(s)}] + w[q[Pick(s)]]]

ByStep(h, w) ==
  LET q == [k \in 1..Buckets |-> k - 1]
  IN h = [s \in SUBSET (DOMAIN q) |->
           IF s = {} THEN 0 ELSE Capped(h[s \ {Pick(s)}], w[q[Pick(s)]])]

LEMMA WholeIs ==
  ASSUME NEW w \in [Ring -> Nat]
  PROVE  /\ \E h : Whole(h, w)
         /\ \A h : Whole(h, w) => h[1..Buckets] = SumFunction(w)
<1> DEFINE D == 1..Buckets
           q == [k \in D |-> k - 1]
<1>1. IsFiniteSet(D) /\ DOMAIN q = D /\ \A T \in SUBSET D : T # {} => q[Pick(T)] = Pick(T) - 1
  <2>1. \A T \in SUBSET D : T # {} => Pick(T) \in D
    BY PickIs
  <2> QED  BY <2>1, DutyOK, FS_Interval
<1>2. \A h : Whole(h, w) <=> h = [s \in SUBSET D |->
         IF s = {} THEN 0 ELSE h[s \ {Pick(s)}] + w[q[Pick(s)]]]
  BY <1>1 DEF Whole
<1>3. /\ Total(w, {}) = 0
      /\ \A T \in SUBSET D : T # {} => Total(w, T) = Total(w, T \ {Pick(T)}) + w[Pick(T) - 1]
      /\ Total(w, D) = SumFunction(w)
  BY TotalIs
<1> HIDE DEF D, q
<1>4. \E h : Whole(h, w)
  <2> DEFINE g == [s \in SUBSET D |-> Total(w, s)]
  <2>1. \A s \in SUBSET D : g[s] = IF s = {} THEN 0 ELSE g[s \ {Pick(s)}] + w[q[Pick(s)]]
    BY <1>1, <1>3
  <2>2. g = [s \in SUBSET D |-> g[s]]
    OBVIOUS
  <2> HIDE DEF g
  <2>3. g = [s \in SUBSET D |-> IF s = {} THEN 0 ELSE g[s \ {Pick(s)}] + w[q[Pick(s)]]]
    BY <2>1, <2>2
  <2> QED  BY <1>2, <2>3
<1>5. ASSUME NEW h, Whole(h, w)  PROVE h[D] = SumFunction(w)
  <2> DEFINE X == {T \in SUBSET D : h[T] = Total(w, T)}
  <2>1. h = [s \in SUBSET D |-> IF s = {} THEN 0 ELSE h[s \ {Pick(s)}] + w[q[Pick(s)]]]
    BY <1>2, <1>5
  <2>2. \A T \in SUBSET D : h[T] = IF T = {} THEN 0 ELSE h[T \ {Pick(T)}] + w[Pick(T) - 1]
    BY <1>1, <2>1
  <2>3. ASSUME NEW T \in SUBSET D, \A U \in SUBSET T : U # T => U \in X
        PROVE  T \in X
    <3>1. CASE T = {}
      BY <1>3, <2>2, <3>1
    <3>2. CASE T # {}
      <4> DEFINE U == T \ {Pick(T)}
      <4>1. U \in SUBSET T /\ U # T
        BY <3>2, PickIs
      <4>2. h[U] = Total(w, U)
        BY <2>3, <4>1
      <4> QED  BY <1>3, <2>2, <3>2, <4>2
    <3> QED  BY <3>1, <3>2
  <2> HIDE DEF X
  <2>4. IsFiniteSet(D)
    BY <1>1
  <2>5. SUBSET D \subseteq X
    BY <2>3, <2>4, SubsetInduction
  <2> QED  BY <1>3, <2>5 DEF X
<1> QED  BY <1>4, <1>5 DEF D

LEMMA ByStepIs ==
  ASSUME NEW w \in [Ring -> Nat]
  PROVE  /\ \E h : ByStep(h, w)
         /\ \A h : ByStep(h, w) => h[1..Buckets] = Smaller(SumFunction(w), Largest)
<1> DEFINE D == 1..Buckets
           q == [k \in D |-> k - 1]
           To(s) == Smaller(Total(w, s), Largest)
<1>1. IsFiniteSet(D) /\ DOMAIN q = D /\ \A T \in SUBSET D : T # {} => q[Pick(T)] = Pick(T) - 1
  <2>1. \A T \in SUBSET D : T # {} => Pick(T) \in D
    BY PickIs
  <2> QED  BY <2>1, DutyOK, FS_Interval
<1>2. \A h : ByStep(h, w) <=> h = [s \in SUBSET D |->
         IF s = {} THEN 0 ELSE Capped(h[s \ {Pick(s)}], w[q[Pick(s)]])]
  BY <1>1 DEF ByStep
<1>3. /\ To({}) = 0
      /\ \A T \in SUBSET D : T # {} => To(T) = Capped(To(T \ {Pick(T)}), w[Pick(T) - 1])
      /\ To(D) = Smaller(SumFunction(w), Largest)
  <2>0. /\ Total(w, {}) = 0
        /\ \A T \in SUBSET D : Total(w, T) \in Nat
        /\ \A T \in SUBSET D : T # {} => /\ Total(w, T) = Total(w, T \ {Pick(T)}) + w[Pick(T) - 1]
                                         /\ w[Pick(T) - 1] \in Nat
        /\ Total(w, D) = SumFunction(w)
    BY TotalIs
  <2>1. To({}) = 0
    BY <2>0, DutyOK DEF Smaller
  <2>2. ASSUME NEW T \in SUBSET D, T # {}
        PROVE  To(T) = Capped(To(T \ {Pick(T)}), w[Pick(T) - 1])
    <3> DEFINE a == Total(w, T \ {Pick(T)})
               b == w[Pick(T) - 1]
    <3>1. a \in Nat /\ b \in Nat /\ Total(w, T) = a + b /\ Largest \in Nat
      BY <2>0, <2>2, DutyOK
    <3> HIDE DEF a, b
    <3>2. Smaller(a + b, Largest) = Capped(Smaller(a, Largest), b)
      BY <3>1 DEF Smaller, Capped
    <3> QED  BY <3>1, <3>2 DEF a, b
  <2> QED  BY <2>0, <2>1, <2>2
<1> HIDE DEF D, q, To
<1>4. \E h : ByStep(h, w)
  <2> DEFINE g == [s \in SUBSET D |-> To(s)]
  <2>1. \A s \in SUBSET D : g[s] = IF s = {} THEN 0 ELSE Capped(g[s \ {Pick(s)}], w[q[Pick(s)]])
    BY <1>1, <1>3
  <2>2. g = [s \in SUBSET D |-> g[s]]
    OBVIOUS
  <2> HIDE DEF g
  <2>3. g = [s \in SUBSET D |-> IF s = {} THEN 0 ELSE Capped(g[s \ {Pick(s)}], w[q[Pick(s)]])]
    BY <2>1, <2>2
  <2> QED  BY <1>2, <2>3
<1>5. ASSUME NEW h, ByStep(h, w)  PROVE h[D] = To(D)
  <2> DEFINE X == {T \in SUBSET D : h[T] = To(T)}
  <2>1. h = [s \in SUBSET D |-> IF s = {} THEN 0 ELSE Capped(h[s \ {Pick(s)}], w[q[Pick(s)]])]
    BY <1>2, <1>5
  <2>2. \A T \in SUBSET D : h[T] = IF T = {} THEN 0 ELSE Capped(h[T \ {Pick(T)}], w[Pick(T) - 1])
    BY <1>1, <2>1
  <2>3. ASSUME NEW T \in SUBSET D, \A U \in SUBSET T : U # T => U \in X
        PROVE  T \in X
    <3>1. CASE T = {}
      BY <1>3, <2>2, <3>1
    <3>2. CASE T # {}
      <4> DEFINE U == T \ {Pick(T)}
      <4>1. U \in SUBSET T /\ U # T
        BY <3>2, PickIs
      <4>2. h[U] = To(U)
        BY <2>3, <4>1
      <4> QED  BY <1>3, <2>2, <3>2, <4>2
    <3> QED  BY <3>1, <3>2
  <2> HIDE DEF X
  <2>4. IsFiniteSet(D)
    BY <1>1
  <2>5. SUBSET D \subseteq X
    BY <2>3, <2>4, SubsetInduction
  <2> QED  BY <2>5 DEF X
<1> QED  BY <1>3, <1>4, <1>5 DEF D

LEMMA SameUsed ==
  ASSUME TypeOK, NEW slot \in Slots
  PROVE  BenchUsed(slot) = Used(Expire(slot)) /\ UsedByStep(Expire(slot)) = Used(Expire(slot))
<1> DEFINE w == Expire(slot)
           q == [k \in 1..Buckets |-> k - 1]
           D == DOMAIN q
<1>1. w \in [Ring -> Nat] /\ BenchExpire(slot) = w
  <2>1. NoAirtime \in [Ring -> 0..Largest] /\ window \in [Ring -> 0..Largest] /\ 0 \in 0..Largest
    BY DutyOK DEF NoAirtime, TypeOK
  <2>2. w \in [Ring -> 0..Largest]
    BY <2>1 DEF Expire
  <2>3. w \in [Ring -> Nat]
    BY <2>2, DutyOK
  <2> QED  BY <2>3, SameExpire
<1>2. BenchUsed(slot) = Smaller(Largest, SumFunction(w))
  <2> DEFINE v == BenchExpire(slot)
             h == CHOOSE h : h = [s \in SUBSET D |-> IF s = {} THEN 0 ELSE h[s \ {Pick(s)}] + v[q[Pick(s)]]]
  <2>1. BenchUsed(slot) = Smaller(Largest, h[D])
    BY DEF BenchUsed, FoldSeq, FoldFunction, FoldFunctionOnSet, MapThenFoldSet, Pick
  <2>2. h = CHOOSE e : Whole(e, v)
    BY DEF Whole
  <2>3. v = w /\ D = 1..Buckets
    BY <1>1
  <2> HIDE DEF h, v, w, D
  <2>4. Whole(h, v)
    BY <1>1, <2>2, <2>3, WholeIs
  <2> QED  BY <1>1, <2>1, <2>3, <2>4, WholeIs
<1>3. UsedByStep(w) = Smaller(SumFunction(w), Largest)
  <2> DEFINE h == CHOOSE h : h = [s \in SUBSET D |-> IF s = {} THEN 0 ELSE Capped(h[s \ {Pick(s)}], w[q[Pick(s)]])]
  <2> HIDE DEF w
  <2>1. UsedByStep(w) = h[D]
    BY DEF UsedByStep, FoldSeq, FoldFunction, FoldFunctionOnSet, MapThenFoldSet, Pick
  <2>2. h = CHOOSE e : ByStep(e, w)
    BY DEF ByStep
  <2>3. D = 1..Buckets
    OBVIOUS
  <2> HIDE DEF h, D
  <2>4. ByStep(h, w)
    BY <1>1, <2>2, ByStepIs
  <2> QED  BY <1>1, <2>1, <2>3, <2>4, ByStepIs
<1>4. SumFunction(w) \in Nat
  <2> HIDE DEF w
  <2>1. 1..Buckets \in SUBSET (1..Buckets)
    OBVIOUS
  <2> QED  BY <1>1, <2>1, TotalIs
<1> HIDE DEF w
<1>5. Smaller(Largest, SumFunction(w)) = Smaller(SumFunction(w), Largest)
  BY <1>4, SmallerSteps, DutyOK
<1> QED  BY <1>2, <1>3, <1>5 DEF Used, w

(* The bench's airtime ring (hoststub.py _duty_expire, duty_record and     *)
(* duty_used) is the crate's: whatever the ring holds and however far the  *)
(* clock has moved, it clears the same buckets, records as much and        *)
(* reports as much, though it caps one sum and the crate every step.       *)
THEOREM BenchRingIsSame == Spec => []SameRing
<1>1. TypeOK => SameRing
  <2> SUFFICES ASSUME TypeOK, NEW slot \in Slots, NEW airtime \in Airtimes
               PROVE  /\ BenchExpire(slot) = Expire(slot)
                      /\ BenchRecord(slot, airtime) = [Expire(slot) EXCEPT ![slot % Buckets] = Capped(@, airtime)]
                      /\ BenchUsed(slot) = Used(Expire(slot)) /\ UsedByStep(Expire(slot)) = Used(Expire(slot))
    BY DEF SameRing
  <2>1. BenchExpire(slot) = Expire(slot)
    BY SameExpire
  <2>2. Smaller(Largest, Expire(slot)[slot % Buckets] + airtime) = Capped(Expire(slot)[slot % Buckets], airtime)
    <3> DEFINE w == Expire(slot)
    <3>1. w \in [Ring -> 0..Largest]
      <4>1. NoAirtime \in [Ring -> 0..Largest] /\ window \in [Ring -> 0..Largest] /\ 0 \in 0..Largest
        BY DutyOK DEF NoAirtime, TypeOK
      <4> QED  BY <4>1 DEF Expire
    <3>2. slot % Buckets \in Ring
      BY DutyOK DEF Slots, Ring
    <3>3. w[slot % Buckets] + airtime \in Nat /\ Largest \in Nat
      <4> HIDE DEF w
      <4> QED  BY <3>1, <3>2, DutyOK
    <3> QED  BY <3>3, SmallerSteps DEF Capped
  <2>3. BenchRecord(slot, airtime) = [Expire(slot) EXCEPT ![slot % Buckets] = Capped(@, airtime)]
    BY <2>1, <2>2 DEF BenchRecord
  <2> QED  BY <2>1, <2>3, SameUsed
<1> QED  BY DutyTypeCorrect, <1>1, PTL

=============================================================================
