---------------------------- MODULE TcpLink_proofs ----------------------------
(* The phone's session over TCP, for every alphabet, frame size, chunk,       *)
(* buffer and set of messages; and the bench's reader of the same stream.     *)
EXTENDS TcpLink, BenchStream, SequenceTheorems, WellFoundedInduction, TLAPS

(* Induction.  The library's theorems on it take a predicate; that every      *)
(* nonempty set of numbers has a least element does without one.              *)

LEMMA Least ==
  ASSUME NEW S \in SUBSET Nat, S # {}
  PROVE  \E n \in S : \A m \in S : n <= m
<1> DEFINE R == {ss \in Nat \X Nat : ss[1] < ss[2]}
<1>1. IsWellFoundedOn(R, Nat)
  BY NatLessThanWellFounded DEF OpToRel
<1>2. \A x, y \in Nat : <<y, x>> \in R <=> y < x
  OBVIOUS
<1> HIDE DEF R
<1>3. PICK n \in S : \A m \in S : ~(<<m, n>> \in R)
  BY <1>1, WFMin
<1>4. \A m \in S : ~(m < n)
  <2> TAKE m \in S
  <2>1. m \in Nat /\ n \in Nat /\ ~(<<m, n>> \in R)
    BY <1>3
  <2> QED  BY <1>2, <2>1
<1> QED  BY <1>4

LEMMA Induction ==
  ASSUME NEW S, 0 \in S, \A n \in Nat : n \in S => n + 1 \in S
  PROVE  Nat \subseteq S
<1> SUFFICES ASSUME Nat \ S # {}  PROVE FALSE
  OBVIOUS
<1>1. PICK n \in Nat \ S : \A m \in Nat \ S : n <= m
  BY Least
<1>2. n # 0 /\ n - 1 \in Nat /\ (n - 1) + 1 = n
  BY <1>1
<1> QED  BY <1>1, <1>2

\* Up to a bound.
LEMMA BoundedInduction ==
  ASSUME NEW N \in Nat, NEW S, 0 \in S,
         \A n \in 0..N - 1 : n \in S => n + 1 \in S
  PROVE  0..N \subseteq S
<1> DEFINE T == S \cup {n \in Nat : n > N}
<1>1. 0 \in T
  OBVIOUS
<1>2. \A n \in Nat : n \in T => n + 1 \in T
  OBVIOUS
<1> HIDE DEF T
<1>3. Nat \subseteq T
  BY <1>1, <1>2, Induction
<1> QED  BY <1>3 DEF T

\* A function is defined by its first value and by what leads from one to the next.
Recurs(g, N, V, a, f) ==
  /\ g \in [0..N -> V]
  /\ g[0] = a
  /\ \A n \in 1..N : g[n] = f[<<g[n - 1], n>>]

LEMMA Recursion ==
  ASSUME NEW N \in Nat, NEW V, NEW a \in V, NEW f \in [V \X (1..N) -> V]
  PROVE  \E g : Recurs(g, N, V, a, f)
<1> DEFINE Starts(k, g) == g[0] = a /\ \A n \in 1..k : g[n] = f[<<g[n - 1], n>>]
           S == {k \in 0..N : \E g \in [0..k -> V] : Starts(k, g)}
<1>1. 0 \in S
  <2> DEFINE h == [n \in 0..0 |-> a]
  <2>1. h \in [0..0 -> V] /\ Starts(0, h)
    OBVIOUS
  <2> HIDE DEF h
  <2>2. \E g \in [0..0 -> V] : Starts(0, g)
    BY <2>1
  <2> QED  BY <2>2
<1>2. \A k \in 0..N - 1 : k \in S => k + 1 \in S
  <2> SUFFICES ASSUME NEW k \in 0..N - 1, NEW g \in [0..k -> V], Starts(k, g)
               PROVE  \E h \in [0..k + 1 -> V] : Starts(k + 1, h)
    OBVIOUS
  <2> DEFINE h == [n \in 0..k + 1 |-> IF n = k + 1 THEN f[<<g[k], k + 1>>] ELSE g[n]]
  <2>1. h \in [0..k + 1 -> V]
    OBVIOUS
  <2>2. h[0] = a
    OBVIOUS
  <2>3. \A n \in 1..k + 1 : h[n] = f[<<h[n - 1], n>>]
    <3> TAKE n \in 1..k + 1
    <3>1. n - 1 \in 0..k /\ h[n - 1] = g[n - 1]
      OBVIOUS
    <3>2. CASE n = k + 1
      <4>1. n - 1 = k /\ h[n] = f[<<g[k], k + 1>>]
        BY <3>2
      <4> QED  BY <3>1, <3>2, <4>1
    <3>3. CASE n # k + 1
      <4>1. n \in 1..k /\ h[n] = g[n]
        BY <3>3
      <4> QED  BY <3>1, <4>1
    <3> QED  BY <3>2, <3>3
  <2> HIDE DEF h
  <2> QED  BY <2>1, <2>2, <2>3
<1>3. N \in S
  <2> HIDE DEF S
  <2>1. 0..N \subseteq S
    BY <1>1, <1>2, BoundedInduction
  <2> QED  BY <2>1
<1> QED  BY <1>3 DEF Recurs

-----------------------------------------------------------------------------
(* The reader.                                                             *)

LEMMA Wide ==
  /\ Base \in Nat /\ Base > 1 /\ MaxFrame \in Nat /\ MaxFrame >= 1 /\ MaxFrame <= Base * Base - 1
  /\ Base * Base \in Nat
  /\ \A c \in Byte : c * Base \in 0..Base * Base - 1
<1>1. Base \in Nat /\ Base > 1 /\ MaxFrame \in 1..Base * Base - 1
  BY FramingOK DEF FramingOK
<1>2. Base * Base \in Nat
  BY <1>1
<1>3. ASSUME NEW c \in Byte  PROVE c * Base \in 0..Base * Base - 1
  <2>1. c \in Nat /\ c + 1 <= Base
    BY <1>1 DEF Byte
  <2>2. (c + 1) * Base <= Base * Base /\ (c + 1) * Base = c * Base + Base /\ c * Base \in Nat
    BY <1>1, <2>1, SMT
  <2> QED  BY <1>1, <1>2, <2>2
<1> QED  BY <1>1, <1>2, <1>3

LEMMA FedIs ==
  ASSUME NEW s \in Reader, NEW c \in Byte
  PROVE  Fed(s, c) \in Reader
<1>1. s.stage \in Stages /\ s.want \in 0..Base * Base - 1 /\ s.body \in Seq(Byte)
  BY DEF Reader
<1>2. Fresh \in Reader
  BY Wide DEF Fresh, Reader, Stages
<1>3. CASE s.stage = "hunt"
  <2>1. Fed(s, c) = [Fresh EXCEPT !.stage = IF c = Start1 THEN "saw_start1" ELSE "hunt"]
    BY <1>3 DEF Fed
  <2> QED  BY <1>2, <2>1 DEF Reader, Stages
<1>4. CASE s.stage = "saw_start1"
  <2>1. Fed(s, c) = [s EXCEPT !.stage = IF c = Start2 THEN "want_msb"
                             ELSE IF c = Start1 THEN "saw_start1" ELSE "hunt"]
    BY <1>4 DEF Fed
  <2> QED  BY <2>1 DEF Reader, Stages
<1>5. CASE s.stage = "want_msb"
  <2>1. Fed(s, c) = [s EXCEPT !.stage = "want_lsb", !.want = c * Base]
    BY <1>5 DEF Fed
  <2>2. c * Base \in 0..Base * Base - 1
    BY Wide
  <2> QED  BY <2>1, <2>2 DEF Reader, Stages
<1>6. CASE s.stage = "want_lsb"
  <2>1. Fed(s, c) = IF Wanted(s, c) > MaxFrame THEN Fresh
         ELSE [Fresh EXCEPT !.stage = IF Wanted(s, c) = 0 THEN "hunt" ELSE "body",
                            !.want = Wanted(s, c)]
    BY <1>6 DEF Fed
  <2>2. CASE Wanted(s, c) > MaxFrame
    BY <1>2, <2>1, <2>2
  <2>3. CASE ~(Wanted(s, c) > MaxFrame)
    <3>1. Wanted(s, c) \in Nat
      BY <1>1 DEF Wanted, Byte
    <3>2. Wanted(s, c) \in 0..Base * Base - 1
      BY <2>3, <3>1, Wide
    <3> QED  BY <1>2, <2>1, <2>3, <3>2 DEF Reader, Stages
  <2> QED  BY <2>2, <2>3
<1>7. CASE s.stage = "body"
  <2>1. Fed(s, c) = [s EXCEPT !.body = Append(@, c),
                   !.stage = IF Len(s.body) + 1 >= s.want THEN "hunt" ELSE "body"]
    BY <1>7 DEF Fed
  <2>2. Append(s.body, c) \in Seq(Byte)
    BY <1>1
  <2> QED  BY <2>1, <2>2 DEF Reader, Stages
<1> QED  BY <1>1, <1>3, <1>4, <1>5, <1>6, <1>7 DEF Stages

\* The reader after each byte of a stream is what the recursion says it is.
LEMMA ThroughIs ==
  ASSUME NEW s \in Reader, NEW u \in Seq(Byte)
  PROVE  /\ Through(s, u) \in [0..Len(u) -> Reader]
         /\ Through(s, u)[0] = s
         /\ \A n \in 1..Len(u) : Through(s, u)[n] = Fed(Through(s, u)[n - 1], u[n])
<1> DEFINE V == Reader
           N == Len(u)
           f == [x \in V \X (1..N) |-> Fed(x[1], u[x[2]])]
<1>1. f \in [V \X (1..N) -> V]
  <2>1. \A x \in V \X (1..N) : x[1] \in Reader /\ u[x[2]] \in Byte
    BY ElementOfSeq
  <2> QED  BY <2>1, FedIs
<1>2. N \in Nat /\ s \in V
  OBVIOUS
<1> HIDE DEF V, N
<1>3. PICK g \in [0..N -> V] : g[0] = s /\ \A n \in 1..N : g[n] = f[<<g[n - 1], n>>]
  <2> HIDE DEF f
  <2>1. \E g : Recurs(g, N, V, s, f)
    BY <1>1, <1>2, Recursion
  <2> QED  BY <2>1 DEF Recurs
<1>4. g = [n \in 0..N |-> IF n = 0 THEN s ELSE Fed(g[n - 1], u[n])]
  <2>1. \A n \in 0..N : n # 0 => g[n] = Fed(g[n - 1], u[n])
    <3> TAKE n \in 0..N
    <3> HAVE n # 0
    <3>1. n \in 1..N /\ n - 1 \in 0..N
      BY <1>2
    <3>2. <<g[n - 1], n>> \in V \X (1..N)
      BY <1>3, <3>1
    <3> QED  BY <1>3, <3>1, <3>2
  <2> QED  BY <1>3, <2>1
<1> DEFINE h == Through(s, u)
           S == {n \in 0..N : h[n] \in V}
<1>5. h = [n \in 0..N |-> IF n = 0 THEN s ELSE Fed(h[n - 1], u[n])]
  BY <1>4 DEF Through, N
<1> HIDE DEF h
<1>6. h[0] = s /\ \A n \in 1..N : h[n] = Fed(h[n - 1], u[n])
  BY <1>2, <1>5
<1>7. \A n \in 0..N - 1 : n \in S => n + 1 \in S
  <2> TAKE n \in 0..N - 1
  <2>1. n + 1 \in 1..N /\ (n + 1) - 1 = n /\ u[n + 1] \in Byte
    BY <1>2, ElementOfSeq DEF N
  <2> QED  BY <1>6, <2>1, FedIs DEF V
<1>8. 0..N \subseteq S
  <2>1. 0 \in S
    BY <1>2, <1>6
  <2> HIDE DEF S
  <2> QED  BY <1>2, <1>7, <2>1, BoundedInduction
<1>9. h \in [0..N -> V]
  BY <1>5, <1>8
<1> QED  BY <1>6, <1>9 DEF h, V, N

\* The messages a reader finishes within the first n bytes, for every n; all of
\* them; and where the reader is after the last.
With(said, s, c) == IF Ends(s, c) THEN Append(said, Fed(s, c).body) ELSE said

SaidTo(s, u) ==
  LET said[n \in 0..Len(u)] ==
        IF n = 0 THEN <<>> ELSE With(said[n - 1], Through(s, u)[n - 1], u[n])
  IN said

Said(s, u) == SaidTo(s, u)[Len(u)]

After(s, u) == Through(s, u)[Len(u)]

LEMMA WithIs ==
  ASSUME NEW said \in Seq(Seq(Byte)), NEW s \in Reader, NEW c \in Byte
  PROVE  With(said, s, c) \in Seq(Seq(Byte))
<1>1. Fed(s, c).body \in Seq(Byte)
  BY FedIs DEF Reader
<1>2. Append(said, Fed(s, c).body) \in Seq(Seq(Byte))
  BY <1>1
<1> QED  BY <1>2 DEF With

LEMMA SaidIs ==
  ASSUME NEW s \in Reader, NEW u \in Seq(Byte)
  PROVE  /\ SaidTo(s, u) \in [0..Len(u) -> Seq(Seq(Byte))]
         /\ SaidTo(s, u)[0] = <<>>
         /\ \A n \in 1..Len(u) :
              SaidTo(s, u)[n] = With(SaidTo(s, u)[n - 1], Through(s, u)[n - 1], u[n])
<1> DEFINE V == Seq(Seq(Byte))
           N == Len(u)
           t == Through(s, u)
           f == [x \in V \X (1..N) |-> With(x[1], t[x[2] - 1], u[x[2]])]
<1>1. N \in Nat /\ <<>> \in V
  OBVIOUS
<1>2. \A n \in 1..N : t[n - 1] \in Reader /\ u[n] \in Byte
  BY ThroughIs, ElementOfSeq
<1> HIDE DEF N, t
<1>3. f \in [V \X (1..N) -> V]
  <2> SUFFICES ASSUME NEW x \in V \X (1..N)  PROVE With(x[1], t[x[2] - 1], u[x[2]]) \in V
    OBVIOUS
  <2>1. x[1] \in V /\ t[x[2] - 1] \in Reader /\ u[x[2]] \in Byte
    BY <1>2
  <2> QED  BY <2>1, WithIs
<1> HIDE DEF V
<1>4. PICK g \in [0..N -> V] : g[0] = <<>> /\ \A n \in 1..N : g[n] = f[<<g[n - 1], n>>]
  <2> HIDE DEF f
  <2>1. \E g : Recurs(g, N, V, <<>>, f)
    BY <1>1, <1>3, Recursion
  <2> QED  BY <2>1 DEF Recurs
<1>5. g = [n \in 0..N |-> IF n = 0 THEN <<>> ELSE With(g[n - 1], t[n - 1], u[n])]
  <2>1. \A n \in 0..N : n # 0 => g[n] = With(g[n - 1], t[n - 1], u[n])
    <3> TAKE n \in 0..N
    <3> HAVE n # 0
    <3>1. n \in 1..N /\ n - 1 \in 0..N
      BY <1>1
    <3>2. <<g[n - 1], n>> \in V \X (1..N)
      BY <1>4, <3>1
    <3> QED  BY <1>4, <3>1, <3>2
  <2> QED  BY <1>4, <2>1
<1> DEFINE h == SaidTo(s, u)
           S == {n \in 0..N : h[n] \in V}
<1>6. h = [n \in 0..N |-> IF n = 0 THEN <<>> ELSE With(h[n - 1], t[n - 1], u[n])]
  BY <1>5 DEF SaidTo, N, t
<1> HIDE DEF h
<1>7. h[0] = <<>> /\ \A n \in 1..N : h[n] = With(h[n - 1], t[n - 1], u[n])
  BY <1>1, <1>6
<1>8. \A n \in 0..N - 1 : n \in S => n + 1 \in S
  <2> SUFFICES ASSUME NEW n \in 0..N - 1, h[n] \in V  PROVE h[n + 1] \in V
    BY <1>1
  <2>1. n + 1 \in 1..N /\ (n + 1) - 1 = n
    BY <1>1
  <2> QED  BY <1>2, <1>7, <2>1, WithIs DEF V
<1>9. 0..N \subseteq S
  <2>1. 0 \in S
    BY <1>1, <1>7
  <2> HIDE DEF S
  <2> QED  BY <1>1, <1>8, <2>1, BoundedInduction
<1>10. h \in [0..N -> V]
  BY <1>6, <1>9
<1> QED  BY <1>7, <1>10 DEF h, V, N, t

\* A stream in two parts is read as one.
LEMMA Split ==
  ASSUME NEW s \in Reader, NEW u \in Seq(Byte), NEW v \in Seq(Byte)
  PROVE  /\ \A n \in 0..Len(u) : /\ Through(s, u \o v)[n] = Through(s, u)[n]
                                 /\ SaidTo(s, u \o v)[n] = SaidTo(s, u)[n]
         /\ After(s, u) \in Reader
         /\ After(s, u \o v) = After(After(s, u), v)
         /\ Said(s, u \o v) = Said(s, u) \o Said(After(s, u), v)
<1> DEFINE w == u \o v
           M == Len(u)
           N == Len(v)
           e == After(s, u)
           P(n) == /\ Through(s, w)[n] = Through(s, u)[n]
                   /\ SaidTo(s, w)[n] = SaidTo(s, u)[n]
           Q(n) == /\ Through(s, w)[M + n] = Through(e, v)[n]
                   /\ SaidTo(s, w)[M + n] = Said(s, u) \o SaidTo(e, v)[n]
<1>1. /\ M \in Nat /\ N \in Nat /\ w \in Seq(Byte) /\ Len(w) = M + N
      /\ \A i \in 1..M : w[i] = u[i]
      /\ \A i \in 1..N : w[M + i] = v[i]
  <2>1. M \in Nat /\ N \in Nat
    OBVIOUS
  <2>2. /\ w \in Seq(Byte) /\ Len(w) = M + N
        /\ \A i \in 1..M + N : w[i] = IF i <= M THEN u[i] ELSE v[i - M]
    BY ConcatProperties
  <2> HIDE DEF w, M, N
  <2> QED  BY <2>1, <2>2
<1>2. e \in Reader
  BY <1>1, ThroughIs DEF After
<1> HIDE DEF w, M, N, e
<1> DEFINE T == Through(s, w)
           TU == Through(s, u)
           TV == Through(e, v)
           G == SaidTo(s, w)
           GU == SaidTo(s, u)
           GV == SaidTo(e, v)
<1>3. /\ T[0] = s /\ \A n \in 1..M + N : T[n] = Fed(T[n - 1], w[n])
      /\ G[0] = <<>> /\ \A n \in 1..M + N : G[n] = With(G[n - 1], T[n - 1], w[n])
  <2>1. w \in Seq(Byte) /\ Len(w) = M + N
    BY <1>1
  <2>2. T[0] = s /\ \A n \in 1..Len(w) : T[n] = Fed(T[n - 1], w[n])
    BY <2>1, ThroughIs
  <2>3. G[0] = <<>> /\ \A n \in 1..Len(w) : G[n] = With(G[n - 1], T[n - 1], w[n])
    BY <2>1, SaidIs
  <2> HIDE DEF T, G
  <2> QED  BY <2>1, <2>2, <2>3
<1>4. /\ TU[0] = s /\ \A n \in 1..M : TU[n] = Fed(TU[n - 1], u[n])
      /\ GU[0] = <<>> /\ \A n \in 1..M : GU[n] = With(GU[n - 1], TU[n - 1], u[n])
      /\ e = TU[M] /\ Said(s, u) = GU[M] /\ GU[M] \in Seq(Seq(Byte))
  <2>1. M \in 0..M
    BY <1>1
  <2> QED  BY <2>1, SaidIs, ThroughIs DEF M, e, After, Said
<1>5. /\ TV[0] = e /\ \A n \in 1..N : TV[n] = Fed(TV[n - 1], v[n])
      /\ GV[0] = <<>> /\ \A n \in 1..N : GV[n] = With(GV[n - 1], TV[n - 1], v[n])
      /\ \A n \in 0..N : GV[n] \in Seq(Seq(Byte)) /\ TV[n] \in Reader
  BY <1>2, SaidIs, ThroughIs DEF N
<1>0. \A n \in 1..N : v[n] \in Byte
  BY ElementOfSeq DEF N
<1> HIDE DEF T, TU, TV, G, GU, GV
<1>6. \A n \in 0..M : T[n] = TU[n] /\ G[n] = GU[n]
  <2> DEFINE S == {n \in 0..M : T[n] = TU[n] /\ G[n] = GU[n]}
  <2>1. 0 \in S
    BY <1>1, <1>3, <1>4
  <2>2. \A n \in 0..M - 1 : n \in S => n + 1 \in S
    <3> SUFFICES ASSUME NEW n \in 0..M - 1, n \in S
                 PROVE  n + 1 \in S
      OBVIOUS
    <3>0. n \in 0..M /\ n + 1 \in 0..M /\ T[n] = TU[n] /\ G[n] = GU[n]
      BY <1>1
    <3>1. n + 1 \in 1..M /\ n + 1 \in 1..M + N /\ (n + 1) - 1 = n
      BY <1>1
    <3>2. w[n + 1] = u[n + 1]
      BY <1>1, <3>1
    <3>3. T[n + 1] = TU[n + 1] /\ G[n + 1] = GU[n + 1]
      BY <1>3, <1>4, <3>0, <3>1, <3>2
    <3> QED  BY <3>0, <3>3
  <2> HIDE DEF S
  <2>3. 0..M \subseteq S
    BY <1>1, <2>1, <2>2, BoundedInduction
  <2> QED  BY <2>3 DEF S
<1>7. \A n \in 0..N : T[M + n] = TV[n] /\ G[M + n] = GU[M] \o GV[n]
  <2> DEFINE Same(n) == T[M + n] = TV[n] /\ G[M + n] = GU[M] \o GV[n]
             S == {n \in 0..N : Same(n)}
  <2>1. Same(0)
    <3>1. M + 0 = M /\ M \in 0..M /\ 0 \in 0..N
      BY <1>1
    <3>2. GU[M] \o <<>> = GU[M]
      BY <1>4, ConcatEmptySeq
    <3> QED  BY <1>4, <1>5, <1>6, <3>1, <3>2
  <2>2. ASSUME NEW n \in 0..N - 1, Same(n)  PROVE Same(n + 1)
    <3>0. n \in Int /\ n >= 0 /\ n <= N - 1
      BY <1>1
    <3>1. /\ n + 1 \in 1..N /\ (n + 1) - 1 = n /\ n \in 0..N
          /\ M + (n + 1) \in 1..M + N /\ (M + (n + 1)) - 1 = M + n
      BY <1>1, <3>0
    <3>2. w[M + (n + 1)] = v[n + 1]
      BY <1>1, <3>1
    <3>3. T[M + (n + 1)] = TV[n + 1]
      BY <1>3, <1>5, <2>2, <3>1, <3>2
    <3>4. GV[n] \in Seq(Seq(Byte)) /\ TV[n] \in Reader /\ v[n + 1] \in Byte
      BY <1>0, <1>5, <3>1
    <3> DEFINE x == Fed(TV[n], v[n + 1]).body
               V == Seq(Byte)
    <3>5. x \in V
      BY <3>4, FedIs DEF Reader
    <3>6. Append(GU[M] \o GV[n], x) = GU[M] \o Append(GV[n], x)
      <4>1. <<x>> \in Seq(V) /\ GU[M] \in Seq(V) /\ GV[n] \in Seq(V)
        BY <1>4, <3>4, <3>5
      <4> HIDE DEF x, V
      <4>2. (GU[M] \o GV[n]) \o <<x>> = GU[M] \o (GV[n] \o <<x>>)
        <5> DEFINE a == GU[M]
                   b == GV[n]
                   c == <<x>>
        <5>1. a \in Seq(V) /\ b \in Seq(V) /\ c \in Seq(V)
          BY <4>1
        <5> HIDE DEF a, b, c
        <5>2. (a \o b) \o c = a \o (b \o c)
          BY <5>1, ConcatAssociative
        <5> QED  BY <5>2 DEF a, b, c
      <4>3. GU[M] \o GV[n] \in Seq(V)
        BY <4>1, ConcatProperties
      <4>4. Append(GU[M] \o GV[n], x) = (GU[M] \o GV[n]) \o <<x>> /\ Append(GV[n], x) = GV[n] \o <<x>>
        BY <3>5, <4>1, <4>3, AppendIsConcat
      <4> QED  BY <4>2, <4>4
    <3>7. G[M + (n + 1)] = With(GU[M] \o GV[n], TV[n], v[n + 1])
      BY <1>3, <2>2, <3>1, <3>2
    <3>8. GV[n + 1] = With(GV[n], TV[n], v[n + 1])
      BY <1>5, <3>1
    <3>9. With(GU[M] \o GV[n], TV[n], v[n + 1]) = GU[M] \o With(GV[n], TV[n], v[n + 1])
      BY <3>6 DEF With
    <3> QED  BY <3>3, <3>7, <3>8, <3>9
  <2> HIDE DEF Same
  <2>3. 0 \in S /\ \A n \in 0..N - 1 : n \in S => n + 1 \in S
    BY <1>1, <2>1, <2>2
  <2> HIDE DEF S
  <2>4. 0..N \subseteq S
    BY <1>1, <2>3, BoundedInduction
  <2> QED  BY <2>4 DEF S, Same
<1>8. After(s, w) = T[M + N] /\ After(e, v) = TV[N] /\ Said(s, w) = G[M + N] /\ Said(e, v) = GV[N]
  BY <1>1 DEF After, Said, T, TV, G, GV, N
<1>9. After(s, w) = After(e, v) /\ Said(s, w) = Said(s, u) \o Said(e, v)
  <2>1. N \in 0..N
    BY <1>1
  <2> QED  BY <1>4, <1>7, <1>8, <2>1
<1> QED  BY <1>2, <1>6, <1>9 DEF w, M, e, T, TU, G, GU

\* A stream is what is taken off its front and the rest.
LEMMA Parts ==
  ASSUME NEW S, NEW u \in Seq(S), NEW n \in 0..Len(u)
  PROVE  /\ SubSeq(u, 1, n) \in Seq(S) /\ Len(SubSeq(u, 1, n)) = n
         /\ \A i \in 1..n : SubSeq(u, 1, n)[i] = u[i]
         /\ SubSeq(u, n + 1, Len(u)) \in Seq(S) /\ Len(SubSeq(u, n + 1, Len(u))) = Len(u) - n
         /\ \A i \in 1..Len(u) - n : SubSeq(u, n + 1, Len(u))[i] = u[n + i]
         /\ SubSeq(u, 1, n) \o SubSeq(u, n + 1, Len(u)) = u
<1>1. Len(u) \in Nat /\ n \in Int /\ n + 1 \in Int /\ Len(u) \in Int
      /\ \A i \in 1..Len(u) : u[i] \in S
  BY ElementOfSeq
<1>2. /\ SubSeq(u, 1, n) \in Seq(S) /\ Len(SubSeq(u, 1, n)) = n
      /\ \A i \in 1..n : SubSeq(u, 1, n)[i] = u[i]
  <2>1. \A i \in 1..n : u[i] \in S
    BY <1>1
  <2> DEFINE v == SubSeq(u, 1, n)
  <2>2. /\ v \in Seq(S) /\ Len(v) = IF 1 <= n THEN n - 1 + 1 ELSE 0
        /\ \A i \in 1..n - 1 + 1 : v[i] = u[1 + i - 1]
    BY <1>1, <2>1, SubSeqProperties
  <2> HIDE DEF v
  <2>3. v \in Seq(S) /\ Len(v) = n /\ \A i \in 1..n : v[i] = u[i]
    BY <1>1, <2>2
  <2> QED  BY <2>3 DEF v
<1>3. /\ SubSeq(u, n + 1, Len(u)) \in Seq(S) /\ Len(SubSeq(u, n + 1, Len(u))) = Len(u) - n
      /\ \A i \in 1..Len(u) - n : SubSeq(u, n + 1, Len(u))[i] = u[n + i]
  <2> DEFINE N == Len(u)
             m == n + 1
             v == SubSeq(u, m, N)
  <2>1. \A i \in m..N : u[i] \in S
    BY <1>1
  <2>2. m \in Int /\ N \in Int
    BY <1>1
  <2> HIDE DEF N, m
  <2>3. /\ v \in Seq(S) /\ Len(v) = IF m <= N THEN N - m + 1 ELSE 0
        /\ \A i \in 1..N - m + 1 : v[i] = u[m + i - 1]
    BY <2>1, <2>2, SubSeqProperties
  <2> HIDE DEF v
  <2>4. v \in Seq(S) /\ Len(v) = N - n /\ \A i \in 1..N - n : v[i] = u[n + i]
    BY <1>1, <2>3 DEF m, N
  <2> QED  BY <2>4 DEF v, m, N
<1>4. SubSeq(u, 1, n) \o SubSeq(u, n + 1, Len(u)) = u
  <2>1. 1 \in 1..Len(u) + 1 /\ n \in 1 - 1..Len(u) /\ Len(u) \in n..Len(u)
    BY <1>1
  <2>2. SubSeq(u, 1, n) \o SubSeq(u, n + 1, Len(u)) = SubSeq(u, 1, Len(u))
    BY <2>1, ConcatAdjacentSubSeq
  <2> QED  BY <2>2, SubSeqFull
<1> QED  BY <1>2, <1>3, <1>4

\* A stretch in which no frame ends says nothing.
LEMMA Silence ==
  ASSUME NEW s \in Reader, NEW u \in Seq(Byte), NEW n \in 0..Len(u),
         \A i \in 1..n : ~Ends(Through(s, u)[i - 1], u[i])
  PROVE  SaidTo(s, u)[n] = <<>>
<1> DEFINE G == SaidTo(s, u)
           T == Through(s, u)
           S == {i \in 0..n : G[i] = <<>>}
<1>1. n \in Nat /\ n <= Len(u) /\ Len(u) \in Nat
  OBVIOUS
<1>2. G[0] = <<>> /\ \A i \in 1..Len(u) : G[i] = With(G[i - 1], T[i - 1], u[i])
  BY SaidIs
<1> HIDE DEF G
<1>3. 0 \in S
  BY <1>1, <1>2
<1>4. \A i \in 0..n - 1 : i \in S => i + 1 \in S
  <2> SUFFICES ASSUME NEW i \in 0..n - 1, G[i] = <<>>  PROVE G[i + 1] = <<>>
    BY <1>1
  <2>1. i + 1 \in 1..n /\ i + 1 \in 1..Len(u) /\ (i + 1) - 1 = i
    BY <1>1
  <2>2. ~Ends(T[i], u[i + 1])
    BY <2>1
  <2> QED  BY <1>2, <2>1, <2>2 DEF With
<1> HIDE DEF S
<1>5. 0..n \subseteq S
  BY <1>1, <1>3, <1>4, BoundedInduction
<1> QED  BY <1>1, <1>5 DEF S, G

\* One call of feed stops at the first end of a frame, or at the end.
LEMMA TakenIs ==
  ASSUME NEW s \in Reader, NEW u \in Seq(Byte), u # <<>>
  PROVE  LET n == Taken(s, u)
             before == Through(s, u)[n - 1]
         IN /\ n \in 1..Len(u)
            /\ before \in Reader /\ u[n] \in Byte
            /\ Fed(before, u[n]) = After(s, SubSeq(u, 1, n))
            /\ Said(s, SubSeq(u, 1, n)) = With(<<>>, before, u[n])
<1> DEFINE T == Through(s, u)
           N == Len(u)
           ends == {n \in 1..N : Ends(T[n - 1], u[n])}
           n == Taken(s, u)
<1>1. N \in Nat \ {0}
  BY EmptySeq
<1>2. /\ n \in 1..N
      /\ \A i \in 1..n - 1 : ~Ends(T[i - 1], u[i])
  <2>1. CASE ends = {}
    <3>1. n = N
      BY <2>1 DEF Taken
    <3> HIDE DEF n, T
    <3> QED  BY <1>1, <2>1, <3>1
  <2>2. CASE ends # {}
    <3>1. n = CHOOSE k \in ends : \A m \in ends : k <= m
      BY <2>2 DEF Taken
    <3> HIDE DEF n, T
    <3>2. ends \in SUBSET Nat
      BY <1>1
    <3>3. \E k \in ends : \A m \in ends : k <= m
      <4> HIDE DEF ends
      <4> QED  BY <2>2, <3>2, Least
    <3>4. n \in ends /\ \A m \in ends : n <= m
      <4> HIDE DEF ends
      <4> QED  BY <3>1, <3>3
    <3> QED  BY <1>1, <3>4
  <2> QED  BY <2>1, <2>2
<1> HIDE DEF n
<1>3. /\ n \in 0..N /\ n - 1 \in 0..N
      /\ T[n - 1] \in Reader /\ u[n] \in Byte /\ T[n] = Fed(T[n - 1], u[n])
  <2>1. n \in 0..N /\ n - 1 \in 0..N
    BY <1>1, <1>2
  <2> QED  BY <1>2, <2>1, ThroughIs, ElementOfSeq
<1> DEFINE v == SubSeq(u, 1, n)
           r == SubSeq(u, n + 1, N)
<1>4. v \in Seq(Byte) /\ r \in Seq(Byte) /\ v \o r = u /\ Len(v) = n
  BY <1>3, Parts
<1> HIDE DEF v, r
<1>5. n \in 0..Len(v)
  BY <1>1, <1>2, <1>4
<1>6. T[n] = After(s, v) /\ SaidTo(s, u)[n] = Said(s, v)
  <2>1. Through(s, v \o r)[n] = Through(s, v)[n] /\ SaidTo(s, v \o r)[n] = SaidTo(s, v)[n]
    BY <1>4, <1>5, Split
  <2> QED  BY <1>4, <2>1 DEF After, Said
<1>7. SaidTo(s, u)[n] = With(<<>>, T[n - 1], u[n])
  <2>1. SaidTo(s, u)[n] = With(SaidTo(s, u)[n - 1], T[n - 1], u[n])
    BY <1>2, SaidIs
  <2>2. SaidTo(s, u)[n - 1] = <<>>
    BY <1>2, <1>3, Silence
  <2> QED  BY <2>1, <2>2
<1> QED  BY <1>2, <1>3, <1>6, <1>7 DEF n, v

\* Between two frames.
AtRest(s) == s.stage = "hunt" \/ s = [Fresh EXCEPT !.stage = "saw_start1"]

\* A reader that has seen the first start byte knows nothing else.
LEMMA RestIs ==
  ASSUME NEW s \in Reader, NEW u \in Seq(Byte), AtRest(s)
  PROVE  \A n \in 0..Len(u) : Through(s, u)[n].stage \in Between => AtRest(Through(s, u)[n])
<1> DEFINE T == Through(s, u)
           Q(n) == T[n].stage \in Between => AtRest(T[n])
           S == {n \in 0..Len(u) : Q(n)}
<1>1. /\ Len(u) \in Nat
      /\ T[0] = s /\ \A n \in 1..Len(u) : T[n] = Fed(T[n - 1], u[n])
      /\ \A n \in 0..Len(u) : T[n] \in Reader
      /\ \A n \in 1..Len(u) : u[n] \in Byte
  BY ThroughIs, ElementOfSeq
<1>2. ASSUME NEW r \in Reader, NEW c \in Byte, r.stage \in Between => AtRest(r),
             Fed(r, c).stage \in Between
      PROVE  AtRest(Fed(r, c))
  <2>1. r.stage \in Stages /\ Fed(r, c) \in Reader
    BY FedIs DEF Reader
  <2>2. CASE r.stage = "hunt"
    <3>1. Fed(r, c) = [Fresh EXCEPT !.stage = IF c = Start1 THEN "saw_start1" ELSE "hunt"]
      BY <2>2 DEF Fed
    <3> QED  BY <3>1 DEF AtRest, Fresh
  <2>3. CASE r.stage = "saw_start1"
    <3>1. Fed(r, c) = [r EXCEPT !.stage = IF c = Start2 THEN "want_msb"
                             ELSE IF c = Start1 THEN "saw_start1" ELSE "hunt"]
      BY <2>3 DEF Fed
    <3>2. r = [Fresh EXCEPT !.stage = "saw_start1"]
      BY <1>2, <2>3 DEF AtRest, Between
    <3> QED  BY <1>2, <3>1, <3>2 DEF AtRest, Fresh, Between
  <2>4. CASE r.stage = "want_msb"
    <3>1. Fed(r, c).stage = "want_lsb"
      BY <2>4 DEF Fed, Reader
    <3> QED  BY <1>2, <3>1 DEF Between
  <2>5. CASE r.stage = "want_lsb"
    <3>1. Fed(r, c).stage \in {"hunt", "body"}
      BY <2>5 DEF Fed, Fresh
    <3> QED  BY <1>2, <3>1 DEF AtRest, Between
  <2>6. CASE r.stage = "body"
    <3>1. Fed(r, c).stage \in {"hunt", "body"}
      BY <2>6 DEF Fed, Reader
    <3> QED  BY <1>2, <3>1 DEF AtRest, Between
  <2> QED  BY <2>1, <2>2, <2>3, <2>4, <2>5, <2>6 DEF Stages
<1> HIDE DEF T
<1>3. 0 \in S
  BY <1>1
<1>4. \A n \in 0..Len(u) - 1 : n \in S => n + 1 \in S
  <2> SUFFICES ASSUME NEW n \in 0..Len(u) - 1, Q(n)  PROVE Q(n + 1)
    BY <1>1
  <2>1. n + 1 \in 1..Len(u) /\ (n + 1) - 1 = n /\ n \in 0..Len(u)
    BY <1>1
  <2>2. T[n] \in Reader /\ u[n + 1] \in Byte /\ T[n + 1] = Fed(T[n], u[n + 1])
    BY <1>1, <2>1
  <2> QED  BY <1>2, <2>2
<1> HIDE DEF S
<1>5. 0..Len(u) \subseteq S
  BY <1>1, <1>3, <1>4, BoundedInduction
<1> QED  BY <1>5 DEF S, T

\* What a reader that hunts holds does not matter.
LEMMA HuntIs ==
  ASSUME NEW s \in Reader, s.stage = "hunt", NEW u \in Seq(Byte)
  PROVE  \A n \in 1..Len(u) : Through(s, u)[n] = Through(Fresh, u)[n]
<1> DEFINE T == Through(s, u)
           F == Through(Fresh, u)
           S == {n \in 0..Len(u) : n = 0 \/ T[n] = F[n]}
<1>0. Fresh \in Reader /\ Fresh.stage = "hunt"
  BY Wide DEF Fresh, Reader, Stages
<1>1. /\ Len(u) \in Nat
      /\ T[0] = s /\ \A n \in 1..Len(u) : T[n] = Fed(T[n - 1], u[n])
      /\ F[0] = Fresh /\ \A n \in 1..Len(u) : F[n] = Fed(F[n - 1], u[n])
  BY <1>0, ThroughIs
<1>2. \A c \in Byte : Fed(s, c) = Fed(Fresh, c)
  BY <1>0 DEF Fed
<1>3. \A n \in 1..Len(u) : u[n] \in Byte
  BY ElementOfSeq
<1> HIDE DEF T, F
<1>4. 0 \in S
  BY <1>1
<1>5. \A n \in 0..Len(u) - 1 : n \in S => n + 1 \in S
  <2> SUFFICES ASSUME NEW n \in 0..Len(u) - 1, n = 0 \/ T[n] = F[n]
               PROVE  T[n + 1] = F[n + 1]
    BY <1>1
  <2>1. n + 1 \in 1..Len(u) /\ (n + 1) - 1 = n
    BY <1>1
  <2>2. T[n + 1] = Fed(T[n], u[n + 1]) /\ F[n + 1] = Fed(F[n], u[n + 1]) /\ u[n + 1] \in Byte
    BY <1>1, <1>3, <2>1
  <2> QED  BY <1>1, <1>2, <2>2
<1> HIDE DEF S
<1>6. 0..Len(u) \subseteq S
  BY <1>1, <1>4, <1>5, BoundedInduction
<1> QED  BY <1>6 DEF S, T, F

\* What is no message says nothing.
LEMMA NoiseIs ==
  ASSUME NEW s \in Reader, AtRest(s), NEW u \in Noise
  PROVE  /\ u \in Seq(Byte)
         /\ AtRest(After(s, u))
         /\ Said(s, u) = <<>>
<1>1. u \in Seq(Byte) /\ Len(u) \in Nat
  BY TcpOK DEF TcpOK
<1> DEFINE N == Len(u)
           T == Through(s, u)
<1>2. /\ N # 0 => T[N].stage \in Between
      /\ \A i \in 1..N : ~Ends(T[i - 1], u[i])
  <2>1. CASE s.stage = "hunt"
    <3> DEFINE F == Through(Fresh, u)
    <3>1. F[N].stage \in Between /\ \A i \in 1..N : ~Ends(F[i - 1], u[i])
      <4>1. [Fresh EXCEPT !.stage = "hunt"] = Fresh
        BY DEF Fresh
      <4>2. "hunt" \in Between
        BY DEF Between
      <4> QED  BY <4>1, <4>2, NoiseOK DEF NoiseOK
    <3>2. \A i \in 1..N : T[i] = F[i]
      BY <1>1, <2>1, HuntIs
    <3>3. T[0] = s
      BY <1>1, ThroughIs
    <3> HIDE DEF T, F
    <3>4. ASSUME NEW i \in 1..N  PROVE ~Ends(T[i - 1], u[i])
      <4>1. CASE i = 1
        <5>1. T[i - 1] = s
          BY <3>3, <4>1
        <5> QED  BY <2>1, <5>1 DEF Ends
      <4>2. CASE i # 1
        <5>1. i - 1 \in 1..N
          BY <1>1, <4>2
        <5> QED  BY <3>1, <3>2, <5>1
      <4> QED  BY <4>1, <4>2
    <3> QED  BY <1>1, <3>1, <3>2, <3>4
  <2>2. CASE s = [Fresh EXCEPT !.stage = "saw_start1"]
    <3>1. "saw_start1" \in Between
      BY DEF Between
    <3> QED  BY <2>2, <3>1, NoiseOK DEF NoiseOK
  <2> QED  BY <2>1, <2>2 DEF AtRest
<1>3. T[0] = s /\ N \in 0..N
  BY <1>1, ThroughIs
<1>4. AtRest(T[N])
  <2>1. CASE N = 0
    BY <1>3, <2>1
  <2>2. CASE N # 0
    BY <1>1, <1>2, <1>3, <2>2, RestIs
  <2> QED  BY <2>1, <2>2
<1>5. Said(s, u) = <<>>
  BY <1>1, <1>2, <1>3, Silence DEF Said
<1> QED  BY <1>1, <1>4, <1>5 DEF After

\* The length of a frame is in its header.
LEMMA HeaderIs ==
  ASSUME NEW L \in 1..MaxFrame
  PROVE  /\ L \div Base \in Byte /\ L % Base \in Byte
         /\ (L \div Base) * Base + (L % Base) = L
<1>1. Base \in Nat /\ Base > 1 /\ L \in Nat /\ L < Base * Base
  BY Wide
<1> DEFINE h == L \div Base
           l == L % Base
<1>2. h \in Nat /\ l \in 0..Base - 1 /\ h * Base + l = L
  BY <1>1, SMT
<1> HIDE DEF h, l
<1>3. h < Base
  <2> SUFFICES ASSUME h >= Base  PROVE FALSE
    BY <1>1, <1>2
  <2>1. h * Base >= Base * Base
    BY <1>1, <1>2, SMT
  <2>2. h * Base \in Nat /\ Base * Base \in Nat
    BY <1>1, <1>2
  <2> QED  BY <1>1, <1>2, <2>1, <2>2
<1> QED  BY <1>1, <1>2, <1>3 DEF Byte, h, l

\* What frame writes (stream.rs:142), read by feed from between two frames, is the
\* message it frames and nothing else, and leaves the reader between two frames.
THEOREM FrameIsRead ==
  ASSUME NEW s \in Reader, AtRest(s), NEW m \in Seq(Byte), Len(m) \in 1..MaxFrame
  PROVE  /\ Framed(m) \in Seq(Byte)
         /\ AtRest(After(s, Framed(m)))
         /\ Said(s, Framed(m)) = <<m>>
<1> DEFINE L == Len(m)
           h == L \div Base
           l == L % Base
           head == <<Start1, Start2, h, l>>
           u == Framed(m)
           T == Through(s, u)
           G == SaidTo(s, u)
<1>1. L \in Nat /\ L >= 1 /\ L <= MaxFrame /\ MaxFrame \in Nat
  BY Wide
<1>2. h \in Byte /\ l \in Byte /\ h * Base + l = L
  BY HeaderIs
<1>3. Start1 \in Byte /\ Start2 \in Byte /\ Start1 # Start2
  BY FramingOK DEF FramingOK, Byte
<1>4. u = head \o m
  BY DEF Framed
<1> HIDE DEF h, l
<1>5. head \in Seq(Byte) /\ Len(head) = 4
      /\ head[1] = Start1 /\ head[2] = Start2 /\ head[3] = h /\ head[4] = l
  BY <1>2, <1>3
<1> HIDE DEF head, u
<1>6. /\ u \in Seq(Byte) /\ Len(u) = 4 + L
      /\ u[1] = Start1 /\ u[2] = Start2 /\ u[3] = h /\ u[4] = l
      /\ \A i \in 1..L : u[4 + i] = m[i]
  <2>1. /\ head \o m \in Seq(Byte) /\ Len(head \o m) = 4 + L
        /\ \A i \in 1..4 + L : (head \o m)[i] = IF i <= 4 THEN head[i] ELSE m[i - 4]
    <3>1. /\ head \o m \in Seq(Byte) /\ Len(head \o m) = Len(head) + Len(m)
          /\ \A i \in 1..Len(head) + Len(m) :
               (head \o m)[i] = IF i <= Len(head) THEN head[i] ELSE m[i - Len(head)]
      BY <1>5, ConcatProperties
    <3> QED  BY <1>5, <3>1
  <2>2. \A i \in 1..L : (head \o m)[4 + i] = m[i]
    <3> TAKE i \in 1..L
    <3>1. 4 + i \in 1..4 + L /\ ~(4 + i <= 4) /\ 4 + i - 4 = i
      BY <1>1
    <3> QED  BY <2>1, <3>1
  <2>3. 1 \in 1..4 + L /\ 2 \in 1..4 + L /\ 3 \in 1..4 + L /\ 4 \in 1..4 + L
    BY <1>1
  <2> QED  BY <1>4, <1>5, <2>1, <2>2, <2>3
<1>7. /\ T[0] = s /\ \A n \in 1..4 + L : T[n] = Fed(T[n - 1], u[n])
      /\ \A n \in 0..4 + L : T[n] \in Reader
  <2>1. u \in Seq(Byte) /\ Len(u) = 4 + L
    BY <1>6
  <2>2. /\ T[0] = s /\ \A n \in 1..Len(u) : T[n] = Fed(T[n - 1], u[n])
        /\ \A n \in 0..Len(u) : T[n] \in Reader
    BY <2>1, ThroughIs
  <2> HIDE DEF T
  <2> QED  BY <2>1, <2>2
<1>8. 1 \in 1..4 + L /\ 2 \in 1..4 + L /\ 3 \in 1..4 + L /\ 4 \in 1..4 + L
      /\ \A n \in 1..4 : n - 1 \in 0..4 + L
  BY <1>1
<1> HIDE DEF T, G
<1>9. T[1].stage = "saw_start1" /\ T[0].stage # "body"
  <2>1. T[1] = Fed(s, Start1)
    BY <1>6, <1>7, <1>8
  <2>2. CASE s.stage = "hunt"
    <3>1. Fed(s, Start1) = [Fresh EXCEPT !.stage = IF Start1 = Start1 THEN "saw_start1" ELSE "hunt"]
      BY <2>2 DEF Fed
    <3> QED  BY <1>7, <2>1, <2>2, <3>1 DEF Fresh
  <2>3. CASE s.stage # "hunt"
    <3>1. s.stage = "saw_start1"
      BY <2>3 DEF AtRest, Fresh
    <3>2. Fed(s, Start1) = [s EXCEPT !.stage = IF Start1 = Start2 THEN "want_msb"
                             ELSE IF Start1 = Start1 THEN "saw_start1" ELSE "hunt"]
      BY <3>1 DEF Fed
    <3> QED  BY <1>3, <1>7, <2>1, <3>1, <3>2 DEF Reader
  <2> QED  BY <2>2, <2>3
<1>10. T[2].stage = "want_msb"
  <2>1. T[2] = Fed(T[1], Start2) /\ T[1] \in Reader
    BY <1>6, <1>7, <1>8
  <2> QED  BY <1>9, <2>1 DEF Fed, Reader
<1>11. T[3].stage = "want_lsb" /\ T[3].want = h * Base
  <2>1. T[3] = Fed(T[2], h) /\ T[2] \in Reader
    BY <1>6, <1>7, <1>8
  <2> QED  BY <1>10, <2>1 DEF Fed, Reader
<1>12. T[4].stage = "body" /\ T[4].want = L /\ T[4].body = <<>>
  <2>1. T[4] = Fed(T[3], l) /\ T[3] \in Reader
    BY <1>6, <1>7, <1>8
  <2>2. Wanted(T[3], l) = L
    BY <1>2, <1>11 DEF Wanted
  <2>3. ~(L > MaxFrame) /\ L # 0
    BY <1>1
  <2> QED  BY <1>11, <2>1, <2>2, <2>3 DEF Fed, Fresh
<1> DEFINE Filled(n) == T[4 + n].stage = "body" /\ T[4 + n].want = L /\ T[4 + n].body = SubSeq(m, 1, n)
           S == {n \in 0..L - 1 : Filled(n)}
<1>13. \A n \in 0..L - 1 :
          Filled(n) => /\ Ends(T[4 + n], u[4 + (n + 1)]) <=> n + 1 = L
                       /\ T[4 + (n + 1)].stage = (IF n + 1 = L THEN "hunt" ELSE "body")
                       /\ T[4 + (n + 1)].want = L
                       /\ T[4 + (n + 1)].body = SubSeq(m, 1, n + 1)
  <2> SUFFICES ASSUME NEW n \in 0..L - 1, Filled(n)
               PROVE  /\ Ends(T[4 + n], u[4 + (n + 1)]) <=> n + 1 = L
                      /\ T[4 + (n + 1)].stage = (IF n + 1 = L THEN "hunt" ELSE "body")
                      /\ T[4 + (n + 1)].want = L
                      /\ T[4 + (n + 1)].body = SubSeq(m, 1, n + 1)
    OBVIOUS
  <2> DEFINE r == T[4 + n]
             c == m[n + 1]
  <2>1. /\ n \in Int /\ n + 1 \in 1..L /\ n \in 0..L /\ n + 1 \in 0..L
        /\ 4 + (n + 1) \in 1..4 + L /\ (4 + (n + 1)) - 1 = 4 + n /\ 4 + n \in 0..4 + L
    BY <1>1
  <2>2. r \in Reader /\ T[4 + (n + 1)] = Fed(r, c) /\ u[4 + (n + 1)] = c /\ c \in Byte
    BY <1>6, <1>7, <2>1, ElementOfSeq
  <2>3. r.body = SubSeq(m, 1, n) /\ Len(SubSeq(m, 1, n)) = n
    BY <2>1, Parts
  <2>4. Append(SubSeq(m, 1, n), c) = SubSeq(m, 1, n + 1)
    <3>1. SubSeq(m, 1, n + 1) = SubSeq(m, 1, n + 1 - 1) \o <<m[n + 1]>>
      <4>1. 1 \in 1..Len(m) /\ n + 1 \in 1..Len(m)
        BY <1>1, <2>1
      <4> QED  BY <4>1, SubSeqRecursiveSecond
    <3>2. n + 1 - 1 = n /\ SubSeq(m, 1, n) \in Seq(Byte)
      BY <2>1, Parts
    <3> QED  BY <2>2, <3>1, <3>2, AppendIsConcat
  <2>5. Fed(r, c) = [r EXCEPT !.body = Append(r.body, c),
                              !.stage = IF Len(r.body) + 1 >= r.want THEN "hunt" ELSE "body"]
    BY DEF Fed
  <2>6. Len(r.body) + 1 >= r.want <=> n + 1 = L
    <3>1. Len(r.body) = n /\ r.want = L
      BY <2>3
    <3> HIDE DEF r
    <3> QED  BY <1>1, <2>1, <3>1
  <2>7. Ends(r, c) <=> n + 1 = L
    BY <2>6 DEF Ends
  <2>8. /\ Fed(r, c).stage = (IF n + 1 = L THEN "hunt" ELSE "body")
        /\ Fed(r, c).want = L /\ Fed(r, c).body = Append(r.body, c)
    <3>1. r.want = L
      OBVIOUS
    <3> HIDE DEF r
    <3> QED  BY <2>2, <2>5, <2>6, <3>1 DEF Reader
  <2> QED  BY <2>2, <2>3, <2>4, <2>7, <2>8
<1>14. \A n \in 0..L - 1 : Filled(n)
  <2>1. Filled(0)
    <3>1. SubSeq(m, 1, 0) = <<>> /\ 4 + 0 = 4
      BY SubSeqEmpty
    <3> QED  BY <1>12, <3>1
  <2>2. 0 \in S
    BY <1>1, <2>1
  <2>3. \A n \in 0..(L - 1) - 1 : n \in S => n + 1 \in S
    <3> SUFFICES ASSUME NEW n \in 0..(L - 1) - 1, Filled(n)  PROVE n + 1 \in 0..L - 1 /\ Filled(n + 1)
      OBVIOUS
    <3>1. n \in 0..L - 1 /\ n + 1 \in 0..L - 1 /\ n + 1 # L
      BY <1>1
    <3> QED  BY <1>13, <3>1
  <2> HIDE DEF S
  <2>4. 0..L - 1 \subseteq S
    <3>1. L - 1 \in Nat
      BY <1>1
    <3> QED  BY <2>2, <2>3, <3>1, BoundedInduction
  <2> QED  BY <2>4 DEF S
<1> HIDE DEF Filled
<1>15. L - 1 \in 0..L - 1 /\ L - 1 + 1 = L
  BY <1>1
<1>16. T[4 + L].stage = "hunt" /\ T[4 + L].body = m /\ Ends(T[4 + (L - 1)], u[4 + L])
  <2>1. SubSeq(m, 1, L) = m
    BY SubSeqFull
  <2> DEFINE k == L - 1
  <2>2. k \in 0..L - 1 /\ Filled(k) /\ k + 1 = L
    BY <1>14, <1>15
  <2> HIDE DEF k
  <2>3. /\ Ends(T[4 + k], u[4 + (k + 1)]) <=> k + 1 = L
        /\ T[4 + (k + 1)].stage = (IF k + 1 = L THEN "hunt" ELSE "body")
        /\ T[4 + (k + 1)].body = SubSeq(m, 1, k + 1)
    BY <1>13, <2>2
  <2> QED  BY <2>1, <2>2, <2>3 DEF k
<1>17. \A i \in 1..4 + (L - 1) : ~Ends(T[i - 1], u[i])
  <2> TAKE i \in 1..4 + (L - 1)
  <2>1. CASE i <= 4
    <3>1. i - 1 \in {0, 1, 2, 3}
      BY <1>1, <2>1
    <3>2. T[i - 1].stage # "body"
      BY <1>9, <1>10, <1>11, <3>1
    <3> QED  BY <3>2 DEF Ends
  <2>2. CASE ~(i <= 4)
    <3> DEFINE n == i - 5
    <3>1. n \in 0..L - 1 /\ n + 1 # L /\ 4 + n = i - 1 /\ 4 + (n + 1) = i
      BY <1>1, <2>2
    <3> HIDE DEF n
    <3> QED  BY <1>13, <1>14, <3>1
  <2> QED  BY <2>1, <2>2
<1>18. Said(s, u) = <<m>>
  <2> DEFINE k == 4 + (L - 1)
  <2>1. k \in 0..Len(u) /\ Len(u) = 4 + L /\ 4 + L \in 1..Len(u) /\ (4 + L) - 1 = k
    BY <1>1, <1>6
  <2>2. SaidTo(s, u)[k] = <<>>
    <3> HIDE DEF k
    <3> QED  BY <1>6, <1>17, <2>1, Silence DEF k, T
  <2>3. SaidTo(s, u)[4 + L] = With(SaidTo(s, u)[k], T[k], u[4 + L])
    BY <1>6, <2>1, SaidIs DEF T
  <2>4. T[4 + L] = Fed(T[k], u[4 + L])
    BY <1>6, <1>7, <2>1
  <2> QED  BY <1>16, <2>1, <2>2, <2>3, <2>4 DEF With, Said
<1>19. AtRest(After(s, u))
  BY <1>6, <1>16 DEF AtRest, After, T
<1> QED  BY <1>6, <1>18, <1>19 DEF u

-----------------------------------------------------------------------------
(* What goes out.                                                          *)

LEMMA MinIs ==
  ASSUME NEW S \in SUBSET Nat, S # {}
  PROVE  Min(S) \in S /\ \A y \in S : Min(S) <= y
<1>1. \E x \in S : \A y \in S : x <= y
  BY Least
<1> QED  BY <1>1 DEF Min

LEMMA MaxIs ==
  ASSUME NEW N \in Nat, NEW S \in SUBSET (0..N), S # {}
  PROVE  Max(S) \in S /\ \A y \in S : y <= Max(S)
<1> DEFINE R == {N - x : x \in S}
<1>1. R \in SUBSET Nat /\ R # {}
  OBVIOUS
<1> HIDE DEF R
<1>2. PICK r \in R : \A y \in R : r <= y
  BY <1>1, Least
<1>3. PICK x \in S : r = N - x
  BY DEF R
<1>4. \A y \in S : x >= y
  <2> TAKE y \in S
  <2>1. N - y \in R
    BY DEF R
  <2>2. N - x <= N - y
    BY <1>2, <1>3, <2>1
  <2> QED  BY <2>2
<1>5. Max(S) \in S /\ \A y \in S : Max(S) >= y
  BY <1>4 DEF Max
<1> QED  BY <1>5

LEMMA SizesAre ==
  /\ Chunk \in Nat \ {0} /\ QueueBytes \in Nat \ {0}
  /\ \A w \in Whats : Size[w] \in Nat \ {0} /\ Size[w] <= Max({Size[v] : v \in Whats})
  /\ Max({Size[v] : v \in Whats}) \in Nat
<1>1. Chunk \in Nat \ {0} /\ QueueBytes \in Nat \ {0} /\ \A w \in Whats : Size[w] \in Nat \ {0}
  BY TcpOK DEF TcpOK
<1> DEFINE S == {Size[v] : v \in Whats}
           N == Size["device"] + Size["roster"] + Size["end"] + Size["status"] + Size["packet"]
<1>2. N \in Nat /\ S \in SUBSET (0..N) /\ S # {}
  BY <1>1 DEF Whats
<1> HIDE DEF N
<1>3. Max(S) \in S /\ \A y \in S : y <= Max(S)
  <2> HIDE DEF S
  <2> QED  BY <1>2, MaxIs
<1>4. Max(S) \in Nat
  BY <1>1, <1>3
<1> QED  BY <1>1, <1>3, <1>4

\* The cell before the i-th of those behind cell l.
Prior(l, q, i) == IF i = 1 THEN l ELSE q[i - 1]

Whole(c) == c.i = Size[c.what]

InFrame(c) == c.what \in Whats /\ c.i \in 1..Size[c.what]

\* Cells that go on where the client is, up to the end of a frame.
Chained(l, q) ==
  /\ \A i \in 1..Len(q) : Follows(Prior(l, q, i), q[i])
  /\ Whole(Prior(l, q, Len(q) + 1))

NoEnd(q, i, n) == \A j \in i..n : q[j].what # "end"

\* What the n-th cell may end: half a dump the client has, or gets before it.
Covered(q, h, n, d) ==
  \/ \E j \in 1..n - 1 : q[j].what = d /\ NoEnd(q, j, n - 1)
  \/ d \in h /\ NoEnd(q, 1, n - 1)

Ended(q, h) ==
  \A n \in 1..Len(q), d \in {"device", "roster"} :
    q[n].what = "end" /\ q[n].i = 1 => Covered(q, h, n, d)

\* Cells that may be sent to a client that has got as far as l and h.
Sendable(q, l, h) ==
  /\ Chained(l, q)
  /\ \A i \in 1..Len(q) : q[i].mine
  /\ Ended(q, h)

\* The buffer.
Held(q) ==
  /\ q \in Seq(Cells) /\ Len(q) <= QueueBytes
  /\ \A i \in 1..Len(q) : InFrame(q[i])

LEMMA FrameIs ==
  ASSUME NEW w \in Whats, alive \in BOOLEAN
  PROVE  /\ Frame(w) \in Seq(Cells) /\ Len(Frame(w)) = Size[w]
         /\ \A i \in 1..Size[w] : Frame(w)[i] = [what |-> w, i |-> i, mine |-> alive]
         /\ Size[w] \in Nat \ {0}
<1> DEFINE X == Max({Size[v] : v \in Whats})
           F == Frame(w)
           N == Size[w]
<1>1. N \in Nat \ {0} /\ X \in Nat /\ N <= X
  BY SizesAre
<1>2. Cells = {[what |-> v, i |-> i, mine |-> m] : v \in Whats, i \in 1..X, m \in BOOLEAN}
  BY DEF Cells
<1> HIDE DEF X
<1>3. \A i \in 1..N : [what |-> w, i |-> i, mine |-> alive] \in Cells
  BY <1>1, <1>2
<1>4. F = [i \in 1..N |-> [what |-> w, i |-> i, mine |-> alive]]
  BY DEF Frame
<1> HIDE DEF F, N
<1>5. F \in [1..N -> Cells]
  BY <1>3, <1>4
<1>6. F \in Seq(Cells) /\ Len(F) = N
  BY <1>1, <1>5
<1> QED  BY <1>1, <1>4, <1>6 DEF F, N

LEMMA Joined ==
  ASSUME NEW S, NEW q \in Seq(S), NEW f \in Seq(S)
  PROVE  /\ q \o f \in Seq(S)
         /\ Len(q) \in Nat /\ Len(f) \in Nat /\ Len(q \o f) = Len(q) + Len(f)
         /\ \A i \in 1..Len(q) : (q \o f)[i] = q[i]
         /\ \A i \in 1..Len(f) : (q \o f)[Len(q) + i] = f[i]
<1> DEFINE r == q \o f
           M == Len(q)
           N == Len(f)
<1>1. M \in Nat /\ N \in Nat
  OBVIOUS
<1>2. /\ r \in Seq(S) /\ Len(r) = M + N
      /\ \A i \in 1..M + N : r[i] = IF i <= M THEN q[i] ELSE f[i - M]
  BY ConcatProperties
<1> HIDE DEF r, M, N
<1>3. ASSUME NEW i \in 1..M  PROVE r[i] = q[i]
  BY <1>1, <1>2
<1>4. ASSUME NEW i \in 1..N  PROVE r[M + i] = f[i]
  <2> DEFINE k == M + i
  <2>1. k \in 1..M + N /\ ~(k <= M) /\ k - M = i
    BY <1>1
  <2> HIDE DEF k
  <2>2. r[k] = f[k - M]
    BY <1>2, <2>1
  <2> QED  BY <2>1, <2>2 DEF k
<1> QED  BY <1>1, <1>2, <1>3, <1>4 DEF r, M, N

\* One more frame goes behind what there is, if there is room.
LEMMA OfferedIs ==
  ASSUME NEW q \in Seq(Cells), NEW w \in Whats, alive \in BOOLEAN, Fits(q, w)
  PROVE  /\ Offered(q, w) \in Seq(Cells)
         /\ Len(q) \in Nat /\ Size[w] \in Nat \ {0}
         /\ Len(Offered(q, w)) = Len(q) + Size[w]
         /\ \A i \in 1..Len(q) : Offered(q, w)[i] = q[i]
         /\ \A i \in Len(q) + 1..Len(q) + Size[w] :
              /\ Offered(q, w)[i].what = w
              /\ Offered(q, w)[i].i = i - Len(q)
              /\ alive => Offered(q, w)[i].mine
<1>1. Offered(q, w) = q \o Frame(w)
  BY DEF Offered
<1> DEFINE f == Frame(w)
<1>2. /\ f \in Seq(Cells) /\ Len(f) = Size[w] /\ Size[w] \in Nat \ {0}
      /\ \A i \in 1..Size[w] : f[i] = [what |-> w, i |-> i, mine |-> alive]
  BY FrameIs
<1> HIDE DEF f
<1> DEFINE r == q \o f
<1>3. /\ r \in Seq(Cells) /\ Len(q) \in Nat /\ Len(r) = Len(q) + Len(f)
      /\ \A i \in 1..Len(q) : r[i] = q[i]
      /\ \A i \in 1..Len(f) : r[Len(q) + i] = f[i]
  BY <1>2, Joined
<1> HIDE DEF r
<1>4. ASSUME NEW k \in Len(q) + 1..Len(q) + Size[w]
      PROVE  r[k].what = w /\ r[k].i = k - Len(q) /\ (alive => r[k].mine)
  <2> DEFINE i == k - Len(q)
  <2>1. i \in 1..Size[w] /\ k = Len(q) + i
    BY <1>2, <1>3
  <2> HIDE DEF i
  <2>2. r[k] = [what |-> w, i |-> i, mine |-> alive]
    BY <1>2, <1>3, <2>1
  <2> QED  BY <2>2 DEF i
<1> QED  BY <1>1, <1>2, <1>3, <1>4 DEF r, f

LEMMA OfferedHeld ==
  ASSUME NEW q, Held(q), NEW w \in Whats, alive \in BOOLEAN
  PROVE  Held(Offered(q, w))
<1>1. q \in Seq(Cells)
  BY DEF Held
<1>2. CASE Fits(q, w)
  <2> DEFINE r == Offered(q, w)
             M == Len(q)
             N == Size[w]
  <2>1. /\ r \in Seq(Cells) /\ M \in Nat /\ N \in Nat \ {0} /\ Len(r) = M + N
        /\ \A i \in 1..M : r[i] = q[i]
        /\ \A i \in M + 1..M + N : r[i].what = w /\ r[i].i = i - M
    BY <1>1, <1>2, OfferedIs
  <2>2. /\ M + N <= QueueBytes
        /\ \A i \in 1..M : InFrame(q[i])
    BY <1>2 DEF Fits, Held
  <2> HIDE DEF r, M
  <2>3. ASSUME NEW i \in 1..M + N  PROVE InFrame(r[i])
    <3>1. CASE i \in 1..M
      BY <2>1, <2>2, <3>1
    <3>2. CASE i \notin 1..M
      <4>1. i \in M + 1..M + N /\ i - M \in 1..N
        BY <2>1, <3>2
      <4> HIDE DEF N
      <4>2. r[i].what = w /\ r[i].i \in 1..N
        BY <2>1, <4>1
      <4> QED  BY <4>2 DEF InFrame, N
    <3> QED  BY <3>1, <3>2
  <2> QED  BY <2>1, <2>2, <2>3 DEF Held, r
<1>3. CASE ~Fits(q, w)
  BY <1>3 DEF Offered
<1> QED  BY <1>2, <1>3

\* It follows what is there.
LEMMA OfferedChained ==
  ASSUME NEW q, Held(q), NEW w \in Whats, NEW l, InFrame(l), Chained(l, q), alive \in BOOLEAN, alive,
         \A i \in 1..Len(q) : q[i].mine
  PROVE  /\ Chained(l, Offered(q, w))
         /\ \A i \in 1..Len(Offered(q, w)) : Offered(q, w)[i].mine
<1> DEFINE M == Len(q)
           N == Size[w]
<1>1. q \in Seq(Cells)
  BY DEF Held
<1>2. CASE Fits(q, w)
  <2> DEFINE r == Offered(q, w)
  <2>1. /\ M \in Nat /\ N \in Nat \ {0} /\ Len(r) = M + N
        /\ \A i \in 1..M : r[i] = q[i]
        /\ \A i \in M + 1..M + N : r[i].what = w /\ r[i].i = i - M /\ r[i].mine
    BY <1>1, <1>2, OfferedIs
  <2>2. M \in Nat /\ N \in Nat \ {0}
    BY <2>1
  <2>4. /\ \A i \in 1..M : r[i] = q[i]
        /\ \A i \in M + 1..M + N : r[i].what = w /\ r[i].i = i - M /\ r[i].mine
    BY <2>1
  <2> HIDE DEF r, M, N
  <2>5. /\ \A i \in 1..M : Follows(Prior(l, q, i), q[i])
        /\ Whole(Prior(l, q, M + 1))
    BY DEF Chained, M
  <2>6. ASSUME NEW i \in 1..M + N  PROVE Follows(Prior(l, r, i), r[i]) /\ r[i].mine
    <3>1. CASE i <= M
      <4>1. i \in 1..M /\ (i # 1 => i - 1 \in 1..M)
        BY <2>2, <3>1
      <4>2. r[i] = q[i] /\ Prior(l, r, i) = Prior(l, q, i)
        BY <2>4, <4>1 DEF Prior
      <4> QED  BY <2>5, <4>1, <4>2 DEF M
    <3>2. CASE i = M + 1
      <4>1. i \in M + 1..M + N /\ i - M = 1 /\ M \in Nat /\ (i # 1 => i - 1 \in 1..M /\ i - 1 = M)
        BY <2>2, <3>2
      <4>2. r[i].what = w /\ r[i].i = 1 /\ r[i].mine
        BY <2>4, <3>2, <4>1
      <4>3. Prior(l, r, i) = Prior(l, q, M + 1)
        BY <2>4, <3>2, <4>1 DEF Prior
      <4> DEFINE c == Prior(l, q, M + 1)
      <4>4. c.i = Size[c.what] /\ c.what \in Whats
        <5>1. c.i = Size[c.what]
          BY <2>5 DEF Whole
        <5>2. CASE M = 0
          BY <5>1, <5>2 DEF Prior, InFrame
        <5>3. CASE M # 0
          <6>1. M + 1 # 1 /\ M + 1 - 1 = M /\ M \in 1..Len(q)
            BY <2>2, <5>3 DEF M
          <6> QED  BY <5>1, <6>1 DEF Prior, Held, InFrame
        <5> QED  BY <5>2, <5>3
      <4> HIDE DEF c
      <4>5. ~(c.i < Size[c.what])
        BY <4>4, SizesAre
      <4>6. Follows(c, r[i])
        BY <4>2, <4>5 DEF Follows
      <4> QED  BY <4>2, <4>3, <4>6 DEF c
    <3>3. CASE i > M + 1
      <4> DEFINE j == i - M
      <4>1. /\ i \in M + 1..M + N /\ i - 1 \in M + 1..M + N /\ i # 1 /\ (i - 1) - M = j - 1
            /\ j \in Int /\ j - 1 < N /\ (j - 1) + 1 = j
        BY <2>2, <3>3
      <4>2. /\ r[i].what = w /\ r[i].i = j /\ r[i].mine
            /\ r[i - 1].what = w /\ r[i - 1].i = j - 1
        BY <2>4, <4>1
      <4> HIDE DEF j
      <4>3. Prior(l, r, i) = r[i - 1]
        BY <4>1 DEF Prior
      <4> QED  BY <4>1, <4>2, <4>3 DEF Follows, N
    <3> QED  BY <2>2, <3>1, <3>2, <3>3
  <2>7. Whole(Prior(l, r, M + N + 1))
    <3>1. M + N \in M + 1..M + N /\ (M + N) - M = N /\ M + N + 1 # 1 /\ M + N + 1 - 1 = M + N
      BY <2>2
    <3>2. r[M + N].what = w /\ r[M + N].i = N
      BY <2>4, <3>1
    <3>3. Prior(l, r, M + N + 1) = r[M + N]
      BY <2>2, <3>1 DEF Prior
    <3> QED  BY <3>2, <3>3 DEF Whole, N
  <2> QED  BY <2>1, <2>6, <2>7 DEF Chained, r
<1>3. CASE ~Fits(q, w)
  BY <1>3 DEF Offered
<1> QED  BY <1>2, <1>3

\* A frame that is not a terminator takes nothing from what is ended.
LEMMA OfferedEnded ==
  ASSUME NEW q, Held(q), NEW w \in Whats, w # "end", NEW h, Ended(q, h), alive \in BOOLEAN
  PROVE  Ended(Offered(q, w), h)
<1> DEFINE r == Offered(q, w)
           M == Len(q)
           N == Size[w]
<1>0. q \in Seq(Cells)
  BY DEF Held
<1>1. CASE Fits(q, w)
  <2>1. /\ M \in Nat /\ N \in Nat \ {0} /\ Len(r) = M + N
        /\ \A i \in 1..M : r[i] = q[i]
    BY <1>0, <1>1, OfferedIs
  <2>2. \A i \in M + 1..M + N : r[i].what = w
    BY <1>0, <1>1, OfferedIs
  <2> HIDE DEF r
  <2>3. ASSUME NEW i \in 1..Len(r), i > M  PROVE r[i].what = w
    <3> HIDE DEF M, N
    <3>1. i \in M + 1..M + N
      BY <2>1, <2>3
    <3> QED  BY <2>2, <3>1
  <2>4. M \in Nat /\ \A i \in 1..M : r[i] = q[i]
    BY <2>1
  <2>5. ASSUME NEW n \in 1..Len(r), NEW d \in {"device", "roster"}, r[n].what = "end", r[n].i = 1
        PROVE  Covered(r, h, n, d)
    <3>1. n \in 1..M /\ n - 1 <= M
      BY <2>1, <2>3, <2>4, <2>5
    <3>2. Covered(q, h, n, d)
      BY <2>4, <2>5, <3>1 DEF Ended
    <3>3. \A i \in 1..n - 1 : r[i] = q[i]
      BY <2>4, <3>1
    <3> HIDE DEF M
    <3>4. \A j \in 1..n : NoEnd(q, j, n - 1) => NoEnd(r, j, n - 1)
      BY <2>4, <3>1, <3>3 DEF NoEnd
    <3> QED  BY <2>4, <3>1, <3>2, <3>3, <3>4 DEF Covered
  <2> QED  BY <2>5 DEF Ended, r
<1>2. CASE ~Fits(q, w)
  BY <1>2 DEF Offered
<1> QED  BY <1>1, <1>2

\* A whole dump behind what there is.
LEMMA DumpEnded ==
  ASSUME NEW q, Held(q), NEW h, Ended(q, h), alive \in BOOLEAN,
         Fits(q, "device"), Fits(Offered(q, "device"), "roster"),
         Fits(Offered(Offered(q, "device"), "roster"), "end")
  PROVE  Ended(Offered(Offered(Offered(q, "device"), "roster"), "end"), h)
<1> DEFINE p == Offered(q, "device")
           r == Offered(p, "roster")
           t == Offered(r, "end")
           M == Len(q)
           A == Size["device"]
           B == Size["roster"]
           C == Size["end"]
<1>0. "device" \in Whats /\ "roster" \in Whats /\ "end" \in Whats
  BY DEF Whats
<1>1. /\ Held(p) /\ Held(r)
      /\ Ended(p, h) /\ Ended(r, h)
  BY <1>0, OfferedHeld, OfferedEnded
<1>2. q \in Seq(Cells) /\ p \in Seq(Cells) /\ r \in Seq(Cells)
  BY <1>1 DEF Held
<1>3. A \in Nat \ {0} /\ B \in Nat \ {0} /\ C \in Nat \ {0} /\ M \in Nat
  BY <1>0, <1>2, SizesAre
<1>4. Fits(q, "device") /\ Fits(p, "roster") /\ Fits(r, "end")
  OBVIOUS
<1>5. /\ Len(p) = M + A
      /\ \A i \in M + 1..M + A : p[i].what = "device"
  <2>1. \A i \in M + 1..M + A : p[i].what = "device"
    BY <1>0, <1>2, <1>4, OfferedIs
  <2>2. Len(p) = M + A
    BY <1>0, <1>2, <1>4, OfferedIs
  <2> HIDE DEF p
  <2> QED  BY <2>1, <2>2
<1>6. /\ Len(r) = M + A + B
      /\ \A i \in 1..M + A : r[i] = p[i]
      /\ \A i \in M + A + 1..M + A + B : r[i].what = "roster"
  <2> HIDE DEF p
  <2>1. \A i \in Len(p) + 1..Len(p) + B : r[i].what = "roster"
    BY <1>0, <1>2, <1>4, OfferedIs
  <2>2. Len(r) = Len(p) + B /\ \A i \in 1..Len(p) : r[i] = p[i]
    BY <1>0, <1>2, <1>4, OfferedIs
  <2> HIDE DEF r
  <2> QED  BY <1>5, <2>1, <2>2
<1> DEFINE N == M + A + B
<1>7. /\ N \in Nat /\ Len(t) = N + C
      /\ \A i \in 1..N : t[i] = r[i]
      /\ \A i \in N + 1..N + C : t[i].what = "end" /\ t[i].i = i - N
  <2> HIDE DEF p, r
  <2>1. \A i \in Len(r) + 1..Len(r) + C : t[i].what = "end" /\ t[i].i = i - Len(r)
    BY <1>0, <1>2, <1>4, OfferedIs
  <2>2. Len(t) = Len(r) + C /\ \A i \in 1..Len(r) : t[i] = r[i]
    BY <1>0, <1>2, <1>4, OfferedIs
  <2>3. Len(r) = N /\ N \in Nat
    BY <1>3, <1>6
  <2> HIDE DEF t, N
  <2> QED  BY <2>1, <2>2, <2>3
<1> HIDE DEF p, r, t, A, B, C
<1>8. ASSUME NEW n \in 1..Len(t), NEW d \in {"device", "roster"}, t[n].what = "end", t[n].i = 1
      PROVE  Covered(t, h, n, d)
  <2>1. CASE n <= N
    <3> HIDE DEF N, M
    <3>1. n \in 1..N /\ \A i \in 1..n : t[i] = r[i]
      BY <1>7, <2>1
    <3>2. Covered(r, h, n, d)
      <4>1. r[n].what = "end" /\ r[n].i = 1 /\ n \in 1..Len(r)
        BY <1>6, <1>8, <3>1 DEF N
      <4> QED  BY <1>1, <4>1 DEF Ended
    <3>3. \A j \in 1..n : NoEnd(r, j, n - 1) => NoEnd(t, j, n - 1)
      BY <1>7, <3>1 DEF NoEnd
    <3> QED  BY <1>7, <3>1, <3>2, <3>3 DEF Covered
  <2>2. CASE n > N
    <3> HIDE DEF M
    <3>1. n = N + 1
      <4> HIDE DEF N
      <4>1. n \in N + 1..N + C
        BY <1>3, <1>7, <2>2
      <4>2. 1 = n - N
        BY <1>7, <1>8, <4>1
      <4> QED  BY <1>7, <4>1, <4>2
    <3>2. \A i \in M + 1..N : t[i].what # "end"
      <4> TAKE i \in M + 1..N
      <4>1. CASE i <= M + A
        <5>1. i \in M + 1..M + A /\ i \in 1..M + A /\ i \in 1..N
          BY <1>3, <4>1
        <5>2. t[i] = p[i]
          BY <1>6, <1>7, <5>1
        <5> HIDE DEF N
        <5> QED  BY <1>5, <5>1, <5>2
      <4>2. CASE ~(i <= M + A)
        <5>1. i \in M + A + 1..M + A + B /\ i \in 1..N
          BY <1>3, <4>2
        <5> HIDE DEF N
        <5> QED  BY <1>6, <1>7, <5>1
      <4> QED  BY <4>1, <4>2
    <3>3. t[M + 1].what = "device" /\ t[M + A + 1].what = "roster"
      <4>1. /\ M + 1 \in M + 1..M + A /\ M + 1 \in 1..M + A /\ M + 1 \in 1..N
            /\ M + A + 1 \in M + A + 1..M + A + B /\ M + A + 1 \in 1..N
        BY <1>3
      <4> HIDE DEF N
      <4> QED  BY <1>5, <1>6, <1>7, <4>1
    <3>4. /\ M + 1 \in 1..n - 1 /\ NoEnd(t, M + 1, n - 1)
          /\ M + A + 1 \in 1..n - 1 /\ NoEnd(t, M + A + 1, n - 1)
      <4>1. n - 1 = N /\ M + 1 \in 1..N /\ M + A + 1 \in 1..N /\ \A i \in M + A + 1..N : i \in M + 1..N
        BY <1>3, <3>1
      <4> HIDE DEF N
      <4> QED  BY <3>2, <4>1 DEF NoEnd
    <3> HIDE DEF N
    <3>5. CASE d = "device"
      BY <3>3, <3>4, <3>5 DEF Covered
    <3>6. CASE d = "roster"
      BY <3>3, <3>4, <3>6 DEF Covered
    <3> QED  BY <3>5, <3>6
  <2> HIDE DEF N, M
  <2>3. n \in Int /\ N \in Int
    BY <1>7
  <2> QED  BY <2>1, <2>2, <2>3
<1> QED  BY <1>8 DEF Ended, t, p, r

\* The buffer after each message that is offered.
LEMMA OffersIs ==
  ASSUME NEW q, Held(q), NEW r \in Seq(Whats), alive \in BOOLEAN
  PROVE  /\ Len(r) \in Nat
         /\ Offers(q, r)[0] = q
         /\ \A n \in 1..Len(r) : r[n] \in Whats /\ Offers(q, r)[n] = Offered(Offers(q, r)[n - 1], r[n])
         /\ \A n \in 0..Len(r) : Held(Offers(q, r)[n])
<1> DEFINE V == {x \in Seq(Cells) : Held(x)}
           N == Len(r)
           f == [x \in V \X (1..N) |-> Offered(x[1], r[x[2]])]
<1>1. N \in Nat /\ q \in V /\ \A n \in 1..N : r[n] \in Whats
  BY ElementOfSeq DEF Held
<1>2. \A x \in V, w \in Whats : Offered(x, w) \in V
  <2> SUFFICES ASSUME NEW x \in V, NEW w \in Whats  PROVE Offered(x, w) \in V
    OBVIOUS
  <2>1. Held(Offered(x, w))
    BY OfferedHeld
  <2>2. Offered(x, w) \in Seq(Cells)
    BY <2>1 DEF Held
  <2> QED  BY <2>1, <2>2
<1> HIDE DEF V, N
<1>3. f \in [V \X (1..N) -> V]
  <2> SUFFICES ASSUME NEW x \in V \X (1..N)  PROVE Offered(x[1], r[x[2]]) \in V
    OBVIOUS
  <2>1. x[1] \in V /\ r[x[2]] \in Whats
    BY <1>1
  <2> QED  BY <1>2, <2>1
<1>4. PICK g \in [0..N -> V] : g[0] = q /\ \A n \in 1..N : g[n] = f[<<g[n - 1], n>>]
  <2> HIDE DEF f
  <2>1. \E g : Recurs(g, N, V, q, f)
    BY <1>1, <1>3, Recursion
  <2> QED  BY <2>1 DEF Recurs
<1>5. g = [n \in 0..N |-> IF n = 0 THEN q ELSE Offered(g[n - 1], r[n])]
  <2>1. \A n \in 0..N : n # 0 => g[n] = Offered(g[n - 1], r[n])
    <3> TAKE n \in 0..N
    <3> HAVE n # 0
    <3>1. n \in 1..N /\ n - 1 \in 0..N
      BY <1>1
    <3>2. <<g[n - 1], n>> \in V \X (1..N)
      BY <1>4, <3>1
    <3> QED  BY <1>4, <3>1, <3>2
  <2> QED  BY <1>4, <2>1
<1> DEFINE h == Offers(q, r)
           S == {n \in 0..N : h[n] \in V}
<1>6. h = [n \in 0..N |-> IF n = 0 THEN q ELSE Offered(h[n - 1], r[n])]
  BY <1>5 DEF Offers, N
<1> HIDE DEF h
<1>7. h[0] = q /\ \A n \in 1..N : h[n] = Offered(h[n - 1], r[n])
  BY <1>1, <1>6
<1>8. \A n \in 0..N - 1 : n \in S => n + 1 \in S
  <2> SUFFICES ASSUME NEW n \in 0..N - 1, h[n] \in V  PROVE h[n + 1] \in V
    BY <1>1
  <2>1. n + 1 \in 1..N /\ (n + 1) - 1 = n
    BY <1>1
  <2> QED  BY <1>1, <1>2, <1>7, <2>1
<1>9. 0..N \subseteq S
  <2>1. 0 \in S
    BY <1>1, <1>7
  <2> HIDE DEF S
  <2> QED  BY <1>1, <1>8, <2>1, BoundedInduction
<1>10. \A n \in 0..N : Held(h[n])
  BY <1>9 DEF V
<1> QED  BY <1>1, <1>7, <1>10 DEF h, N

\* How many of the messages go into the buffer.
Queued(q, r) == IF Refused(q, r) = {} THEN Len(r) ELSE Min(Refused(q, r)) - 1

LEMMA QueuedIs ==
  ASSUME NEW q, Held(q), NEW r \in Seq(Whats), alive \in BOOLEAN
  PROVE  /\ Queued(q, r) \in 0..Len(r)
         /\ OfferedAll(q, r) = Offers(q, r)[Queued(q, r)]
         /\ \A i \in 1..Queued(q, r) : Fits(Offers(q, r)[i - 1], r[i])
<1> DEFINE R == Refused(q, r)
           n == Queued(q, r)
<1>1. Len(r) \in Nat
  OBVIOUS
<1>2. /\ R \in SUBSET Nat /\ R \subseteq 1..Len(r)
      /\ \A i \in 1..Len(r) : i \notin R => Fits(Offers(q, r)[i - 1], r[i])
  BY <1>1 DEF Refused
<1>3. n = IF R = {} THEN Len(r) ELSE Min(R) - 1
  BY DEF Queued
<1>4. OfferedAll(q, r) = Offers(q, r)[n]
  BY DEF OfferedAll, Queued
<1> HIDE DEF R, n
<1>5. n \in 0..Len(r) /\ \A i \in 1..n : i \in 1..Len(r) /\ i \notin R
  <2>1. CASE R = {}
    BY <1>1, <1>3, <2>1
  <2>2. CASE R # {}
    <3>1. Min(R) \in R /\ \A y \in R : Min(R) <= y
      BY <1>2, <2>2, MinIs
    <3> DEFINE k == Min(R)
    <3>2. k \in 1..Len(r) /\ n = k - 1 /\ \A y \in R : k <= y
      BY <1>2, <1>3, <2>2, <3>1
    <3> HIDE DEF k
    <3>3. n \in 0..Len(r)
      BY <1>1, <3>2
    <3>4. ASSUME NEW i \in 1..n  PROVE i \in 1..Len(r) /\ i \notin R
      <4>1. i \in 1..Len(r) /\ ~(k <= i)
        BY <1>1, <3>2
      <4> QED  BY <3>2, <4>1
    <3> QED  BY <3>3, <3>4
  <2> QED  BY <2>1, <2>2
<1> QED  BY <1>2, <1>4, <1>5 DEF n

LEMMA OfferedAllHeld ==
  ASSUME NEW q, Held(q), NEW r \in Seq(Whats), alive \in BOOLEAN
  PROVE  Held(OfferedAll(q, r))
  BY QueuedIs, OffersIs

LEMMA OfferedAllChained ==
  ASSUME NEW q, Held(q), NEW r \in Seq(Whats), NEW l, InFrame(l), Chained(l, q),
         alive \in BOOLEAN, alive, \A i \in 1..Len(q) : q[i].mine
  PROVE  /\ Chained(l, OfferedAll(q, r))
         /\ \A i \in 1..Len(OfferedAll(q, r)) : OfferedAll(q, r)[i].mine
<1> DEFINE h == Offers(q, r)
           N == Len(r)
           Good(x) == Chained(l, x) /\ \A i \in 1..Len(x) : x[i].mine
           S == {n \in 0..N : Good(h[n])}
<1>1. /\ N \in Nat /\ h[0] = q
      /\ \A n \in 1..N : r[n] \in Whats /\ h[n] = Offered(h[n - 1], r[n])
      /\ \A n \in 0..N : Held(h[n])
  BY OffersIs
<1> HIDE DEF h, N
<1>2. ASSUME NEW x, Held(x), Good(x), NEW w \in Whats  PROVE Good(Offered(x, w))
  BY <1>2, OfferedChained
<1>3. Good(h[0])
  BY <1>1
<1> HIDE DEF Good
<1>4. \A n \in 0..N - 1 : n \in S => n + 1 \in S
  <2> SUFFICES ASSUME NEW n \in 0..N - 1, Good(h[n])  PROVE Good(h[n + 1])
    BY <1>1
  <2>1. n + 1 \in 1..N /\ (n + 1) - 1 = n /\ n \in 0..N
    BY <1>1
  <2>2. h[n + 1] = Offered(h[n], r[n + 1]) /\ r[n + 1] \in Whats /\ Held(h[n])
    BY <1>1, <2>1
  <2> QED  BY <1>2, <2>2
<1>5. 0..N \subseteq S
  <2>1. 0 \in S
    BY <1>1, <1>3
  <2> HIDE DEF S
  <2> QED  BY <1>1, <1>4, <2>1, BoundedInduction
<1>6. Queued(q, r) \in 0..N /\ OfferedAll(q, r) = h[Queued(q, r)]
  BY QueuedIs DEF h, N
<1>7. Good(OfferedAll(q, r))
  BY <1>5, <1>6
<1> QED  BY <1>7 DEF Good

\* What an answer queues ends no more than there is.
LEMMA AnswerIs ==
  ASSUME NEW m \in DOMAIN Asks
  PROVE  /\ Answer(m) \in Seq(Whats)
         /\ Answer(m) \in {<<"device", "roster", "end">>, <<"status">>, <<>>}
<1>1. Asks[m] \in {"want", "beat", "bye"}
  BY TcpOK DEF TcpOK
<1>2. "device" \in Whats /\ "roster" \in Whats /\ "end" \in Whats /\ "status" \in Whats
  BY DEF Whats
<1>3. CASE Asks[m] = "want"
  <2>1. Answer(m) = <<"device", "roster", "end">>
    BY <1>3 DEF Answer
  <2> QED  BY <1>2, <2>1
<1>4. CASE Asks[m] = "beat"
  <2>1. Answer(m) = <<"status">>
    BY <1>4 DEF Answer
  <2> QED  BY <1>2, <2>1
<1>5. CASE Asks[m] = "bye"
  <2>1. Answer(m) = <<>>
    BY <1>5 DEF Answer
  <2> QED  BY <2>1
<1> QED  BY <1>1, <1>3, <1>4, <1>5

LEMMA AnswerEnded ==
  ASSUME NEW q, Held(q), NEW m \in DOMAIN Asks, NEW h, Ended(q, h), alive \in BOOLEAN
  PROVE  Ended(OfferedAll(q, Answer(m)), h)
<1> DEFINE r == Answer(m)
           g == Offers(q, r)
           n == Queued(q, r)
<1>1. r \in Seq(Whats) /\ r \in {<<"device", "roster", "end">>, <<"status">>, <<>>}
  BY AnswerIs
<1>w. "device" \in Whats /\ "roster" \in Whats /\ "end" \in Whats /\ "status" \in Whats
  BY DEF Whats
<1> HIDE DEF r
<1>2. /\ g[0] = q
      /\ \A i \in 1..Len(r) : g[i] = Offered(g[i - 1], r[i])
      /\ n \in 0..Len(r) /\ OfferedAll(q, r) = g[n]
      /\ \A i \in 1..n : Fits(g[i - 1], r[i])
      /\ \A i \in 0..Len(r) : Held(g[i])
  BY <1>1, OffersIs, QueuedIs
<1> HIDE DEF g, n
<1>3. CASE r = <<>>
  <2>1. n = 0
    BY <1>2, <1>3
  <2> QED  BY <1>2, <2>1 DEF r
<1>4. CASE r = <<"status">>
  <2>1. Len(r) = 1 /\ r[1] = "status" /\ 1 \in 1..Len(r) /\ 1 - 1 = 0
    BY <1>4
  <2>2. n = 0 \/ n = 1
    BY <1>2, <2>1
  <2>3. g[1] = Offered(q, "status")
    BY <1>2, <2>1
  <2>4. Ended(g[1], h)
    BY <1>w, <2>3, OfferedEnded
  <2> QED  BY <1>2, <2>2, <2>4 DEF r
<1>5. CASE r = <<"device", "roster", "end">>
  <2>1. /\ Len(r) = 3 /\ r[1] = "device" /\ r[2] = "roster" /\ r[3] = "end"
        /\ 1 \in 1..3 /\ 2 \in 1..3 /\ 3 \in 1..3 /\ 1 - 1 = 0 /\ 2 - 1 = 1 /\ 3 - 1 = 2
        /\ 1 \in 0..3
    BY <1>5
  <2>2. n = 0 \/ n = 1 \/ n = 2 \/ n = 3
    BY <1>2, <2>1
  <2>3. g[1] = Offered(q, "device") /\ Held(g[1])
    BY <1>2, <2>1
  <2>4. g[2] = Offered(g[1], "roster")
    BY <1>2, <2>1
  <2>5. g[3] = Offered(g[2], "end")
    BY <1>2, <2>1
  <2>6. Ended(g[1], h)
    BY <1>w, <2>3, OfferedEnded
  <2>7. Ended(g[2], h)
    BY <1>w, <2>3, <2>4, <2>6, OfferedEnded
  <2>8. CASE n = 3
    <3>1. Fits(q, "device") /\ Fits(g[1], "roster") /\ Fits(g[2], "end")
      BY <1>2, <2>1, <2>8
    <3>2. Ended(g[3], h)
      BY <2>3, <2>4, <2>5, <3>1, DumpEnded
    <3> QED  BY <1>2, <2>8, <3>2 DEF r
  <2> QED  BY <1>2, <2>2, <2>6, <2>7, <2>8 DEF r
<1> QED  BY <1>1, <1>3, <1>4, <1>5

\* Half a dump that is begun is whole by the k-th cell, or still being sent there.
LEMMA BegunIs ==
  ASSUME NEW q, Held(q), NEW l, Chained(l, q), NEW k \in 1..Len(q), NEW j \in 1..k
  PROVE  \/ \E i \in j..k : q[i].what = q[j].what /\ Whole(q[i])
         \/ q[k].what = q[j].what /\ ~Whole(q[k])
<1> DEFINE d == q[j].what
           R == {i \in j..k : q[i].what # d \/ Whole(q[i])}
<1>1. Len(q) \in Nat /\ k \in Nat /\ j \in Nat /\ j >= 1 /\ j <= k /\ k <= Len(q)
  BY DEF Held
<1>2. CASE R = {}
  <2>1. k \in j..k
    BY <1>1
  <2> QED  BY <1>2, <2>1
<1>3. CASE R # {}
  <2>1. PICK i \in R : \A m \in R : i <= m
    <3>1. R \in SUBSET Nat
      BY <1>1
    <3> HIDE DEF R
    <3> QED  BY <1>3, <3>1, Least
  <2>2. i \in j..k
    OBVIOUS
  <2>3. CASE i = j
    BY <2>3
  <2>4. CASE i # j
    <3>1. i - 1 \in j..k /\ i \in 1..Len(q) /\ i # 1 /\ i \in Int
      BY <1>1, <2>2, <2>4
    <3>2. i - 1 \notin R
      <4>1. ~(i <= i - 1)
        BY <3>1
      <4> HIDE DEF R
      <4> QED  BY <2>1, <4>1
    <3>3. q[i - 1].what = d /\ ~Whole(q[i - 1])
      BY <3>1, <3>2
    <3>4. Follows(q[i - 1], q[i])
      BY <3>1 DEF Chained, Prior
    <3>5. q[i - 1].i < Size[q[i - 1].what]
      <4>1. i - 1 \in 1..Len(q)
        BY <1>1, <3>1
      <4>2. InFrame(q[i - 1])
        BY <4>1 DEF Held
      <4>3. Size[q[i - 1].what] \in Nat
        BY <4>2, SizesAre DEF InFrame
      <4> QED  BY <3>3, <4>2, <4>3 DEF InFrame, Whole
    <3>6. q[i].what = d
      BY <3>3, <3>4, <3>5 DEF Follows
    <3> QED  BY <2>1, <2>2, <3>6
  <2> QED  BY <2>3, <2>4
<1> QED  BY <1>2, <1>3

\* What the client has of the dumps after the first k cells.
LEMMA HalvesAre ==
  ASSUME NEW q, Held(q), NEW k \in 1..Len(q), Received(SubSeq(q, 1, k))
  PROVE  /\ last' = [what |-> q[k].what, i |-> q[k].i]
         /\ torn' = (torn \/ \E i \in 1..k : ~q[i].mine \/ ~Follows(Prior(last, q, i), q[i]))
         /\ halves' \subseteq halves \cup {"device", "roster"}
         /\ \A d \in {"device", "roster"}, j \in 1..k :
              q[j].what = d /\ Whole(q[j]) /\ NoEnd(q, j, k) => d \in halves'
         /\ \A d \in {"device", "roster"} : d \in halves /\ NoEnd(q, 1, k) => d \in halves'
<1> DEFINE v == SubSeq(q, 1, k)
<1>1. /\ q \in Seq(Cells) /\ k \in Nat /\ k \in 1..k
      /\ v \in Seq(Cells) /\ Len(v) = k /\ \A i \in 1..k : v[i] = q[i]
  <2>1. q \in Seq(Cells) /\ Len(q) \in Nat
    BY DEF Held
  <2>2. k \in 0..Len(q) /\ k \in Nat /\ k \in 1..k
    BY <2>1
  <2> QED  BY <2>1, <2>2, Parts
<1>2. DOMAIN v = 1..k
  BY <1>1
<1> HIDE DEF v
<1> DEFINE whole == {i \in 1..k : Whole(q[i])}
           ends == {i \in whole : q[i].what = "end"}
           from == IF ends = {} THEN 1 ELSE Max(ends)
<1>3. last' = [what |-> q[k].what, i |-> q[k].i]
  BY <1>1 DEF Received, v
<1>4. torn' = (torn \/ \E i \in 1..k : ~q[i].mine \/ ~Follows(Prior(last, q, i), q[i]))
  <2>1. torn' = (torn \/ \E i \in DOMAIN v : ~v[i].mine \/ ~Follows(IF i = 1 THEN last ELSE v[i - 1], v[i]))
    BY DEF Received, v
  <2>2. \A i \in 1..k : v[i] = q[i] /\ (IF i = 1 THEN last ELSE v[i - 1]) = Prior(last, q, i)
    <3> TAKE i \in 1..k
    <3>1. i = 1 \/ i - 1 \in 1..k
      BY <1>1
    <3> QED  BY <1>1, <3>1 DEF Prior
  <2> DEFINE X == \E i \in DOMAIN v : ~v[i].mine \/ ~Follows(IF i = 1 THEN last ELSE v[i - 1], v[i])
             Y == \E i \in 1..k : ~q[i].mine \/ ~Follows(Prior(last, q, i), q[i])
  <2>3. X = Y
    <3>1. X => Y
      <4> SUFFICES ASSUME NEW i \in DOMAIN v, ~v[i].mine \/ ~Follows(IF i = 1 THEN last ELSE v[i - 1], v[i])
                   PROVE  Y
        OBVIOUS
      <4>1. i \in 1..k
        BY <1>2
      <4>2. ~q[i].mine \/ ~Follows(Prior(last, q, i), q[i])
        BY <2>2, <4>1
      <4> QED  BY Zenon, <4>1, <4>2
    <3>2. Y => X
      <4> SUFFICES ASSUME NEW i \in 1..k, ~q[i].mine \/ ~Follows(Prior(last, q, i), q[i])
                   PROVE  X
        OBVIOUS
      <4> QED  BY Zenon, <1>2, <2>2
    <3> QED  BY <3>1, <3>2
  <2> HIDE DEF X, Y
  <2> QED  BY <2>1, <2>3 DEF X, Y
<1>5. halves' = (IF ends = {} THEN halves ELSE {})
                  \cup ({q[i].what : i \in {j \in whole : j >= from}} \cap {"device", "roster"})
  <2> DEFINE W == {i \in DOMAIN v : v[i].i = Size[v[i].what]}
             E == {i \in W : v[i].what = "end"}
             F == IF E = {} THEN 1 ELSE Max(E)
  <2>1. halves' = (IF E = {} THEN halves ELSE {})
                    \cup ({v[i].what : i \in {j \in W : j >= F}} \cap {"device", "roster"})
    BY DEF Received, v
  <2>2. W = whole
    BY <1>1, <1>2 DEF Whole
  <2>3. E = ends
    BY <1>1, <2>2
  <2>4. \A G \in SUBSET (1..k) : {v[i].what : i \in G} = {q[i].what : i \in G}
    BY <1>1
  <2> DEFINE G == {j \in W : j >= F}
  <2>5. {v[i].what : i \in G} = {q[i].what : i \in G}
    <3>1. G \in SUBSET (1..k)
      BY <2>2
    <3> HIDE DEF G
    <3> QED  BY <2>4, <3>1
  <2> QED  BY <2>1, <2>2, <2>3, <2>5
<1>6. ends # {} => from \in ends
  <2>1. ends \in SUBSET (0..k)
    BY <1>1
  <2> HIDE DEF ends
  <2> QED  BY <1>1, <2>1, MaxIs
<1>7. ASSUME NEW d \in {"device", "roster"}, NEW j \in 1..k, q[j].what = d, Whole(q[j]), NoEnd(q, j, k)
      PROVE  d \in halves'
  <2>1. j \in whole
    BY <1>7
  <2>2. j >= from
    <3>1. CASE ends = {}
      BY <1>1, <3>1
    <3>2. CASE ends # {}
      <4> DEFINE f == from
      <4>1. f \in 1..k /\ q[f].what = "end"
        BY <1>6, <3>2
      <4> HIDE DEF f
      <4>2. ~(f \in j..k)
        BY <1>7, <4>1 DEF NoEnd
      <4>3. f <= j
        BY <1>1, <4>1, <4>2
      <4> QED  BY <4>3 DEF f
    <3> QED  BY <3>1, <3>2
  <2> QED  BY <1>5, <1>7, <2>1, <2>2
<1>8. ASSUME NEW d \in {"device", "roster"}, d \in halves, NoEnd(q, 1, k)  PROVE d \in halves'
  <2>1. ends = {}
    BY <1>8 DEF NoEnd
  <2> QED  BY <1>5, <1>8, <2>1
<1>9. halves' \subseteq halves \cup {"device", "roster"}
  BY <1>5
<1> QED  BY <1>3, <1>4, <1>7, <1>8, <1>9

\* The socket takes some: the client gets them in their place, and the rest may
\* follow.
LEMMA Sent ==
  ASSUME NEW q, Held(q), NEW k \in 1..Len(q), Received(SubSeq(q, 1, k)),
         Sendable(q, last, halves), torn = FALSE
  PROVE  /\ Held(Unsent(q, k)) /\ Len(Unsent(q, k)) = Len(q) - k
         /\ Sendable(Unsent(q, k), last', halves')
         /\ InFrame(last') /\ torn' = FALSE
<1> DEFINE r == Unsent(q, k)
           N == Len(q)
<1>1. /\ q \in Seq(Cells) /\ N \in Nat /\ N <= QueueBytes
      /\ k \in Nat /\ k \in 1..N /\ k \in 0..N /\ k \in 1..k
      /\ QueueBytes \in Nat
  BY SizesAre DEF Held
<1>2. /\ r \in Seq(Cells) /\ Len(r) = N - k /\ \A i \in 1..N - k : r[i] = q[k + i]
  BY <1>1, Parts DEF Unsent
<1>3. /\ last'.what = q[k].what /\ last'.i = q[k].i
      /\ last' = [what |-> q[k].what, i |-> q[k].i]
  BY HalvesAre
<1> HIDE DEF r, N
<1>4. \A i \in 1..N : InFrame(q[i]) /\ q[i].mine /\ Follows(Prior(last, q, i), q[i])
  BY DEF Held, Sendable, Chained, N
<1>5. torn' = FALSE
  <2>1. \A i \in 1..k : i \in 1..N
    BY <1>1
  <2> QED  BY <1>4, <2>1, HalvesAre
<1>6. InFrame(last')
  BY <1>1, <1>3, <1>4 DEF InFrame
<1>7. \A c : Follows(last', c) <=> Follows(q[k], c)
  BY <1>3 DEF Follows
<1>8. ASSUME NEW i \in 1..N - k
      PROVE  InFrame(r[i]) /\ r[i].mine /\ Follows(Prior(last', r, i), r[i])
  <2>1. k + i \in 1..N /\ k + i # 1 /\ r[i] = q[k + i] /\ k + i - 1 = k + (i - 1)
    BY <1>1, <1>2
  <2>2. Follows(q[k + (i - 1)], r[i])
    <3>1. Follows(Prior(last, q, k + i), q[k + i])
      BY <1>4, <2>1
    <3> QED  BY <2>1, <3>1 DEF Prior
  <2>3. CASE i = 1
    <3>1. k + (i - 1) = k
      BY <1>1, <2>3
    <3> QED  BY <1>4, <1>7, <2>1, <2>2, <2>3, <3>1 DEF Prior
  <2>4. CASE i # 1
    <3>1. i - 1 \in 1..N - k
      BY <1>1, <2>4
    <3>2. r[i - 1] = q[k + (i - 1)]
      BY <1>2, <3>1
    <3> QED  BY <1>4, <2>1, <2>2, <2>4, <3>2 DEF Prior
  <2> QED  BY <2>3, <2>4
<1>9. Whole(Prior(last', r, (N - k) + 1))
  <2>1. Whole(q[N])
    <3>1. N + 1 # 1 /\ N + 1 - 1 = N
      BY <1>1
    <3> QED  BY <3>1 DEF Sendable, Chained, Prior, N
  <2>2. CASE k = N
    <3>1. (N - k) + 1 = 1
      BY <1>1, <2>2
    <3> QED  BY <1>3, <2>1, <2>2, <3>1 DEF Prior, Whole
  <2>3. CASE k # N
    <3>1. /\ (N - k) + 1 # 1 /\ ((N - k) + 1) - 1 = N - k
          /\ N - k \in 1..N - k /\ k + (N - k) = N
      BY <1>1, <2>3
    <3>2. r[N - k] = q[N]
      BY <1>2, <3>1
    <3> QED  BY <2>1, <3>1, <3>2 DEF Prior
  <2> QED  BY <2>2, <2>3
<1>10. ASSUME NEW n \in 1..N - k, NEW d \in {"device", "roster"}, r[n].what = "end", r[n].i = 1
       PROVE  Covered(r, halves', n, d)
  <2> DEFINE m == k + n
  <2>1. /\ m \in 1..N /\ m - 1 = k + (n - 1) /\ m \in Int /\ n \in Int
        /\ k + 1 \in 1..N /\ k <= m - 1
    BY <1>1
  <2>2. q[m].what = "end" /\ q[m].i = 1
    BY <1>2, <1>10
  <2>3. ASSUME NEW j \in 1..n, NoEnd(q, k + j, m - 1)  PROVE NoEnd(r, j, n - 1)
    <3> SUFFICES ASSUME NEW i \in j..n - 1  PROVE r[i].what # "end"
      BY DEF NoEnd
    <3>1. i \in 1..N - k /\ k + i \in k + j..m - 1
      BY <1>1, <2>1
    <3> HIDE DEF m
    <3> QED  BY <1>2, <2>3, <3>1 DEF NoEnd
  <2>4. \A i, j \in Nat : i <= j /\ NoEnd(q, i, m - 1) => NoEnd(q, j, m - 1)
    <3> HIDE DEF m
    <3> QED  BY <2>1 DEF NoEnd
  <2>5. \A i \in Nat : NoEnd(q, i, m - 1) => NoEnd(q, i, k)
    <3> HIDE DEF m
    <3> TAKE i \in Nat
    <3>1. \A j \in i..k : j \in i..m - 1
      BY <1>1, <2>1
    <3> QED  BY <3>1 DEF NoEnd
  <2> HIDE DEF m
  <2>6. Covered(q, halves, m, d)
    BY <2>1, <2>2 DEF Sendable, Ended, N
  <2>7. 1 \in 1..n /\ k + 1 \in Nat /\ 1 \in Nat /\ 1 <= k + 1 /\ k + 1 <= k + n
    BY <1>1
  <2>8. CASE d \in halves /\ NoEnd(q, 1, m - 1)
    <3>1. d \in halves'
      BY <2>5, <2>7, <2>8, HalvesAre
    <3>2. NoEnd(r, 1, n - 1)
      BY <2>3, <2>4, <2>7, <2>8
    <3> QED  BY <3>1, <3>2 DEF Covered
  <2>9. ASSUME NEW j \in 1..m - 1, q[j].what = d, NoEnd(q, j, m - 1)
        PROVE  Covered(r, halves', n, d)
    <3>1. CASE j > k
      <4> DEFINE i == j - k
      <4>1. i \in 1..n - 1 /\ i \in 1..n /\ j = k + i /\ i \in 1..N - k
        BY <1>1, <2>1, <3>1
      <4> HIDE DEF i
      <4>2. r[i].what = d /\ NoEnd(r, i, n - 1)
        BY <1>2, <2>3, <2>9, <4>1
      <4> QED  BY <4>1, <4>2 DEF Covered
    <3>2. CASE ~(j > k)
      <4>1. j \in 1..k /\ j \in Nat /\ j <= k + 1
        BY <1>1, <2>1, <3>2
      <4>2. NoEnd(r, 1, n - 1)
        BY <2>3, <2>4, <2>7, <2>9, <4>1
      <4>3. CASE \E i \in j..k : q[i].what = q[j].what /\ Whole(q[i])
        <5>1. PICK i \in j..k : q[i].what = d /\ Whole(q[i])
          BY <2>9, <4>3
        <5>2. i \in 1..k /\ i \in Nat /\ j <= i
          BY <4>1
        <5>3. NoEnd(q, i, k)
          BY <2>4, <2>5, <2>9, <4>1, <5>2
        <5>4. d \in halves'
          BY <5>1, <5>2, <5>3, HalvesAre
        <5> QED  BY <4>2, <5>4 DEF Covered
      <4>4. CASE q[k].what = q[j].what /\ ~Whole(q[k])
        <5>1. q[k].i < Size[q[k].what]
          <6>1. InFrame(q[k])
            BY <1>1, <1>4
          <6>2. Size[q[k].what] \in Nat
            BY <6>1, SizesAre DEF InFrame
          <6> QED  BY <4>4, <6>1, <6>2 DEF InFrame, Whole
        <5>2. Follows(q[k], r[1])
          <6>1. 1 \in 1..N - k
            BY <1>1
          <6>2. Follows(Prior(last', r, 1), r[1])
            BY <1>8, <6>1
          <6> QED  BY <1>7, <6>2 DEF Prior
        <5>3. r[1].what = d
          BY <2>9, <4>4, <5>1, <5>2 DEF Follows
        <5>4. n # 1
          BY <1>10, <5>3
        <5>5. 1 \in 1..n - 1
          BY <1>1, <5>4
        <5> QED  BY <4>2, <5>3, <5>5 DEF Covered
      <4>5. Chained(last, q)
        BY DEF Sendable
      <4> QED  BY <4>1, <4>3, <4>4, <4>5, BegunIs
    <3> QED  BY <3>1, <3>2
  <2> QED  BY <2>6, <2>8, <2>9 DEF Covered
<1>11. Held(r) /\ Sendable(r, last', halves')
  <2>1. N - k <= QueueBytes
    BY <1>1
  <2>2. Held(r)
    BY <1>2, <1>8, <2>1 DEF Held
  <2>3. Chained(last', r)
    BY <1>2, <1>8, <1>9 DEF Chained
  <2>4. Ended(r, halves')
    BY <1>2, <1>10 DEF Ended
  <2> QED  BY <1>2, <1>8, <2>2, <2>3, <2>4 DEF Sendable
<1> QED  BY <1>2, <1>5, <1>6, <1>11 DEF r, N

\* Said in one way or the other.
LEMMA DumpIs ==
  ASSUME Held(out), alive => Ended(out, halves)
  PROVE  DumpWhole
<1>1. Len(out) \in Nat /\ DOMAIN out = 1..Len(out)
  BY DEF Held
<1> SUFFICES ASSUME alive, NEW n \in 1..Len(out), out[n].what = "end", out[n].i = 1,
                    NEW d \in {"device", "roster"}
             PROVE  LET ends == {j \in 1..n - 1 : out[j].what = "end"}
                        from == IF ends = {} THEN 1 ELSE Max(ends) + 1
                    IN d \in {out[j].what : j \in from..n - 1} \cup (IF ends = {} THEN halves ELSE {})
  BY <1>1 DEF DumpWhole
<1> DEFINE ends == {j \in 1..n - 1 : out[j].what = "end"}
           from == IF ends = {} THEN 1 ELSE Max(ends) + 1
<1>2. ends # {} => Max(ends) \in ends
  <2>1. ends \in SUBSET (0..n - 1) /\ n - 1 \in Nat
    BY <1>1
  <2> HIDE DEF ends
  <2> QED  BY <2>1, MaxIs
<1>3. Covered(out, halves, n, d)
  BY <1>1 DEF Ended
<1>4. CASE d \in halves /\ NoEnd(out, 1, n - 1)
  <2>1. ends = {}
    BY <1>4 DEF NoEnd
  <2> QED  BY <1>4, <2>1
<1>5. ASSUME NEW j \in 1..n - 1, out[j].what = d, NoEnd(out, j, n - 1)
      PROVE  j \in from..n - 1
  <2>1. CASE ends = {}
    BY <2>1
  <2>2. CASE ends # {}
    <3> DEFINE e == Max(ends)
    <3>1. e \in 1..n - 1 /\ out[e].what = "end" /\ from = e + 1
      BY <1>2, <2>2
    <3> HIDE DEF e
    <3>2. ~(e \in j..n - 1)
      BY <1>5, <3>1 DEF NoEnd
    <3>3. j >= e + 1
      BY <1>1, <3>1, <3>2
    <3> QED  BY <1>1, <3>1, <3>3
  <2> QED  BY <2>1, <2>2
<1> QED  BY <1>3, <1>4, <1>5 DEF Covered

\* What is nobody's is kept.
LEMMA DisownedIs ==
  ASSUME NEW q, Held(q)
  PROVE  Held(Disowned(q))
<1> DEFINE r == Disowned(q)
<1>1. q \in Seq(Cells) /\ Len(q) \in Nat /\ DOMAIN q = 1..Len(q)
  BY DEF Held
<1> DEFINE no == FALSE
<1>0. no \in BOOLEAN
  OBVIOUS
<1>2. r = [i \in 1..Len(q) |-> [q[i] EXCEPT !.mine = no]]
  BY <1>1 DEF Disowned
<1> HIDE DEF no
<1>3. ASSUME NEW c \in Cells
      PROVE  /\ [c EXCEPT !.mine = no] \in Cells
             /\ [c EXCEPT !.mine = no].what = c.what /\ [c EXCEPT !.mine = no].i = c.i
  <2> DEFINE X == 1..Max({Size[v] : v \in Whats})
  <2>1. Cells = {[what |-> w, i |-> i, mine |-> m] : w \in Whats, i \in X, m \in BOOLEAN}
    BY DEF Cells
  <2> HIDE DEF X
  <2>2. PICK w \in Whats, i \in X, m \in BOOLEAN : c = [what |-> w, i |-> i, mine |-> m]
    BY <2>1
  <2>3. [c EXCEPT !.mine = no] = [what |-> w, i |-> i, mine |-> no]
    BY <1>0, <2>2
  <2>4. [what |-> w, i |-> i, mine |-> no] \in Cells
    BY <1>0, <2>1
  <2> QED  BY <2>2, <2>3, <2>4
<1> HIDE DEF r
<1>4. \A i \in 1..Len(q) : q[i] \in Cells /\ InFrame(q[i])
  BY <1>1, ElementOfSeq DEF Held
<1>5. ASSUME NEW i \in 1..Len(q)  PROVE r[i] \in Cells /\ InFrame(r[i])
  <2>1. q[i] \in Cells /\ r[i] = [q[i] EXCEPT !.mine = no]
    BY <1>2, <1>4
  <2> QED  BY <1>3, <1>4, <2>1 DEF InFrame
<1>6. r \in [1..Len(q) -> Cells]
  BY <1>2, <1>5
<1>7. r \in Seq(Cells) /\ Len(r) = Len(q)
  BY <1>1, <1>6
<1> QED  BY <1>5, <1>7 DEF Held, r

\* What goes out, between any two steps.
Telling ==
  /\ ~torn
  /\ InFrame(last) /\ last \in [what: Whats, i: Nat]
  /\ Held(out)
  /\ alive => Sendable(out, last, halves)

Queue ==
  /\ at \in 0..QueueBytes - 1
  /\ halves \subseteq {"device", "roster"}
  /\ torn \in BOOLEAN
  /\ Telling

LEMMA DrainIs ==
  ASSUME Queue, alive \in BOOLEAN, connected \in BOOLEAN, alive => connected,
         NEW q, Held(q), alive => Sendable(q, last, halves), NEW known \in BOOLEAN,
         Drain(q, known)
  PROVE  /\ Queue' /\ asked' \in BOOLEAN /\ connected' \in BOOLEAN /\ alive' = alive
         /\ alive' => connected'
         /\ connected' => connected
<1>q. QueueBytes \in Nat \ {0}
  BY SizesAre
<1>1. CASE out' = q /\ asked' = known /\ UNCHANGED <<at, told, connected, alive>>
  BY <1>1 DEF Queue, Telling, told
<1>2. ASSUME connected, q # <<>>, alive, NEW k \in 1..Len(q),
             out' = Unsent(q, k), at' = AtAfter(Unsent(q, k), at + k),
             Received(SubSeq(q, 1, k)), asked' = known, UNCHANGED <<connected, alive>>
      PROVE  /\ Queue' /\ asked' \in BOOLEAN /\ connected' \in BOOLEAN /\ alive' = alive
             /\ alive' => connected'
             /\ connected' => connected
  <2>1. torn = FALSE /\ Sendable(q, last, halves)
    BY <1>2 DEF Queue, Telling
  <2>2. Held(out') /\ Sendable(out', last', halves') /\ InFrame(last') /\ torn' = FALSE
    BY <1>2, <2>1, Sent
  <2>3. at' \in 0..QueueBytes - 1
    <3>1. k \in Nat /\ at \in Nat
      BY <1>q DEF Held, Queue
    <3> QED  BY <1>q, <1>2, <3>1 DEF AtAfter
  <2>4. last' = [what |-> q[k].what, i |-> q[k].i] /\ halves' \subseteq halves \cup {"device", "roster"}
    BY <1>2, HalvesAre
  <2>5. last' \in [what: Whats, i: Nat]
    <3>1. last'.what \in Whats /\ last'.i \in 1..Size[last'.what]
      BY <2>2 DEF InFrame
    <3> QED  BY <2>4, <3>1
  <2>6. halves' \subseteq {"device", "roster"}
    BY <2>4 DEF Queue
  <2>7. Queue'
    BY <2>2, <2>3, <2>5, <2>6 DEF Queue, Telling
  <2> QED  BY <1>2, <2>7
<1>3. CASE /\ connected /\ q # <<>> /\ ~alive
           /\ connected' = FALSE /\ asked' = FALSE
           /\ out' = Disowned(q)
           /\ UNCHANGED <<at, told, alive>>
  <2>1. Held(out')
    BY <1>3, DisownedIs
  <2> QED  BY <1>3, <2>1 DEF Queue, Telling, told
<1> QED  BY <1>1, <1>2, <1>3 DEF Drain

\* One frame more, and what there is is pushed out.
LEMMA OfferedSendable ==
  ASSUME Queue, alive \in BOOLEAN, NEW w \in Whats, w # "end"
  PROVE  /\ Held(Offered(out, w))
         /\ alive => Sendable(Offered(out, w), last, halves)
<1>1. Held(out) /\ InFrame(last)
  BY DEF Queue, Telling
<1>2. Held(Offered(out, w))
  BY <1>1, OfferedHeld
<1>3. ASSUME alive  PROVE Sendable(Offered(out, w), last, halves)
  <2>1. Chained(last, out) /\ Ended(out, halves) /\ \A i \in 1..Len(out) : out[i].mine
    BY <1>3 DEF Queue, Telling, Sendable
  <2>2. Ended(Offered(out, w), halves)
    BY <1>1, <2>1, OfferedEnded
  <2>3. Chained(last, Offered(out, w)) /\ \A i \in 1..Len(Offered(out, w)) : Offered(out, w)[i].mine
    BY <1>1, <1>3, <2>1, OfferedChained
  <2> QED  BY <2>2, <2>3 DEF Sendable
<1> QED  BY <1>2, <1>3

LEMMA AnswerSendable ==
  ASSUME Queue, alive \in BOOLEAN, NEW m \in DOMAIN Asks
  PROVE  /\ Held(OfferedAll(out, Answer(m)))
         /\ alive => Sendable(OfferedAll(out, Answer(m)), last, halves)
<1>1. Held(out) /\ InFrame(last)
  BY DEF Queue, Telling
<1>0. Answer(m) \in Seq(Whats)
  BY AnswerIs
<1>2. Held(OfferedAll(out, Answer(m)))
  BY <1>0, <1>1, OfferedAllHeld
<1>3. ASSUME alive  PROVE Sendable(OfferedAll(out, Answer(m)), last, halves)
  <2>1. Chained(last, out) /\ Ended(out, halves) /\ \A i \in 1..Len(out) : out[i].mine
    BY <1>3 DEF Queue, Telling, Sendable
  <2>2. Ended(OfferedAll(out, Answer(m)), halves)
    BY <1>1, <2>1, AnswerEnded
  <2> DEFINE r == Answer(m)
             t == OfferedAll(out, r)
  <2>3. r \in Seq(Whats)
    BY <1>0
  <2> HIDE DEF r
  <2>4. Chained(last, t) /\ \A i \in 1..Len(t) : t[i].mine
    BY <1>1, <1>3, <2>1, <2>3, OfferedAllChained
  <2> QED  BY <2>2, <2>4 DEF Sendable, r
<1> QED  BY <1>2, <1>3

-----------------------------------------------------------------------------
(* The invariant: the reader, given what was read and what is on the way, will *)
(* have said what its client is still to be answered, and end between frames.  *)
Coming == chunk \o wire

Hearing ==
  /\ ~astray
  /\ alive => connected
  /\ step = "out" => chunk = <<>>
  /\ chunk # <<>> => connected
  /\ connected => Said(reader, Coming) \in Seq(DOMAIN Asks)
  /\ alive => Said(reader, Coming) = expect /\ AtRest(After(reader, Coming))

IInv == TypeOK /\ Telling /\ Hearing

\* What is in the types.
LEMMA Types ==
  ASSUME IInv
  PROVE  /\ Queue /\ Len(out) <= QueueBytes
         /\ wire \in Seq(Byte) /\ chunk \in Seq(Byte) /\ Coming \in Seq(Byte)
         /\ reader \in Reader /\ Chunk \in Nat \ {0}
         /\ connected \in BOOLEAN /\ alive \in BOOLEAN /\ asked \in BOOLEAN
  BY SizesAre, ConcatProperties DEF IInv, TypeOK, Queue, Telling, Coming

\* Types follow from what goes out and the rest.
LEMMA TypeAgain ==
  ASSUME Queue', listening' \in BOOLEAN, alive' \in BOOLEAN, connected' \in BOOLEAN, asked' \in BOOLEAN,
         wire' \in Seq(Byte), chunk' \in Seq(Byte), Len(chunk') < Chunk, expect' \in Seq(DOMAIN Asks),
         reader' \in Reader, step' \in {"out", "read", "last"}, astray' \in BOOLEAN
  PROVE  TypeOK' /\ Telling'
  BY DEF Queue, Telling, Held, TypeOK

\* A sequence is of a kind when its parts are.
LEMMA PartsOf ==
  ASSUME NEW V, NEW W, NEW a \in Seq(V), NEW b \in Seq(V), a \o b \in Seq(W)
  PROVE  a \in Seq(W) /\ b \in Seq(W)
<1> DEFINE r == a \o b
<1>1. /\ Len(a) \in Nat /\ Len(b) \in Nat /\ Len(r) = Len(a) + Len(b)
      /\ \A i \in 1..Len(a) : r[i] = a[i]
      /\ \A i \in 1..Len(b) : r[Len(a) + i] = b[i]
  BY Joined
<1>2. \A i \in 1..Len(r) : r[i] \in W
  BY ElementOfSeq
<1>3. a \in [1..Len(a) -> V] /\ b \in [1..Len(b) -> V]
  OBVIOUS
<1> HIDE DEF r
<1>4. ASSUME NEW i \in 1..Len(a)  PROVE a[i] \in W
  <2>1. i \in 1..Len(r)
    BY <1>1
  <2> QED  BY <1>1, <1>2, <2>1
<1>5. ASSUME NEW i \in 1..Len(b)  PROVE b[i] \in W
  <2>1. Len(a) + i \in 1..Len(r)
    BY <1>1
  <2> QED  BY <1>1, <1>2, <2>1
<1>6. a \in [1..Len(a) -> W] /\ b \in [1..Len(b) -> W]
  BY <1>3, <1>4, <1>5
<1> QED  BY <1>1, <1>6

LEMMA SaidSeq ==
  ASSUME NEW s \in Reader, NEW u \in Seq(Byte)
  PROVE  Said(s, u) \in Seq(Seq(Byte)) /\ Said(s, <<>>) = <<>> /\ After(s, <<>>) = s
<1>1. Len(u) \in 0..Len(u) /\ Len(<<>>) = 0 /\ <<>> \in Seq(Byte)
  OBVIOUS
<1> QED  BY <1>1, SaidIs, ThroughIs DEF Said, After

LEMMA InitIs ==
  Init => IInv
<1> SUFFICES ASSUME Init  PROVE IInv
  OBVIOUS
<1>0. /\ QueueBytes \in Nat \ {0} /\ Chunk \in Nat \ {0} /\ Size["end"] \in Nat \ {0}
      /\ Fresh \in Reader /\ "end" \in Whats
  BY SizesAre, Wide DEF Fresh, Reader, Stages, Whats
<1>1. Held(out) /\ out = <<>>
  BY <1>0 DEF Init, Held
<1>2. InFrame(last) /\ last \in [what: Whats, i: Nat]
  BY <1>0 DEF Init, Boundary, InFrame
<1>3. 0 \in 0..QueueBytes - 1
  BY <1>0
<1>4. TypeOK
  <2>1. <<>> \in Seq(Byte) /\ <<>> \in Seq(DOMAIN Asks) /\ <<>> \in Seq(Cells) /\ Len(<<>>) = 0
    OBVIOUS
  <2>2. /\ wire \in Seq(Byte) /\ chunk \in Seq(Byte) /\ Len(chunk) < Chunk /\ expect \in Seq(DOMAIN Asks)
        /\ out \in Seq(Cells) /\ Len(out) <= QueueBytes
    BY <1>0, <2>1 DEF Init
  <2>3. at \in 0..QueueBytes - 1 /\ halves \subseteq {"device", "roster"} /\ reader \in Reader
        /\ step \in {"out", "read", "last"}
    BY <1>0, <1>3 DEF Init
  <2> QED  BY <1>2, <2>2, <2>3 DEF Init, TypeOK
<1> QED  BY <1>1, <1>2, <1>4 DEF Init, IInv, Telling, Hearing

-----------------------------------------------------------------------------
(* The steps of the client.                                                *)

LEMMA WriteKeeps ==
  ASSUME IInv, NEW m \in DOMAIN Asks, Write(m)
  PROVE  IInv'
<1>1. /\ connected /\ alive
      /\ wire' = wire \o Framed(m) /\ expect' = Append(expect, m)
      /\ UNCHANGED <<listening, alive, session, reader, chunk, step, out, at, told, astray>>
  BY DEF Write
<1>2. m \in Seq(Byte) /\ Len(m) \in 1..MaxFrame
  BY TcpOK DEF TcpOK
<1>3. /\ wire \in Seq(Byte) /\ chunk \in Seq(Byte) /\ Coming \in Seq(Byte) /\ reader \in Reader
      /\ expect \in Seq(DOMAIN Asks)
      /\ Said(reader, Coming) = expect /\ AtRest(After(reader, Coming))
  BY <1>1, Types DEF IInv, TypeOK, Hearing
<1> DEFINE e == After(reader, Coming)
           f == Framed(m)
<1>4. e \in Reader
  BY <1>3, Split
<1>5. f \in Seq(Byte) /\ AtRest(After(e, f)) /\ Said(e, f) = <<m>>
  BY <1>2, <1>3, <1>4, FrameIsRead
<1> HIDE DEF f
<1>6. Coming' = Coming \o f
  <2>1. (chunk \o wire) \o f = chunk \o (wire \o f)
    BY <1>3, <1>5, ConcatAssociative
  <2> QED  BY <1>1, <2>1 DEF Coming, f
<1>7. After(reader, Coming') = After(e, f) /\ Said(reader, Coming') = Said(reader, Coming) \o Said(e, f)
  BY <1>3, <1>5, <1>6, Split
<1> HIDE DEF e
<1>8. Said(reader, Coming') = expect' /\ expect' \in Seq(DOMAIN Asks)
  BY <1>1, <1>3, <1>5, <1>7, AppendIsConcat
<1>9. wire' \in Seq(Byte)
  <2>1. wire \o f \in Seq(Byte)
    BY <1>3, <1>5, ConcatProperties
  <2> QED  BY <1>1, <2>1 DEF f
<1>10. Hearing'
  BY <1>1, <1>5, <1>7, <1>8 DEF IInv, Hearing, session, client
<1>11. TypeOK' /\ Telling'
  BY <1>1, <1>8, <1>9 DEF IInv, TypeOK, Telling, told, session
<1> QED  BY <1>10, <1>11 DEF IInv

LEMMA BabbleKeeps ==
  ASSUME IInv, NEW n \in Noise, Babble(n)
  PROVE  IInv'
<1>1. /\ connected /\ alive /\ wire = <<>> /\ wire' = n
      /\ UNCHANGED <<listening, alive, expect, session, reader, chunk, step, out, at, told, astray>>
  BY DEF Babble
<1>2. /\ chunk \in Seq(Byte) /\ reader \in Reader /\ chunk \o <<>> = chunk
      /\ expect \in Seq(DOMAIN Asks)
      /\ Said(reader, Coming) = expect /\ AtRest(After(reader, Coming))
  BY <1>1, Types, ConcatEmptySeq DEF IInv, TypeOK, Hearing
<1>3. Coming = chunk /\ Coming' = chunk \o n
  BY <1>1, <1>2 DEF Coming
<1> DEFINE e == After(reader, chunk)
<1>4. e \in Reader /\ AtRest(e)
  BY <1>2, <1>3, Split
<1>5. n \in Seq(Byte) /\ AtRest(After(e, n)) /\ Said(e, n) = <<>>
  BY <1>4, NoiseIs
<1>6. After(reader, Coming') = After(e, n) /\ Said(reader, Coming') = Said(reader, chunk) \o Said(e, n)
  BY <1>2, <1>3, <1>5, Split
<1> HIDE DEF e
<1>7. Said(reader, Coming') = expect
  <2>1. expect \o <<>> = expect
    BY <1>2, ConcatEmptySeq
  <2> QED  BY <1>2, <1>3, <1>5, <1>6, <2>1
<1>8. Hearing'
  BY <1>1, <1>2, <1>5, <1>6, <1>7 DEF IInv, Hearing, session
<1>9. TypeOK' /\ Telling'
  BY <1>1, <1>5 DEF IInv, TypeOK, Telling, told, session
<1> QED  BY <1>8, <1>9 DEF IInv

LEMMA LeaveKeeps ==
  ASSUME IInv, Leave
  PROVE  IInv'
<1>1. /\ connected /\ alive /\ alive' = FALSE /\ wire' \in {wire, <<>>} /\ expect' = <<>>
      /\ out' = Disowned(out)
      /\ UNCHANGED <<listening, session, reader, chunk, step, at, told, astray>>
  BY DEF Leave
<1>2. /\ chunk \in Seq(Byte) /\ wire \in Seq(Byte) /\ reader \in Reader /\ chunk \o <<>> = chunk
      /\ Said(reader, Coming) \in Seq(DOMAIN Asks) /\ Queue
  BY <1>1, Types, ConcatEmptySeq DEF IInv, Hearing
<1>3. Held(out')
  BY <1>1, <1>2, DisownedIs DEF Queue, Telling
<1>4. Said(reader, Coming') \in Seq(DOMAIN Asks)
  <2>1. CASE wire' = wire
    BY <1>1, <1>2, <2>1 DEF Coming
  <2>2. CASE wire' = <<>>
    <3>1. Coming' = chunk
      BY <1>1, <1>2, <2>2 DEF Coming
    <3> DEFINE e == After(reader, chunk)
               a == Said(reader, chunk)
               b == Said(e, wire)
    <3>2. e \in Reader /\ Said(reader, Coming) = a \o b
      BY <1>2, Split DEF Coming
    <3>3. a \in Seq(Seq(Byte)) /\ b \in Seq(Seq(Byte))
      BY <1>2, <3>2, SaidSeq
    <3> HIDE DEF a, b
    <3>4. a \in Seq(DOMAIN Asks)
      BY <1>2, <3>2, <3>3, PartsOf
    <3> QED  BY <3>1, <3>4 DEF a
  <2> QED  BY <1>1, <2>1, <2>2
<1>5. Hearing'
  BY <1>1, <1>4 DEF IInv, Hearing, session
<1>6. wire' \in Seq(Byte) /\ expect' \in Seq(DOMAIN Asks)
  <2>1. <<>> \in Seq(Byte) /\ <<>> \in Seq(DOMAIN Asks)
    OBVIOUS
  <2> QED  BY <1>1, <1>2, <2>1
<1>7. TypeOK' /\ Telling'
  BY <1>1, <1>3, <1>6 DEF IInv, TypeOK, Telling, Held, told, session
<1> QED  BY <1>5, <1>7 DEF IInv

-----------------------------------------------------------------------------
(* The steps of the pump and of what is called between two of them.        *)

LEMMA AcceptKeeps ==
  ASSUME IInv, Accept
  PROVE  IInv'
<1>1. /\ step = "out" /\ step' = "read" /\ chunk = <<>>
      /\ UNCHANGED <<listening, chunk, astray, torn>>
  BY DEF Accept, IInv, Hearing
<1>2. CASE UNCHANGED <<client, session, reader, out, at, last, halves>>
  <2>1. Coming' = Coming /\ UNCHANGED <<alive, wire, expect, connected, asked, reader, out, at, last, halves>>
    BY <1>1, <1>2 DEF Coming, client, session
  <2>2. TypeOK' /\ Telling'
    BY <1>1, <2>1 DEF IInv, TypeOK, Telling
  <2>3. Hearing'
    BY <1>1, <2>1 DEF IInv, Hearing
  <2> QED  BY <2>2, <2>3 DEF IInv
<1>3. CASE /\ connected' = TRUE /\ asked' = FALSE
           /\ alive' = TRUE /\ wire' = <<>> /\ expect' = <<>>
           /\ reader' = ReaderAnew
           /\ out' = OutAnew /\ at' = 0
           /\ last' = Boundary /\ halves' = {}
  <2>0. /\ QueueBytes \in Nat \ {0} /\ Chunk \in Nat \ {0} /\ Size["end"] \in Nat \ {0}
        /\ Fresh \in Reader /\ AtRest(Fresh) /\ "end" \in Whats
    BY SizesAre, Wide DEF Fresh, Reader, Stages, Whats, AtRest
  <2>1. <<>> \in Seq(Byte) /\ <<>> \in Seq(DOMAIN Asks) /\ <<>> \in Seq(Cells) /\ Len(<<>>) = 0
        /\ <<>> \o <<>> = <<>>
    <3>1. <<>> \in Seq(Byte) /\ <<>> \in Seq(DOMAIN Asks) /\ <<>> \in Seq(Cells) /\ Len(<<>>) = 0
      OBVIOUS
    <3> QED  BY <3>1, ConcatEmptySeq
  <2>2. out' = <<>> /\ Held(out')
    BY <1>3, <2>0, <2>1 DEF OutAnew, Held
  <2>3. InFrame(last') /\ last' \in [what: Whats, i: Nat] /\ Whole(last')
    BY <1>3, <2>0 DEF Boundary, InFrame, Whole
  <2>4. Sendable(out', last', halves')
    BY <2>1, <2>2, <2>3 DEF Sendable, Chained, Prior, Ended
  <2>5. at' \in 0..QueueBytes - 1
    BY <1>3, <2>0
  <2>6. /\ wire' \in Seq(Byte) /\ chunk' \in Seq(Byte) /\ Len(chunk') < Chunk /\ expect' \in Seq(DOMAIN Asks)
        /\ reader' \in Reader
    BY <1>1, <1>3, <2>0, <2>1 DEF ReaderAnew
  <2>7. Queue'
    BY <1>1, <1>3, <2>2, <2>3, <2>4, <2>5 DEF Queue, IInv, TypeOK, Telling
  <2>8. TypeOK' /\ Telling'
    BY <1>1, <1>3, <2>6, <2>7, TypeAgain DEF IInv, TypeOK
  <2>9. Coming' = <<>> /\ reader' = Fresh
    BY <1>1, <1>3, <2>1 DEF Coming, ReaderAnew
  <2>10. Said(reader', Coming') = <<>> /\ After(reader', Coming') = Fresh
    BY <2>0, <2>1, <2>9, SaidSeq
  <2>11. Hearing'
    BY <1>1, <1>3, <2>0, <2>1, <2>10 DEF IInv, Hearing
  <2> QED  BY <2>8, <2>11 DEF IInv
<1> QED  BY <1>2, <1>3 DEF Accept

LEMMA Three ==
  ASSUME NEW a \in Seq(Byte), NEW b \in Seq(Byte), NEW c \in Seq(Byte)
  PROVE  (a \o b) \o c = a \o (b \o c)
<1> DEFINE V == Byte
<1>1. a \in Seq(V) /\ b \in Seq(V) /\ c \in Seq(V)
  OBVIOUS
<1> HIDE DEF V
<1> QED  BY <1>1, ConcatAssociative

LEMMA HeadTailOfCons ==
  ASSUME NEW S, NEW x \in S, NEW w \in Seq(S)
  PROVE  <<x>> \o w # <<>> /\ Head(<<x>> \o w) = x /\ Tail(<<x>> \o w) = w
<1> DEFINE a == <<x>>
           r == a \o w
<1>1. a \in Seq(S) /\ Len(a) = 1 /\ a[1] = x
  OBVIOUS
<1> HIDE DEF a
<1>2. /\ r \in Seq(S) /\ Len(w) \in Nat /\ Len(r) = 1 + Len(w)
      /\ \A i \in 1..1 : r[i] = a[i]
      /\ \A i \in 1..Len(w) : r[1 + i] = w[i]
  <2>0. a \in Seq(S) /\ w \in Seq(S)
    BY <1>1
  <2>1. /\ r \in Seq(S) /\ Len(w) \in Nat /\ Len(r) = Len(a) + Len(w)
        /\ \A i \in 1..Len(a) : r[i] = a[i]
        /\ \A i \in 1..Len(w) : r[Len(a) + i] = w[i]
    <3> DEFINE V == S
    <3>1. a \in Seq(V) /\ w \in Seq(V)
      BY <2>0
    <3> HIDE DEF V
    <3>2. /\ r \in Seq(V) /\ Len(w) \in Nat /\ Len(r) = Len(a) + Len(w)
          /\ \A i \in 1..Len(a) : r[i] = a[i]
          /\ \A i \in 1..Len(w) : r[Len(a) + i] = w[i]
      BY <3>1, Joined
    <3> QED  BY <3>2 DEF V
  <2>2. Len(a) = 1
    BY <1>1
  <2> HIDE DEF r
  <2> QED  BY <2>1, <2>2
<1> HIDE DEF r
<1>3. r # <<>> /\ r[1] = x
  BY <1>1, <1>2, EmptySeq
<1>4. Head(r) = x
  BY <1>2, <1>3
<1> DEFINE t == Tail(r)
<1>5. t \in Seq(S) /\ Len(t) = Len(r) - 1 /\ \A i \in 1..Len(t) : t[i] = r[i + 1]
  BY <1>2, <1>3, HeadTailProperties
<1> HIDE DEF t
<1>6. Len(t) = Len(w) /\ \A i \in 1..Len(t) : t[i] = w[i]
  <2>1. Len(t) = Len(w)
    BY <1>2, <1>5
  <2>2. ASSUME NEW i \in 1..Len(t)  PROVE t[i] = w[i]
    <3>1. i + 1 = 1 + i /\ i \in 1..Len(w)
      BY <2>1
    <3> QED  BY <1>2, <1>5, <3>1
  <2> QED  BY <2>1, <2>2
<1>7. t = w
  BY <1>5, <1>6, SeqEqual
<1> QED  BY <1>3, <1>4, <1>7 DEF t, r, a

\* One call of feed: what has been read is said, what follows is still to come.
LEMMA FeedKeeps ==
  ASSUME IInv, NEW bytes \in Seq(Byte), bytes # <<>>, Len(bytes) <= Chunk, connected,
         wire' \in Seq(Byte), Coming = bytes \o wire', Feed(bytes),
         step' \in {"read", "last"}, listening' = listening
  PROVE  IInv'
<1> DEFINE n == Taken(reader, bytes)
           before == Through(reader, bytes)[n - 1]
           c == bytes[n]
           u == SubSeq(bytes, 1, n)
           r == SubSeq(bytes, n + 1, Len(bytes))
           v == r \o wire'
           m == Fed(before, c).body
<1>1. /\ Queue /\ reader \in Reader /\ Coming \in Seq(Byte) /\ Chunk \in Nat \ {0}
      /\ connected \in BOOLEAN /\ alive \in BOOLEAN /\ asked \in BOOLEAN
  BY Types
<1>2. /\ n \in 1..Len(bytes) /\ n \in 0..Len(bytes) /\ Len(bytes) \in Nat
      /\ before \in Reader /\ c \in Byte
      /\ Fed(before, c) = After(reader, u) /\ Said(reader, u) = With(<<>>, before, c)
  <2>1. Len(bytes) \in Nat
    OBVIOUS
  <2>2. /\ n \in 1..Len(bytes)
        /\ before \in Reader /\ c \in Byte
        /\ Fed(before, c) = After(reader, u) /\ Said(reader, u) = With(<<>>, before, c)
    BY <1>1, TakenIs
  <2> HIDE DEF n
  <2>3. n \in 0..Len(bytes)
    BY <2>1, <2>2
  <2> QED  BY <2>1, <2>2, <2>3
<1>3. /\ reader' = Fed(before, c)
      /\ Ends(before, c) => Answered(m)
      /\ ~Ends(before, c) => UNCHANGED <<astray, expect, out, at, told, session, alive>>
      /\ chunk' = IF connected' THEN r ELSE <<>>
  BY DEF Feed
<1> HIDE DEF n, before, c, m
<1>4. u \in Seq(Byte) /\ r \in Seq(Byte) /\ u \o r = bytes /\ Len(r) = Len(bytes) - n
  BY <1>2, Parts
<1> HIDE DEF u, r
<1>5. v \in Seq(Byte) /\ Coming = u \o v
  <2> DEFINE left == wire'
  <2>0. u \in Seq(Byte) /\ r \in Seq(Byte) /\ left \in Seq(Byte)
    BY <1>4
  <2> HIDE DEF left
  <2>1. (u \o r) \o left = u \o (r \o left)
    BY ONLY <2>0, Three
  <2>2. r \o left \in Seq(Byte)
    BY <1>4, <2>0, ConcatProperties
  <2> QED  BY <1>4, <2>1, <2>2 DEF left
<1> HIDE DEF v
<1>6. /\ reader' \in Reader
      /\ After(reader, Coming) = After(reader', v)
      /\ Said(reader, Coming) = Said(reader, u) \o Said(reader', v)
      /\ Said(reader', v) \in Seq(Seq(Byte))
  <2>1. reader' = After(reader, u)
    BY <1>2, <1>3
  <2>2. reader' \in Reader
    BY <1>1, <1>4, <2>1, Split
  <2> DEFINE e == After(reader, u)
  <2>3. e \in Reader /\ After(reader, u \o v) = After(e, v) /\ Said(reader, u \o v) = Said(reader, u) \o Said(e, v)
    BY <1>1, <1>4, <1>5, Split
  <2>4. e = reader'
    BY <2>1
  <2> HIDE DEF e
  <2>5. Said(e, v) \in Seq(Seq(Byte))
    BY <1>5, <2>3, SaidSeq
  <2> QED  BY <1>5, <2>3, <2>4, <2>5
<1>7. connected' => Coming' = v
  BY <1>3 DEF Coming, v
<1>8. chunk' \in Seq(Byte) /\ Len(chunk') < Chunk /\ (chunk' # <<>> => connected')
  <2>1. CASE connected'
    BY <1>1, <1>2, <1>3, <1>4, <2>1
  <2>2. CASE ~connected'
    <3>1. chunk' = <<>> /\ <<>> \in Seq(Byte) /\ Len(<<>>) = 0
      BY <1>3, <2>2
    <3> QED  BY <1>1, <3>1
  <2> QED  BY <2>1, <2>2
<1>9. /\ ~astray /\ Said(reader, Coming) \in Seq(DOMAIN Asks) /\ expect \in Seq(DOMAIN Asks)
      /\ alive => connected
      /\ alive => Said(reader, Coming) = expect /\ AtRest(After(reader, Coming))
  BY DEF IInv, Hearing, TypeOK
<1>10. step' \in {"out", "read", "last"} /\ step' # "out" /\ listening' \in BOOLEAN
  BY DEF IInv, TypeOK
<1>11. CASE ~Ends(before, c)
  <2>1. Said(reader, u) = <<>>
    BY <1>2, <1>11 DEF With
  <2>2. Said(reader', v) = Said(reader, Coming)
    <3>1. <<>> \o Said(reader', v) = Said(reader', v)
      BY <1>6, ConcatEmptySeq
    <3> QED  BY <1>6, <2>1, <3>1
  <2>3. UNCHANGED <<astray, expect, out, at, last, halves, torn, connected, asked, alive>>
    BY <1>3, <1>11 DEF told, session
  <2>4. Queue'
    BY <1>1, <2>3 DEF Queue, Telling
  <2>5. TypeOK' /\ Telling'
    BY <1>1, <1>6, <1>8, <1>9, <1>10, <2>3, <2>4, TypeAgain DEF IInv, TypeOK
  <2>6. Hearing'
    BY <1>6, <1>7, <1>8, <1>9, <1>10, <2>2, <2>3 DEF Hearing
  <2> QED  BY <2>5, <2>6 DEF IInv
<1>12. CASE Ends(before, c)
  <2> DEFINE w == Said(reader', v)
  <2>0. m \in Seq(Byte) /\ m = reader'.body /\ w \in Seq(Seq(Byte))
    BY <1>3, <1>6 DEF Reader, m
  <2>1. Said(reader, Coming) = <<m>> \o w
    <3>1. Said(reader, u) = <<m>>
      BY <1>2, <1>12 DEF With, m
    <3> QED  BY <1>6, <3>1
  <2> HIDE DEF w
  <2>2. m \in DOMAIN Asks /\ w \in Seq(DOMAIN Asks)
    <3>1. <<m>> \in Seq(Seq(Byte))
      BY <2>0
    <3>2. <<m>> \in Seq(DOMAIN Asks) /\ w \in Seq(DOMAIN Asks)
      BY <1>9, <2>0, <2>1, <3>1, PartsOf
    <3>3. <<m>>[1] = m /\ Len(<<m>>) = 1
      OBVIOUS
    <3>4. <<m>>[1] \in DOMAIN Asks
      <4> DEFINE a == <<m>>
      <4>1. a \in Seq(DOMAIN Asks) /\ Len(a) = 1
        BY <3>2, <3>3
      <4> HIDE DEF a
      <4>2. a[1] \in DOMAIN Asks
        <5>1. 1 \in 1..Len(a)
          BY <4>1
        <5> QED  BY <4>1, <5>1, ElementOfSeq
      <4> QED  BY <4>2 DEF a
    <3> QED  BY <3>2, <3>3, <3>4
  <2>3. <<m>> \o w # <<>> /\ Head(<<m>> \o w) = m /\ Tail(<<m>> \o w) = w
    <3>1. <<m>> \o w \in Seq(DOMAIN Asks) /\ <<m>> \o w # <<>> /\ Head(<<m>> \o w) = m /\ Tail(<<m>> \o w) = w
      BY <2>2, HeadTailOfCons
    <3> QED  BY <3>1
  <2>4. /\ astray' = (astray \/ m \notin DOMAIN Asks \/ (alive /\ (expect = <<>> \/ Head(expect) # m)))
        /\ expect' = IF expect = <<>> THEN expect ELSE Tail(expect)
        /\ Drain(OfferedAll(out, Answer(m)), AskedAfter(out, m))
    BY <1>3, <1>12, <2>2 DEF Answered
  <2>5. ~astray' /\ astray' \in BOOLEAN
    <3>1. alive => expect # <<>> /\ Head(expect) = m
      BY <1>9, <2>1, <2>3
    <3> QED  BY <1>9, <2>2, <2>4, <3>1
  <2>6. expect' \in Seq(DOMAIN Asks) /\ (alive => expect' = w)
    <3>1. expect' \in Seq(DOMAIN Asks)
      <4>1. expect # <<>> => Tail(expect) \in Seq(DOMAIN Asks)
        BY <1>9, HeadTailProperties
      <4> QED  BY <1>9, <2>4, <4>1
    <3>2. alive => expect' = w
      BY <1>9, <2>1, <2>3, <2>4
    <3> QED  BY <3>1, <3>2
  <2>7. AskedAfter(out, m) \in BOOLEAN
    <3>1. Asks[m] \in {"want", "beat", "bye"}
      BY <2>2, TcpOK DEF TcpOK
    <3>2. AllFit(out, Answer(m)) \in BOOLEAN
      BY DEF AllFit
    <3>3. AskedAfter(out, m) = asked \/ AskedAfter(out, m) = (asked \/ AllFit(out, Answer(m)))
          \/ AskedAfter(out, m) = FALSE
      BY <3>1 DEF AskedAfter
    <3> QED  BY <1>1, <3>2, <3>3
  <2>8. /\ Held(OfferedAll(out, Answer(m)))
        /\ alive => Sendable(OfferedAll(out, Answer(m)), last, halves)
    BY <1>1, <2>2, AnswerSendable
  <2>9. /\ Queue' /\ asked' \in BOOLEAN /\ connected' \in BOOLEAN /\ alive' = alive
        /\ alive' => connected'
        /\ connected' => connected
    BY <1>1, <1>9, <2>4, <2>7, <2>8, DrainIs
  <2>10. TypeOK' /\ Telling'
    BY <1>1, <1>6, <1>8, <1>10, <2>5, <2>6, <2>9, TypeAgain
  <2>11. connected' => Said(reader', Coming') = w /\ After(reader', Coming') = After(reader, Coming)
    BY <1>6, <1>7 DEF w
  <2>12. Hearing'
    BY <1>8, <1>9, <1>10, <2>2, <2>5, <2>6, <2>9, <2>11 DEF Hearing
  <2> QED  BY <2>10, <2>12 DEF IInv
<1> QED  BY <1>11, <1>12

LEMMA RecvKeeps ==
  ASSUME IInv, Recv
  PROVE  IInv'
<1>1. step = "read" /\ chunk = <<>> /\ connected /\ wire # <<>> /\ listening' = listening
  BY DEF Recv
<1>2. wire \in Seq(Byte) /\ Len(wire) \in Nat /\ Chunk \in Nat \ {0} /\ Len(wire) # 0
  BY <1>1, Types, EmptySeq
<1>3. PICK k \in 1..Min({Chunk, Len(wire)}) :
        /\ Feed(SubSeq(wire, 1, k))
        /\ wire' = SubSeq(wire, k + 1, Len(wire))
        /\ step' = IF connected' /\ k = Chunk THEN "read" ELSE "last"
  BY DEF Recv
<1> DEFINE u == SubSeq(wire, 1, k)
<1>4. k \in 1..Len(wire) /\ k <= Chunk /\ k \in 0..Len(wire)
  <2> DEFINE S == {Chunk, Len(wire)}
             N == Min(S)
  <2>1. S \in SUBSET Nat /\ S # {}
    BY <1>2
  <2>2. N \in S /\ \A y \in S : N <= y
    <3> HIDE DEF S
    <3> QED  BY <2>1, MinIs
  <2> HIDE DEF N
  <2> QED  BY <1>2, <1>3, <2>2 DEF N
<1>5. u \in Seq(Byte) /\ Len(u) = k /\ wire' \in Seq(Byte) /\ u \o wire' = wire
  BY <1>2, <1>3, <1>4, Parts
<1>6. Coming = u \o wire'
  <2>1. <<>> \o wire = wire
    BY <1>2, ConcatEmptySeq
  <2> QED  BY <1>1, <1>5, <2>1 DEF Coming
<1>7. Feed(u) /\ step' \in {"read", "last"}
  BY <1>3
<1> HIDE DEF u
<1>8. u # <<>> /\ Len(u) <= Chunk
  BY <1>4, <1>5, EmptySeq
<1> QED  BY <1>1, <1>5, <1>6, <1>7, <1>8, FeedKeeps

LEMMA FeedOnKeeps ==
  ASSUME IInv, FeedOn
  PROVE  IInv'
<1>1. /\ step \in {"read", "last"} /\ chunk # <<>> /\ Feed(chunk)
      /\ step' = (IF connected' THEN step ELSE "last")
      /\ UNCHANGED <<listening, wire>>
  BY DEF FeedOn
<1>2. connected /\ chunk \in Seq(Byte) /\ Len(chunk) <= Chunk /\ wire' \in Seq(Byte)
  BY <1>1, Types DEF IInv, Hearing, TypeOK
<1>3. Coming = chunk \o wire'
  BY <1>1 DEF Coming
<1>4. step' \in {"read", "last"}
  BY <1>1
<1> QED  BY <1>1, <1>2, <1>3, <1>4, FeedKeeps

\* A push of what there is, with one frame more perhaps, at a time when nothing
\* is half read.
LEMMA PushKeeps ==
  ASSUME IInv, NEW q, Held(q), alive => Sendable(q, last, halves), Drain(q, asked), chunk = <<>>,
         step' \in {"out", "read", "last"},
         UNCHANGED <<listening, wire, expect, reader, chunk, astray>>
  PROVE  IInv'
<1>1. Queue /\ alive \in BOOLEAN /\ connected \in BOOLEAN /\ asked \in BOOLEAN
  BY Types
<1>2. /\ Queue' /\ asked' \in BOOLEAN /\ connected' \in BOOLEAN /\ alive' = alive
      /\ alive' => connected'
      /\ connected' => connected
  BY <1>1, DrainIs DEF IInv, Hearing
<1>3. TypeOK' /\ Telling'
  BY <1>1, <1>2, TypeAgain DEF IInv, TypeOK
<1>4. Coming' = Coming
  BY DEF Coming
<1>5. Hearing'
  BY <1>2, <1>4 DEF IInv, Hearing
<1> QED  BY <1>3, <1>5 DEF IInv

LEMMA CloseKeeps ==
  ASSUME IInv, Close
  PROVE  IInv'
<1>1. /\ chunk = <<>> /\ Farewell /\ step' = "out"
      /\ UNCHANGED <<listening, wire, expect, reader, chunk, astray>>
  BY DEF Close
<1>2. Queue /\ alive \in BOOLEAN
  BY Types
<1>3. CASE Drain(out, asked)
  <2>1. Held(out) /\ (alive => Sendable(out, last, halves))
    BY <1>2 DEF Queue, Telling
  <2> QED  BY <1>1, <1>3, <2>1, PushKeeps
<1>4. CASE Drain(Offered(out, "status"), asked)
  <2>1. "status" \in Whats
    BY DEF Whats
  <2>2. /\ Held(Offered(out, "status"))
        /\ alive => Sendable(Offered(out, "status"), last, halves)
    BY <1>2, <2>1, OfferedSendable
  <2> QED  BY <1>1, <1>4, <2>2, PushKeeps
<1> QED  BY <1>1, <1>3, <1>4 DEF Farewell

LEMMA HeardKeeps ==
  ASSUME IInv, Heard
  PROVE  IInv'
<1>0. step = "out" /\ UNCHANGED <<listening, wire, expect, reader, chunk, step, astray>>
  BY DEF Heard
<1> DEFINE q == Offered(out, "packet")
<1>1. Drain(q, asked)
  BY Zenon DEF Heard
<1>2. Queue /\ alive \in BOOLEAN /\ chunk = <<>> /\ step' \in {"out", "read", "last"}
  BY <1>0, Types DEF IInv, Hearing
<1>3. "packet" \in Whats
  BY DEF Whats
<1>4. /\ Held(Offered(out, "packet"))
      /\ alive => Sendable(Offered(out, "packet"), last, halves)
  BY <1>2, <1>3, OfferedSendable
<1> QED  BY <1>0, <1>1, <1>2, <1>4, PushKeeps

\* The client is dropped, by a read that finds it gone or by stop.
LEMMA DropKeeps ==
  ASSUME IInv, Dropped, out' = Disowned(out), chunk = <<>>,
         step' \in {"out", "read", "last"}, listening' \in BOOLEAN, expect' \in Seq(DOMAIN Asks),
         UNCHANGED <<reader, chunk, at, told, astray>>
  PROVE  IInv'
<1>1. connected' = FALSE /\ asked' = FALSE /\ alive' = FALSE /\ wire' = <<>>
  BY DEF Dropped
<1>2. Queue
  BY Types
<1>3. Held(out')
  BY <1>2, DisownedIs DEF Queue, Telling
<1>4. Queue'
  BY <1>1, <1>2, <1>3 DEF Queue, Telling, told
<1>5. wire' \in Seq(Byte)
  <2>1. <<>> \in Seq(Byte)
    OBVIOUS
  <2> QED  BY <1>1, <2>1
<1>6. TypeOK' /\ Telling'
  BY <1>1, <1>4, <1>5, TypeAgain DEF IInv, TypeOK
<1>7. Hearing'
  BY <1>1 DEF IInv, Hearing
<1> QED  BY <1>6, <1>7 DEF IInv

LEMMA GoneKeeps ==
  ASSUME IInv, Gone
  PROVE  IInv'
<1>1. /\ chunk = <<>> /\ Dropped /\ out' = Disowned(out) /\ step' = "out"
      /\ UNCHANGED <<listening, expect, reader, chunk, at, told, astray>>
  BY DEF Gone
<1>2. listening' \in BOOLEAN /\ expect' \in Seq(DOMAIN Asks) /\ step' \in {"out", "read", "last"}
  BY <1>1 DEF IInv, TypeOK
<1> QED  BY <1>1, <1>2, DropKeeps

LEMMA StopKeeps ==
  ASSUME IInv, Stop
  PROVE  IInv'
<1>1. /\ step = "out" /\ listening' = FALSE /\ Dropped /\ expect' = <<>> /\ out' = Disowned(out)
      /\ UNCHANGED <<reader, chunk, step, at, told, astray>>
  BY DEF Stop
<1>2. chunk = <<>> /\ step' \in {"out", "read", "last"} /\ listening' \in BOOLEAN
  BY <1>1 DEF IInv, Hearing
<1>3. expect' \in Seq(DOMAIN Asks)
  <2>1. <<>> \in Seq(DOMAIN Asks)
    OBVIOUS
  <2> QED  BY <1>1, <2>1
<1> QED  BY <1>1, <1>2, <1>3, DropKeeps

LEMMA AdvertiseKeeps ==
  ASSUME IInv, Advertise
  PROVE  IInv'
<1>1. /\ listening' = TRUE
      /\ UNCHANGED <<alive, wire, expect, connected, asked, reader, chunk, step, out, at,
                     last, halves, torn, astray>>
  BY DEF Advertise, client, session, told
<1>2. TypeOK' /\ Telling'
  BY <1>1 DEF IInv, TypeOK, Telling
<1>3. Hearing'
  BY <1>1 DEF IInv, Hearing, Coming
<1> QED  BY <1>2, <1>3 DEF IInv

LEMMA NextIInv ==
  IInv /\ [Next]_vars => IInv'
<1> SUFFICES ASSUME IInv, [Next]_vars  PROVE IInv'
  OBVIOUS
<1>1. ASSUME NEW m \in DOMAIN Asks, Write(m)  PROVE IInv'
  BY <1>1, WriteKeeps
<1>2. ASSUME NEW n \in Noise, Babble(n)  PROVE IInv'
  BY <1>2, BabbleKeeps
<1>3. CASE Leave
  BY <1>3, LeaveKeeps
<1>4. CASE Accept
  BY <1>4, AcceptKeeps
<1>5. CASE Recv
  BY <1>5, RecvKeeps
<1>6. CASE FeedOn
  BY <1>6, FeedOnKeeps
<1>7. CASE Close
  BY <1>7, CloseKeeps
<1>8. CASE Gone
  BY <1>8, GoneKeeps
<1>9. CASE Heard
  BY <1>9, HeardKeeps
<1>10. CASE Stop
  BY <1>10, StopKeeps
<1>11. CASE Advertise
  BY <1>11, AdvertiseKeeps
<1>12. CASE UNCHANGED vars
  <2>1. UNCHANGED <<listening, alive, wire, expect, connected, asked, reader, chunk, step, out, at,
                    last, halves, torn, astray>>
    BY <1>12 DEF vars, client, session, told
  <2>2. TypeOK' /\ Telling'
    BY <2>1 DEF IInv, TypeOK, Telling
  <2>3. Hearing'
    BY <2>1 DEF IInv, Hearing, Coming
  <2> QED  BY <2>2, <2>3 DEF IInv
<1> QED
  BY <1>1, <1>2, <1>3, <1>4, <1>5, <1>6, <1>7, <1>8, <1>9, <1>10, <1>11, <1>12 DEF Next, Pump

-----------------------------------------------------------------------------
(* What the session promises, for every alphabet and every set of messages,  *)
(* however the socket cuts, refuses and breaks.                              *)

\* Every variable keeps its type: what was read and not fed is shorter than one
\* read, and the buffer and the place in it are below TCP_QUEUE_BYTES.
THEOREM TcpTypes == Spec => []TypeOK
<1>1. IInv => TypeOK
  BY DEF IInv
<1> QED  BY InitIs, NextIInv, <1>1, PTL DEF Spec

\* The node acts on the messages its client framed, each whole, once and in
\* order, and on nothing else, whatever noise lies between two of them and
\* wherever the reads cut (stream.rs:10).
THEOREM EveryFrameHeard == Spec => []HeardWhole
<1>1. IInv => HeardWhole
  <2> SUFFICES ASSUME IInv  PROVE HeardWhole
    OBVIOUS
  <2>1. ASSUME alive, wire = <<>>, chunk = <<>>  PROVE expect = <<>>
    <3>1. Coming = <<>>
      BY <2>1, Types, ConcatEmptySeq DEF Coming
    <3>2. Said(reader, Coming) = <<>>
      BY <3>1, Types, SaidSeq
    <3> QED  BY <2>1, <3>2 DEF IInv, Hearing
  <2> QED  BY <2>1 DEF IInv, Hearing, HeardWhole
<1> QED  BY InitIs, NextIInv, <1>1, PTL DEF Spec

\* A client gets whole frames from its first byte on, none of them another's,
\* through partial writes, refusals and the front being cut off (meshtcp.py:26).
THEOREM EveryFrameTold == Spec => []ToldWhole
<1>1. IInv => ToldWhole
  <2> SUFFICES ASSUME IInv  PROVE ToldWhole
    OBVIOUS
  <2>1. ~torn /\ Held(out)
    BY DEF IInv, Telling
  <2>2. ASSUME alive, out # <<>>  PROVE Follows(last, out[1]) /\ \A i \in DOMAIN out : out[i].mine
    <3>1. DOMAIN out = 1..Len(out) /\ 1 \in 1..Len(out)
      BY <2>1, <2>2, EmptySeq DEF Held
    <3>2. Sendable(out, last, halves)
      BY <2>2 DEF IInv, Telling
    <3>3. Follows(Prior(last, out, 1), out[1])
      BY <3>1, <3>2 DEF Sendable, Chained
    <3> QED  BY <3>1, <3>2, <3>3 DEF Sendable, Prior
  <2> QED  BY <2>1, <2>2 DEF ToldWhole
<1> QED  BY InitIs, NextIInv, <1>1, PTL DEF Spec

\* A terminator in the buffer has behind it, sent or not, both halves of the dump
\* it ends: the one place that queues it stops at what does not fit (meshapi.py:12).
THEOREM DumpIsEnded == Spec => []DumpWhole
<1>1. IInv => DumpWhole
  <2> SUFFICES ASSUME IInv  PROVE DumpWhole
    OBVIOUS
  <2>1. Held(out) /\ (alive => Ended(out, halves))
    BY DEF IInv, Telling, Sendable
  <2> QED  BY <2>1, DumpIs
<1> QED  BY InitIs, NextIInv, <1>1, PTL DEF Spec

-----------------------------------------------------------------------------
(* The readers of the stream, for every alphabet and frame size.            *)
BenchReader ==
  [stage: 0..4, want: Nat, have: Nat, buffer: [1..MaxFrame -> Byte], lost: Nat, frames: Nat]

\* One byte keeps the board's reader and the bench's alike, whatever both were
\* fed before and whatever the bench's buffer still holds (hoststub.py:1231).
THEOREM OneReader ==
  ASSUME NEW s \in Reader, NEW b \in BenchReader, NEW c \in Byte
  PROVE  SameByte(s, b, c)
<1> SUFFICES ASSUME Alike(s, b)
             PROVE  /\ Alike(Fed(s, c), BenchByte(b, c))
                    /\ Ends(s, c) = BenchEnds(b, c)
                    /\ Ends(s, c) => /\ BenchByte(b, c).have = Len(Fed(s, c).body)
                                     /\ \A i \in 1..BenchByte(b, c).have :
                                          BenchByte(b, c).buffer[i] = Fed(s, c).body[i]
                    /\ BenchByte(b, c).lost = b.lost + Lost(s, c)
                    /\ BenchByte(b, c).frames = b.frames + (IF Ends(s, c) THEN 1 ELSE 0)
  BY DEF SameByte
<1> USE FramingOK
<1>1. CASE s.stage = "hunt"
  <2>1. b.stage = 0
    BY <1>1 DEF Alike, Numbered
  <2> QED
    BY <1>1, <2>1 DEF Alike, Numbered, Fed, BenchByte, Ends, BenchEnds, Lost, Fresh, Reader, BenchReader, Byte, Stages
<1>2. CASE s.stage = "saw_start1"
  <2>1. b.stage = 1
    BY <1>2 DEF Alike, Numbered
  <2> QED
    BY <1>2, <2>1 DEF Alike, Numbered, Fed, BenchByte, Ends, BenchEnds, Lost, Fresh, Reader, BenchReader, Byte, Stages
<1>3. CASE s.stage = "want_msb"
  <2>1. b.stage = 2
    BY <1>3 DEF Alike, Numbered
  <2> DEFINE t == Fed(s, c)
             d == BenchByte(b, c)
  <2>2. t.stage = "want_lsb" /\ t.want = c * Base
    BY <1>3 DEF Fed, Reader
  <2>3. d = [[b EXCEPT !.want = c * Base] EXCEPT !.stage = 3]
    BY <2>1 DEF BenchByte
  <2>4. d.stage = 3 /\ d.want = c * Base /\ d.lost = b.lost /\ d.frames = b.frames
    BY <2>3 DEF BenchReader
  <2>5. ~Ends(s, c) /\ ~BenchEnds(b, c) /\ Lost(s, c) = 0
    BY <1>3, <2>1 DEF Ends, BenchEnds, Lost
  <2>6. b.lost \in Nat /\ b.frames \in Nat
    BY DEF BenchReader
  <2> HIDE DEF t, d
  <2>7. Alike(t, d)
    BY <2>2, <2>4 DEF Alike, Numbered
  <2>8. d.lost = b.lost + Lost(s, c) /\ d.frames = b.frames + (IF Ends(s, c) THEN 1 ELSE 0)
    BY <2>4, <2>5, <2>6
  <2>9. Ends(s, c) = BenchEnds(b, c)
    BY <1>3, <2>1 DEF Ends, BenchEnds
  <2> QED
    BY <2>5, <2>7, <2>8, <2>9 DEF t, d
<1>4. CASE s.stage = "want_lsb"
  <2>1. b.stage = 3 /\ b.want = s.want
    BY <1>4 DEF Alike, Numbered
  <2> QED
    BY <1>4, <2>1 DEF Alike, Numbered, Fed, BenchByte, Ends, BenchEnds, Lost, Wanted, Fresh, Reader, BenchReader, Byte, Stages
<1>5. CASE s.stage = "body"
  <2>1. /\ b.stage = 4 /\ b.want = s.want
        /\ b.have = Len(s.body) /\ b.have < b.want /\ b.want <= MaxFrame
        /\ \A i \in 1..b.have : b.buffer[i] = s.body[i]
    BY <1>5 DEF Alike, Numbered
  <2> DEFINE t == Fed(s, c)
             d == BenchByte(b, c)
             done == b.have + 1 >= b.want
  <2>2. s.body \in Seq(Byte) /\ b.have \in Nat /\ b.want \in Nat /\ b.buffer \in [1..MaxFrame -> Byte]
    BY DEF Reader, BenchReader
  <2>3. /\ t.body = Append(s.body, c) /\ t.want = s.want
        /\ t.stage = IF done THEN "hunt" ELSE "body"
    BY <1>5, <2>1 DEF Fed, Reader
  <2>4. /\ d.want = b.want /\ d.have = b.have + 1
        /\ d.stage = IF done THEN 0 ELSE 4
        /\ d.buffer = [b.buffer EXCEPT ![b.have + 1] = c]
        /\ d.lost = b.lost /\ d.frames = IF done THEN b.frames + 1 ELSE b.frames
    <3>1. d = [b EXCEPT !.buffer[b.have + 1] = c, !.have = @ + 1, !.stage = IF done THEN 0 ELSE 4,
                        !.frames = IF done THEN @ + 1 ELSE @]
      BY <2>1 DEF BenchByte
    <3>2. /\ b = [stage |-> b.stage, want |-> b.want, have |-> b.have, buffer |-> b.buffer,
                  lost |-> b.lost, frames |-> b.frames]
      BY DEF BenchReader
    <3> HIDE DEF d, done
    <3> QED
      BY <3>1, <3>2
  <2>5. Len(t.body) = d.have /\ \A i \in 1..d.have : d.buffer[i] = t.body[i]
    <3>1. MaxFrame \in Nat
      BY DEF FramingOK
    <3>2. Len(t.body) = d.have
      BY <2>1, <2>2, <2>3, <2>4
    <3>3. ASSUME NEW i \in 1..d.have PROVE d.buffer[i] = t.body[i]
      <4>1. CASE i = b.have + 1
        BY <2>1, <2>2, <2>3, <2>4, <3>1, <4>1
      <4>2. CASE i # b.have + 1
        <5>1. i \in 1..b.have
          BY <2>2, <2>4, <4>2
        <5> QED
          BY <2>1, <2>2, <2>3, <2>4, <3>1, <4>2, <5>1
      <4> QED
        BY <4>1, <4>2
    <3> QED
      BY <3>2, <3>3
  <2>6. Alike(t, d)
    <3>1. d.stage = Numbered[t.stage]
      BY <2>3, <2>4 DEF Numbered
    <3>2. t.stage # "want_lsb"
      BY <2>3
    <3>3. ASSUME t.stage = "body"
          PROVE  d.want = t.want /\ d.have = Len(t.body) /\ d.have < d.want /\ d.want <= MaxFrame
      <4>1. ~done
        BY <2>3, <3>3
      <4> QED
        BY <2>1, <2>2, <2>3, <2>4, <2>5, <4>1
    <3> QED
      BY <2>5, <3>1, <3>2, <3>3 DEF Alike
  <2>7. Ends(s, c) = done /\ BenchEnds(b, c) = done
    BY <1>5, <2>1 DEF Ends, BenchEnds
  <2>8. Lost(s, c) = 0
    BY <1>5 DEF Lost
  <2>9. b.lost \in Nat /\ b.frames \in Nat
    BY DEF BenchReader
  <2> HIDE DEF t, d, done
  <2>10. d.lost = b.lost + Lost(s, c) /\ d.frames = b.frames + (IF Ends(s, c) THEN 1 ELSE 0)
    <3>1. d.lost = b.lost + 0 /\ Lost(s, c) = 0
      BY <2>4, <2>8, <2>9
    <3>2. CASE done
      BY <2>4, <2>7, <3>1, <3>2
    <3>3. CASE ~done
      BY <2>4, <2>7, <2>9, <3>1, <3>3
    <3> QED
      BY <3>2, <3>3
  <2> QED
    BY <2>5, <2>6, <2>7, <2>10 DEF t, d
<1> QED
  BY <1>1, <1>2, <1>3, <1>4, <1>5 DEF Reader, Stages

LEMMA BenchByteIs ==
  ASSUME NEW b \in BenchReader, NEW c \in Byte
  PROVE  BenchByte(b, c) \in BenchReader
<1> DEFINE Buffer == [1..MaxFrame -> Byte]
           Made(stage, want, have, buffer, lost, frames) ==
             [stage |-> stage, want |-> want, have |-> have, buffer |-> buffer, lost |-> lost, frames |-> frames]
           d == BenchByte(b, c)
           Typed(r) == /\ r = Made(r.stage, r.want, r.have, r.buffer, r.lost, r.frames)
                       /\ r.stage \in 0..4 /\ r.want \in Nat /\ r.have \in Nat /\ r.buffer \in Buffer
                       /\ r.lost \in Nat /\ r.frames \in Nat
<1>1. Typed(b)
  BY DEF BenchReader
<1>2. c \in Nat
  BY DEF Byte
<1>3. c * Base \in Nat
  BY Wide
<1>4. Typed(d) => d \in BenchReader
  <2> HIDE DEF d
  <2> QED  BY DEF BenchReader
<1>5. CASE b.stage = 0
  <2>1. d = IF c = Start1 THEN [b EXCEPT !.stage = 1] ELSE [b EXCEPT !.lost = @ + 1]
    BY <1>5 DEF BenchByte
  <2> HIDE DEF d, Buffer
  <2>2. \/ d = Made(1, b.want, b.have, b.buffer, b.lost, b.frames)
        \/ d = Made(b.stage, b.want, b.have, b.buffer, b.lost + 1, b.frames)
    BY <1>1, <2>1
  <2>3. Typed(d)
    BY <1>1, <1>2, <2>2
  <2> QED  BY <1>4, <2>3 DEF d
<1>6. CASE b.stage = 1
  <2>1. d = IF c = Start2 THEN [b EXCEPT !.stage = 2]
            ELSE IF c = Start1 THEN [b EXCEPT !.lost = @ + 1]
            ELSE [b EXCEPT !.stage = 0, !.lost = @ + 2]
    BY <1>6 DEF BenchByte
  <2> HIDE DEF d, Buffer
  <2>2. \/ d = Made(2, b.want, b.have, b.buffer, b.lost, b.frames)
        \/ d = Made(b.stage, b.want, b.have, b.buffer, b.lost + 1, b.frames)
        \/ d = Made(0, b.want, b.have, b.buffer, b.lost + 2, b.frames)
    BY <1>1, <2>1
  <2>3. Typed(d)
    BY <1>1, <1>2, <2>2
  <2> QED  BY <1>4, <2>3 DEF d
<1>7. CASE b.stage = 2
  <2> DEFINE wide == c * Base
  <2>1. d = [b EXCEPT !.want = wide, !.stage = 3]
    BY <1>7 DEF BenchByte
  <2>2. wide \in Nat
    BY <1>3
  <2> HIDE DEF d, Buffer, wide
  <2>3. d = Made(3, wide, b.have, b.buffer, b.lost, b.frames)
    BY <1>1, <2>1
  <2>4. Typed(d)
    BY <1>1, <1>2, <2>2, <2>3
  <2> QED  BY <1>4, <2>4 DEF d
<1>8. CASE b.stage = 3
  <2>1. d = IF b.want + c > MaxFrame THEN [b EXCEPT !.stage = 0, !.lost = @ + 4]
            ELSE [b EXCEPT !.want = @ + c, !.have = 0, !.stage = IF b.want + c = 0 THEN 0 ELSE 4]
    BY <1>8 DEF BenchByte
  <2> HIDE DEF d, Buffer
  <2>2. \/ d = Made(0, b.want, b.have, b.buffer, b.lost + 4, b.frames)
        \/ d = Made(0, b.want + c, 0, b.buffer, b.lost, b.frames)
        \/ d = Made(4, b.want + c, 0, b.buffer, b.lost, b.frames)
    BY <1>1, <2>1
  <2>3. Typed(d)
    BY <1>1, <1>2, <2>2
  <2> QED  BY <1>4, <2>3 DEF d
<1>9. CASE b.stage = 4
  <2> DEFINE done == b.have + 1 >= b.want
             held == [b.buffer EXCEPT ![b.have + 1] = c]
  <2>1. held \in Buffer
    BY <1>1
  <2>2. d = [b EXCEPT !.buffer = held, !.have = b.have + 1, !.stage = IF done THEN 0 ELSE 4,
                      !.frames = IF done THEN b.frames + 1 ELSE b.frames]
    BY <1>9 DEF BenchByte, BenchReader
  <2> HIDE DEF d, Buffer, held, done
  <2>3. \/ d = Made(0, b.want, b.have + 1, held, b.lost, b.frames + 1)
        \/ d = Made(4, b.want, b.have + 1, held, b.lost, b.frames)
    BY <1>1, <2>2
  <2>4. Typed(d)
    BY <1>1, <1>2, <2>1, <2>3
  <2> QED  BY <1>4, <2>4 DEF d
<1> QED  BY <1>1, <1>5, <1>6, <1>7, <1>8, <1>9

\* The bench's reader after each byte of a chunk is what the recursion says it is.
LEMMA BenchThroughIs ==
  ASSUME NEW b \in BenchReader, NEW u \in Seq(Byte)
  PROVE  /\ BenchThrough(b, u, 0) \in [0..Len(u) -> BenchReader]
         /\ BenchThrough(b, u, 0)[0] = b
         /\ \A n \in 1..Len(u) : BenchThrough(b, u, 0)[n] = BenchByte(BenchThrough(b, u, 0)[n - 1], u[n])
<1> DEFINE V == BenchReader
           N == Len(u)
           f == [x \in V \X (1..N) |-> BenchByte(x[1], u[x[2]])]
<1>1. f \in [V \X (1..N) -> V]
  <2>1. \A x \in V \X (1..N) : x[1] \in BenchReader /\ u[x[2]] \in Byte
    BY ElementOfSeq
  <2> QED  BY <2>1, BenchByteIs
<1>2. N \in Nat /\ b \in V
  OBVIOUS
<1> HIDE DEF V, N
<1>3. PICK g \in [0..N -> V] : g[0] = b /\ \A n \in 1..N : g[n] = f[<<g[n - 1], n>>]
  <2> HIDE DEF f
  <2>1. \E g : Recurs(g, N, V, b, f)
    BY <1>1, <1>2, Recursion
  <2> QED  BY <2>1 DEF Recurs
<1>4. \A n \in 1..N : g[n] = BenchByte(g[n - 1], u[n])
  <2> TAKE n \in 1..N
  <2>1. <<g[n - 1], n>> \in V \X (1..N)
    BY <1>2, <1>3
  <2> QED  BY <1>3, <2>1
<1>5. g = [n \in 0..N |-> IF n <= 0 THEN b ELSE BenchByte(g[n - 1], u[n])]
  <2>1. \A n \in 0..N : n # 0 => n \in 1..N
    BY <1>2
  <2>2. \A n \in 0..N : n <= 0 <=> n = 0
    BY <1>2
  <2>3. \A n \in 0..N : g[n] = IF n <= 0 THEN b ELSE BenchByte(g[n - 1], u[n])
    BY <1>3, <1>4, <2>1, <2>2
  <2> QED  BY <1>3, <2>3
<1> DEFINE h == BenchThrough(b, u, 0)
           S == {n \in 0..N : h[n] \in V}
<1>6. h = [n \in 0..N |-> IF n <= 0 THEN b ELSE BenchByte(h[n - 1], u[n])]
  BY <1>5 DEF BenchThrough, N
<1> HIDE DEF h
<1>7. h[0] = b /\ \A n \in 1..N : h[n] = BenchByte(h[n - 1], u[n])
  BY <1>2, <1>6
<1>8. \A n \in 0..N - 1 : n \in S => n + 1 \in S
  <2> TAKE n \in 0..N - 1
  <2>1. n + 1 \in 1..N /\ (n + 1) - 1 = n /\ u[n + 1] \in Byte
    BY <1>2, ElementOfSeq DEF N
  <2> QED  BY <1>7, <2>1, BenchByteIs DEF V
<1>9. 0..N \subseteq S
  <2>1. 0 \in S
    BY <1>2, <1>7
  <2> HIDE DEF S
  <2> QED  BY <1>2, <1>8, <2>1, BoundedInduction
<1>10. h \in [0..N -> V]
  BY <1>6, <1>9
<1> QED  BY <1>7, <1>10 DEF h, V, N

\* However much a read brings, the bench's reader and the board's stop after the
\* same byte of it, at the same frame or at the end, and are alike there
\* (hoststub.py:1231).
THEOREM OneStream ==
  ASSUME NEW s \in Reader, NEW b \in BenchReader, NEW u \in Seq(Byte)
  PROVE  SameFeed(s, b, u)
<1> DEFINE N == Len(u)
           T == Through(s, u)
           D == BenchThrough(b, u, 0)
<1> SUFFICES ASSUME Alike(s, b)
             PROVE  /\ BenchFeed(b, u, 0).next = Taken(s, u)
                    /\ Alike(T[Taken(s, u)], BenchFeed(b, u, 0).state)
                    /\ BenchCounts(BenchFeed(b, u, 0).state)[3]
                         = IF T[Taken(s, u)].stage = "body" THEN Len(T[Taken(s, u)].body) ELSE 0
  BY DEF SameFeed
<1>1. /\ N \in Nat
      /\ T \in [0..N -> Reader] /\ T[0] = s /\ \A n \in 1..N : T[n] = Fed(T[n - 1], u[n])
      /\ D \in [0..N -> BenchReader] /\ D[0] = b /\ \A n \in 1..N : D[n] = BenchByte(D[n - 1], u[n])
      /\ \A n \in 1..N : u[n] \in Byte
  BY ThroughIs, BenchThroughIs, ElementOfSeq
<1>2. /\ Taken(s, u) = LET ends == {n \in 1..N : Ends(T[n - 1], u[n])}
                       IN IF ends = {} THEN N ELSE CHOOSE n \in ends : \A m \in ends : n <= m
      /\ BenchFeed(b, u, 0) =
           LET ends == {n \in (0 + 1)..N : BenchEnds(D[n - 1], u[n])}
               stop == CHOOSE n \in ends : \A m \in ends : n <= m
           IN IF ends = {} THEN [state |-> D[N], length |-> 0, next |-> N]
              ELSE [state |-> D[stop], length |-> D[stop].have, next |-> stop]
  BY DEF Taken, BenchFeed
<1> HIDE DEF N, T, D
<1>3. \A n \in 1..N : n - 1 \in 0..N
  BY <1>1
<1>4. ASSUME NEW n \in 1..N, Alike(T[n - 1], D[n - 1])
      PROVE  Alike(T[n], D[n]) /\ Ends(T[n - 1], u[n]) = BenchEnds(D[n - 1], u[n])
  <2>1. T[n - 1] \in Reader /\ D[n - 1] \in BenchReader /\ u[n] \in Byte
    BY <1>1, <1>3
  <2>2. SameByte(T[n - 1], D[n - 1], u[n])
    BY <2>1, OneReader
  <2> QED  BY <1>1, <1>4, <2>2 DEF SameByte
<1>5. \A n \in 0..N : Alike(T[n], D[n])
  <2> DEFINE S == {n \in 0..N : Alike(T[n], D[n])}
  <2>1. 0 \in S
    BY <1>1
  <2>2. \A n \in 0..N - 1 : n \in S => n + 1 \in S
    <3> TAKE n \in 0..N - 1
    <3>1. n + 1 \in 1..N /\ (n + 1) - 1 = n
      BY <1>1
    <3> QED  BY <1>4, <3>1
  <2> HIDE DEF S
  <2>3. 0..N \subseteq S
    BY <1>1, <2>1, <2>2, BoundedInduction
  <2> QED  BY <2>3 DEF S
<1> DEFINE ends == {n \in 1..N : Ends(T[n - 1], u[n])}
           taken == IF ends = {} THEN N ELSE CHOOSE n \in ends : \A m \in ends : n <= m
<1>6. ends = {n \in (0 + 1)..N : BenchEnds(D[n - 1], u[n])}
  <2>1. \A n \in 1..N : Ends(T[n - 1], u[n]) = BenchEnds(D[n - 1], u[n])
    BY <1>3, <1>4, <1>5
  <2> QED  BY <2>1
<1>7. taken \in 0..N
  <2>1. CASE ends = {}
    BY <1>1, <2>1
  <2>2. CASE ends # {}
    <3>1. ends \subseteq Nat
      OBVIOUS
    <3> HIDE DEF ends
    <3>2. \E n \in ends : \A m \in ends : n <= m
      BY <2>2, <3>1, Least
    <3>3. taken \in ends
      BY <2>2, <3>2
    <3> QED  BY <1>1, <3>3 DEF ends
  <2> QED  BY <2>1, <2>2
<1>8. Taken(s, u) = taken /\ BenchFeed(b, u, 0).next = taken /\ BenchFeed(b, u, 0).state = D[taken]
  <2> HIDE DEF ends
  <2>1. Taken(s, u) = taken
    BY <1>2 DEF ends
  <2>2. BenchFeed(b, u, 0) =
          LET stop == CHOOSE n \in ends : \A m \in ends : n <= m
          IN IF ends = {} THEN [state |-> D[N], length |-> 0, next |-> N]
             ELSE [state |-> D[stop], length |-> D[stop].have, next |-> stop]
    BY <1>2, <1>6
  <2>3. CASE ends = {}
    BY <2>1, <2>2, <2>3
  <2>4. CASE ends # {}
    <3> DEFINE stop == CHOOSE n \in ends : \A m \in ends : n <= m
    <3>1. taken = stop
      BY <2>4
    <3> HIDE DEF stop, taken
    <3>2. BenchFeed(b, u, 0) = [state |-> D[stop], length |-> D[stop].have, next |-> stop]
      BY <2>2, <2>4 DEF stop
    <3> QED  BY <2>1, <3>1, <3>2
  <2> QED  BY <2>3, <2>4
<1> HIDE DEF taken
<1>9. Alike(T[taken], D[taken]) /\ T[taken] \in Reader
  BY <1>1, <1>5, <1>7
<1>10. BenchCounts(D[taken])[3] = IF T[taken].stage = "body" THEN Len(T[taken].body) ELSE 0
  <2>1. D[taken].stage = 4 <=> T[taken].stage = "body"
    BY <1>9 DEF Alike, Numbered, Reader, Stages
  <2>2. T[taken].stage = "body" => D[taken].have = Len(T[taken].body)
    BY <1>9 DEF Alike
  <2> QED  BY <2>1, <2>2 DEF BenchCounts
<1> QED  BY <1>8, <1>9, <1>10

=============================================================================
