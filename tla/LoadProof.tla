------------------------------ MODULE LoadProof ------------------------------
(***************************************************************************)
(* Proofs about module Load, for any files, any number of cells on any     *)
(* lines and any growth of the array of the events, and at the end about   *)
(* module Link, whose functions the signatures that Load reads call.       *)
(*                                                                         *)
(* The invariant relates the engine's structures to Written, the text that *)
(* has been read: the items in the order of their lines, alternative by    *)
(* alternative.  Every item that is written waits with the event of its    *)
(* name (Waiting), the items are numbered in that order (Counted), and the *)
(* events are those that the files declare (Declared).                     *)
(***************************************************************************)
EXTENDS Load, Link, SequenceTheorems, WellFoundedInduction, TLAPS

-----------------------------------------------------------------------------
(* Recursive functions.  A set of numbers that has 0 and is closed under   *)
(* the successor has them all; with it, a definition by recursion has its  *)
(* function, and FlattenSeq and ItemsFor satisfy their equations.          *)

LEMMA SetInduction ==
  ASSUME NEW T \in SUBSET Nat, 0 \in T, \A n \in T : n + 1 \in T
  PROVE  T = Nat
<1> SUFFICES ASSUME Nat \ T # {} PROVE FALSE
  OBVIOUS
<1>1. IsWellFoundedOn(OpToRel(<, Nat), Nat)
  BY NatLessThanWellFounded
<1>2. PICK x \in Nat \ T : \A y \in Nat \ T : ~(<<y, x>> \in OpToRel(<, Nat))
  <2>1. Nat \ T \subseteq Nat OBVIOUS
  <2> QED BY <1>1, <2>1, WFMin, Zenon
<1>3. x # 0 /\ x - 1 \in Nat
  OBVIOUS
<1>4. x - 1 \in Nat \ T
  BY <1>3
<1>5. <<x - 1, x>> \in OpToRel(<, Nat)
  <2>1. x - 1 < x BY <1>3
  <2> QED BY <2>1, <1>3, Zenon DEF OpToRel
<1> QED BY <1>2, <1>4, <1>5

Recursive(f, b, g, m, n) == f[m] = b /\ \A i \in m + 1 .. n : f[i] = g[<<i, f[i - 1]>>]

LEMMA RecursionExists ==
  ASSUME NEW S, NEW b \in S, NEW m \in Int, NEW n \in Nat,
         NEW g \in [Int \X S -> S]
  PROVE  \E f \in [m..m + n -> S] : Recursive(f, b, g, m, m + n)
<1> DEFINE T == {k \in Nat : \E f \in [m..m + k -> S] : Recursive(f, b, g, m, m + k)}
<1>1. 0 \in T
  <2> DEFINE f == [i \in m..m + 0 |-> b]
  <2>1. f \in [m..m + 0 -> S] /\ Recursive(f, b, g, m, m + 0)
    BY DEF Recursive
  <2> QED BY <2>1, Zenon
<1>2. ASSUME NEW k \in T PROVE k + 1 \in T
  <2>1. PICK f \in [m..m + k -> S] : Recursive(f, b, g, m, m + k)
    OBVIOUS
  <2> DEFINE h == [i \in m..m + (k + 1) |->
                     IF i <= m + k THEN f[i] ELSE g[<<i, f[i - 1]>>]]
  <2>2. h \in [m..m + (k + 1) -> S]
    <3> SUFFICES ASSUME NEW i \in m..m + (k + 1)
                 PROVE  (IF i <= m + k THEN f[i] ELSE g[<<i, f[i - 1]>>]) \in S
      OBVIOUS
    <3>1. CASE i <= m + k  BY <3>1
    <3>2. CASE i = m + (k + 1)
      <4>1. i - 1 \in m..m + k BY <3>2
      <4>2. f[i - 1] \in S BY <4>1
      <4> QED BY <3>2, <4>2
    <3> QED BY <3>1, <3>2
  <2>3. Recursive(h, b, g, m, m + (k + 1))
    <3>1. h[m] = b BY <2>1 DEF Recursive
    <3>2. ASSUME NEW i \in m + 1 .. m + (k + 1) PROVE h[i] = g[<<i, h[i - 1]>>]
      <4>1. i - 1 \in m..m + k /\ i - 1 <= m + k /\ i - 1 \in m..m + (k + 1) OBVIOUS
      <4>2. h[i - 1] = f[i - 1] BY <4>1
      <4>3. CASE i <= m + k
        <5>1. i \in m + 1 .. m + k /\ h[i] = f[i] BY <4>3
        <5> QED BY <4>2, <5>1, <2>1 DEF Recursive
      <4>4. CASE i = m + (k + 1)
        <5>1. h[i] = g[<<i, f[i - 1]>>] BY <4>4
        <5> QED BY <5>1, <4>2
      <4> QED BY <4>3, <4>4
    <3> QED BY <3>1, <3>2 DEF Recursive
  <2>4. k + 1 \in Nat OBVIOUS
  <2> HIDE DEF h
  <2> QED BY <2>2, <2>3, <2>4, Zenon
<1> HIDE DEF T
<1>3. T = Nat
  <2>1. T \in SUBSET Nat BY DEF T
  <2> QED BY <1>1, <1>2, <2>1, SetInduction
<1>4. n \in T
  BY <1>3
<1> QED BY <1>4 DEF T


IsFlattening(f, s, S) ==
  /\ f \in [0..Len(s) -> Seq(S)]
  /\ f[0] = <<>>
  /\ \A i \in 1..Len(s) : f[i] = f[i - 1] \o s[i]

LEMMA FlatteningExists ==
  ASSUME NEW S, NEW s \in Seq(Seq(S))
  PROVE  \E f : IsFlattening(f, s, S)
<1> DEFINE g == [p \in Int \X Seq(S) |->
                   IF p[1] \in 1..Len(s) THEN p[2] \o s[p[1]] ELSE p[2]]
<1>1. g \in [Int \X Seq(S) -> Seq(S)]
  <2> SUFFICES ASSUME NEW i \in Int, NEW x \in Seq(S), i \in 1..Len(s) PROVE x \o s[i] \in Seq(S)
    OBVIOUS
  <2>1. s[i] \in Seq(S) BY ElementOfSeq
  <2> QED BY <2>1
<1>2. Len(s) \in Nat /\ 0 \in Int /\ <<>> \in Seq(S) OBVIOUS
<1> HIDE DEF g
<1>3. PICK f \in [0..0 + Len(s) -> Seq(S)] : Recursive(f, <<>>, g, 0, 0 + Len(s))
  BY <1>1, <1>2, RecursionExists
<1>4. \A i \in 1..Len(s) : f[i] = f[i - 1] \o s[i]
  <2> SUFFICES ASSUME NEW i \in 1..Len(s) PROVE f[i] = f[i - 1] \o s[i]
    OBVIOUS
  <2>1. f[i] = g[<<i, f[i - 1]>>] BY <1>3 DEF Recursive
  <2>2. f[i - 1] \in Seq(S) /\ i \in Int
    <3>1. i - 1 \in 0..0 + Len(s) /\ i \in Int BY <1>2
    <3> QED BY <3>1, <1>3
  <2>3. g[<<i, f[i - 1]>>] = f[i - 1] \o s[i] BY <2>2 DEF g
  <2> QED BY <2>1, <2>3
<1>5. 0 + Len(s) = Len(s) BY <1>2
<1>6. IsFlattening(f, s, S) BY <1>3, <1>4, <1>5 DEF Recursive, IsFlattening
<1> QED BY <1>6

LEMMA Flattening ==
  ASSUME NEW S, NEW s \in Seq(Seq(S)), NEW f, IsFlattening(f, s, S)
  PROVE  FlattenSeq(s) = f[Len(s)]
<1>1. CASE Len(s) = 0
  BY <1>1, EmptySeq DEF FlattenSeq, IsFlattening
<1>2. CASE Len(s) # 0
  <2> DEFINE Eq(F) == F = [i \in 1..Len(s) |-> IF i = 1 THEN s[i] ELSE F[i - 1] \o s[i]]
             w == [i \in 1..Len(s) |-> f[i]]
             F == CHOOSE F : Eq(F)
  <2>1. Eq(w)
    <3> SUFFICES ASSUME NEW i \in 1..Len(s)
                 PROVE  f[i] = IF i = 1 THEN s[i] ELSE w[i - 1] \o s[i]
      BY Zenon
    <3>1. f[i] = f[i - 1] \o s[i] BY DEF IsFlattening
    <3>2. CASE i = 1
      <4>1. s[1] \in Seq(S) BY <3>2, ElementOfSeq
      <4>2. f[0] = <<>> BY DEF IsFlattening
      <4>3. i - 1 = 0 BY <3>2
      <4>4. f[i] = <<>> \o s[1] BY <3>1, <3>2, <4>2, <4>3
      <4>5. <<>> \o s[1] = s[1] BY <4>1, ConcatEmptySeq
      <4> QED BY <4>4, <4>5, <3>2
    <3>3. CASE i # 1
      <4>1. w[i - 1] = f[i - 1] BY <3>3
      <4> QED BY <3>1, <3>3, <4>1
    <3> QED BY <3>2, <3>3
  <2>2. Eq(F)
    <3> HIDE DEF Eq, w
    <3> QED BY <2>1, Zenon
  <2>3. FlattenSeq(s) = F[Len(s)] BY <1>2, Zenon DEF FlattenSeq
  <2> DEFINE T == {k \in Nat : k + 1 <= Len(s) => F[k + 1] = w[k + 1]}
  <2> HIDE DEF F
  <2>4. 0 \in T
    <3>1. F[1] = s[1] /\ w[1] = s[1]
      <4>1. 1 \in 1..Len(s) BY <1>2
      <4> HIDE DEF w
      <4> QED BY <4>1, <2>1, <2>2
    <3> QED BY <3>1
  <2>5. ASSUME NEW k \in T PROVE k + 1 \in T
    <3> SUFFICES ASSUME (k + 1) + 1 <= Len(s) PROVE F[(k + 1) + 1] = w[(k + 1) + 1]
      OBVIOUS
    <3>1. F[k + 1] = w[k + 1] OBVIOUS
    <3>2. (k + 1) + 1 \in 1..Len(s) /\ (k + 1) + 1 # 1 /\ ((k + 1) + 1) - 1 = k + 1 OBVIOUS
    <3> HIDE DEF w, T
    <3>3. F[(k + 1) + 1] = F[k + 1] \o s[(k + 1) + 1] BY <3>2, <2>2
    <3>4. w[(k + 1) + 1] = w[k + 1] \o s[(k + 1) + 1] BY <3>2, <2>1
    <3> QED BY <3>1, <3>3, <3>4
  <2>6. T = Nat
    <3> HIDE DEF T
    <3>1. T \in SUBSET Nat BY DEF T
    <3> QED BY <2>4, <2>5, <3>1, SetInduction
  <2>7. Len(s) - 1 \in Nat /\ (Len(s) - 1) + 1 = Len(s) BY <1>2, LenProperties
  <2>8. Len(s) - 1 \in T
    <3> HIDE DEF T
    <3> QED BY <2>6, <2>7
  <2>9. F[Len(s)] = w[Len(s)]
    <3> HIDE DEF w
    <3> QED BY <2>7, <2>8
  <2>10. w[Len(s)] = f[Len(s)] BY <2>7
  <2> QED BY <2>3, <2>9, <2>10
<1> QED BY <1>1, <1>2

LEMMA FlattenType ==
  ASSUME NEW S, NEW s \in Seq(Seq(S))
  PROVE  FlattenSeq(s) \in Seq(S)
<1>1. PICK f : IsFlattening(f, s, S) BY FlatteningExists
<1>2. Len(s) \in 0..Len(s) BY LenProperties
<1>3. f[Len(s)] \in Seq(S) BY <1>1, <1>2 DEF IsFlattening
<1> QED BY <1>1, <1>3, Flattening

LEMMA FlattenEmpty == FlattenSeq(<<>>) = <<>>
BY DEF FlattenSeq

LEMMA FlattenConcat ==
  ASSUME NEW S, NEW s \in Seq(Seq(S)), NEW t \in Seq(Seq(S))
  PROVE  FlattenSeq(s \o t) = FlattenSeq(s) \o FlattenSeq(t)
<1>1. PICK f : IsFlattening(f, s, S) BY FlatteningExists
<1>2. PICK g : IsFlattening(g, t, S) BY FlatteningExists
<1> DEFINE h == [i \in 0..Len(s \o t) |->
                   IF i <= Len(s) THEN f[i] ELSE f[Len(s)] \o g[i - Len(s)]]
<1>3. Len(s \o t) = Len(s) + Len(t) /\ Len(s) \in Nat /\ Len(t) \in Nat /\ s \o t \in Seq(Seq(S))
  OBVIOUS
<1>4. h \in [0..Len(s \o t) -> Seq(S)]
  <2> SUFFICES ASSUME NEW i \in 0..Len(s \o t)
               PROVE  (IF i <= Len(s) THEN f[i] ELSE f[Len(s)] \o g[i - Len(s)]) \in Seq(S)
    OBVIOUS
  <2>1. CASE i <= Len(s)
    <3>1. i \in 0..Len(s) BY <2>1, <1>3
    <3> QED BY <3>1, <2>1, <1>1 DEF IsFlattening
  <2>2. CASE ~(i <= Len(s))
    <3>1. i - Len(s) \in 0..Len(t) /\ Len(s) \in 0..Len(s) BY <2>2, <1>3
    <3>2. g[i - Len(s)] \in Seq(S) /\ f[Len(s)] \in Seq(S) BY <3>1, <1>1, <1>2 DEF IsFlattening
    <3> QED BY <3>2, <2>2
  <2> QED BY <2>1, <2>2
<1>5. h[0] = <<>> BY <1>1, <1>3 DEF IsFlattening
<1>6. ASSUME NEW i \in 1..Len(s \o t) PROVE h[i] = h[i - 1] \o (s \o t)[i]
  <2>1. i \in 0..Len(s \o t) /\ i - 1 \in 0..Len(s \o t) BY <1>3
  <2>2. CASE i <= Len(s)
    <3>1. h[i] = f[i] /\ h[i - 1] = f[i - 1] BY <2>1, <2>2, <1>3
    <3>2. (s \o t)[i] = s[i] BY <2>2, ConcatProperties, <1>3
    <3>3. i \in 1..Len(s) BY <2>2, <1>3
    <3> HIDE DEF h
    <3> QED BY <3>1, <3>2, <3>3, <1>1 DEF IsFlattening
  <2>3. CASE ~(i <= Len(s))
    <3> DEFINE j == i - Len(s)
    <3>1. j \in 1..Len(t) /\ j - 1 \in 0..Len(t) /\ Len(s) \in 0..Len(s) BY <2>3, <1>3
    <3>2. (s \o t)[i] = t[j] BY <2>3, <1>3
    <3>3. h[i] = f[Len(s)] \o g[j] BY <2>1, <2>3
    <3>4. g[j] = g[j - 1] \o t[j] BY <3>1, <1>2 DEF IsFlattening
    <3>5. h[i - 1] = f[Len(s)] \o g[j - 1]
      <4>1. f[Len(s)] \in Seq(S) /\ g[0] = <<>> BY <3>1, <1>1, <1>2 DEF IsFlattening
      <4>2. CASE i - 1 <= Len(s)
        <5>1. i - 1 = Len(s) /\ j - 1 = 0 BY <4>2, <2>3, <1>3
        <5>2. h[i - 1] = f[Len(s)] BY <5>1, <2>1
        <5>3. f[Len(s)] \o g[j - 1] = f[Len(s)]
          <6>1. g[j - 1] = <<>> BY <5>1, <4>1
          <6> QED BY <6>1, <4>1, ConcatEmptySeq
        <5> QED BY <5>2, <5>3
      <4>3. CASE ~(i - 1 <= Len(s))
        <5>1. j - 1 = (i - 1) - Len(s) BY <1>3
        <5> QED BY <5>1, <4>3, <2>1
      <4> QED BY <4>2, <4>3
    <3>6. t[j] \in Seq(S) /\ g[j - 1] \in Seq(S) /\ f[Len(s)] \in Seq(S)
      BY <3>1, <1>1, <1>2, ElementOfSeq DEF IsFlattening
    <3> HIDE DEF h, j
    <3>7. (f[Len(s)] \o g[j - 1]) \o t[j] = f[Len(s)] \o (g[j - 1] \o t[j])
      <4> DEFINE x == f[Len(s)]
                 y == g[j - 1]
                 z == t[j]
      <4>1. x \in Seq(S) /\ y \in Seq(S) /\ z \in Seq(S) BY <3>6
      <4> HIDE DEF x, y, z
      <4>2. (x \o y) \o z = x \o (y \o z) BY <4>1, ConcatAssociative, SMTT(20)
      <4> QED BY <4>2 DEF x, y, z
    <3> QED BY <3>2, <3>3, <3>4, <3>5, <3>7
  <2> QED BY <2>2, <2>3
<1>7. IsFlattening(h, s \o t, S)
  BY <1>4, <1>5, <1>6 DEF IsFlattening
<1>8. h[Len(s \o t)] = f[Len(s)] \o g[Len(t)]
  <2>0. Len(s \o t) \in 0..Len(s \o t) BY <1>3
  <2>1. CASE Len(t) = 0
    <3>1. g[Len(t)] = <<>> /\ f[Len(s)] \in Seq(S) BY <2>1, <1>1, <1>2, <1>3 DEF IsFlattening
    <3>2. h[Len(s \o t)] = f[Len(s)] BY <2>0, <2>1, <1>3
    <3>3. f[Len(s)] \o g[Len(t)] = f[Len(s)] BY <3>1
    <3> QED BY <3>2, <3>3
  <2>2. CASE Len(t) # 0
    <3>1. ~(Len(s) + Len(t) <= Len(s)) /\ (Len(s) + Len(t)) - Len(s) = Len(t) BY <2>2, <1>3
    <3> QED BY <3>1, <2>0, <1>3
  <2> QED BY <2>1, <2>2
<1> HIDE DEF h
<1> QED BY <1>1, <1>2, <1>3, <1>7, <1>8, Flattening

LEMMA ConcatAppend ==
  ASSUME NEW S, NEW s \in Seq(S), NEW t \in Seq(S), NEW x \in S
  PROVE  s \o Append(t, x) = Append(s \o t, x)
OBVIOUS

LEMMA FlattenOne ==
  ASSUME NEW S, NEW t \in Seq(S)
  PROVE  FlattenSeq(<<t>>) = t
<1> DEFINE f == [i \in 0..1 |-> IF i = 0 THEN <<>> ELSE t]
<1>1. IsFlattening(f, <<t>>, S) BY DEF IsFlattening
<1>2. <<t>> \in Seq(Seq(S)) /\ Len(<<t>>) = 1 OBVIOUS
<1>3. FlattenSeq(<<t>>) = f[1] BY <1>1, <1>2, Flattening
<1> QED BY <1>3

LEMMA FlattenAppend ==
  ASSUME NEW S, NEW s \in Seq(Seq(S)), NEW t \in Seq(S)
  PROVE  FlattenSeq(Append(s, t)) = FlattenSeq(s) \o t
<1>1. Append(s, t) = s \o <<t>> OBVIOUS
<1>2. <<t>> \in Seq(Seq(S)) OBVIOUS
<1>3. FlattenSeq(s \o <<t>>) = FlattenSeq(s) \o FlattenSeq(<<t>>)
  BY <1>2, FlattenConcat
<1> QED BY <1>1, <1>3, FlattenOne

LEMMA FlattenExtend ==
  ASSUME NEW S, NEW s \in Seq(Seq(S)), s # <<>>, NEW x \in S
  PROVE  FlattenSeq([s EXCEPT ![Len(s)] = Append(@, x)]) = Append(FlattenSeq(s), x)
<1> DEFINE l == s[Len(s)]
           front == [i \in 1..Len(s) - 1 |-> s[i]]
<1>1. Len(s) \in Nat \ {0} /\ Len(s) \in DOMAIN s BY EmptySeq
<1>2. l \in Seq(S) BY <1>1, ElementOfSeq
<1>3. front \in Seq(Seq(S)) /\ Len(front) = Len(s) - 1
  <2>1. Len(s) - 1 \in Nat BY <1>1
  <2>2. \A i \in 1..Len(s) - 1 : s[i] \in Seq(S) BY <1>1, ElementOfSeq
  <2> QED BY <2>1, <2>2, IsASeq
<1>4. s = Append(front, l)
  <2>1. Append(front, l) \in Seq(Seq(S)) /\ Len(Append(front, l)) = Len(s) BY <1>1, <1>2, <1>3
  <2>2. ASSUME NEW i \in 1..Len(s) PROVE s[i] = Append(front, l)[i]
    BY <1>1, <1>3, <1>2
  <2> QED BY <2>1, <2>2, SeqEqual
<1>5. [s EXCEPT ![Len(s)] = Append(@, x)] = Append(front, Append(l, x))
  <2> DEFINE u == [s EXCEPT ![Len(s)] = Append(@, x)]
             v == Append(front, Append(l, x))
  <2>1. Append(l, x) \in Seq(S) BY <1>2
  <2>2. u \in Seq(Seq(S)) /\ Len(u) = Len(s) BY <2>1, <1>1, ExceptSeq
  <2>3. v \in Seq(Seq(S)) /\ Len(v) = Len(s) BY <2>1, <1>1, <1>3
  <2>4. ASSUME NEW i \in 1..Len(s) PROVE u[i] = v[i]
    BY <1>1, <1>3, <2>1
  <2> HIDE DEF u, v
  <2> QED BY <2>2, <2>3, <2>4, SeqEqual
<1>6. FlattenSeq(front) \in Seq(S) BY <1>3, FlattenType
<1> HIDE DEF l, front
<1>7. FlattenSeq(s) = FlattenSeq(front) \o l BY <1>2, <1>3, <1>4, FlattenAppend
<1>8. Append(l, x) \in Seq(S) BY <1>2
<1>9. FlattenSeq(Append(front, Append(l, x))) = FlattenSeq(front) \o Append(l, x)
  BY <1>3, <1>8, FlattenAppend
<1>10. FlattenSeq(front) \o Append(l, x) = Append(FlattenSeq(front) \o l, x)
  BY <1>2, <1>6
<1> QED BY <1>5, <1>7, <1>9, <1>10

-----------------------------------------------------------------------------
(* The items that wait for an event.                                       *)

IsWalk(f, s, e, S) ==
  /\ f \in [0..Len(s) -> Seq(S)]
  /\ f[0] = <<>>
  /\ \A i \in 1..Len(s) :
       f[i] = IF s[i].event = e THEN Append(f[i - 1], s[i]) ELSE f[i - 1]

LEMMA WalkExists ==
  ASSUME NEW S, NEW s \in Seq(S), NEW e
  PROVE  \E f : IsWalk(f, s, e, S)
<1> DEFINE g == [p \in Int \X Seq(S) |->
                   IF p[1] \in 1..Len(s) /\ s[p[1]].event = e
                     THEN Append(p[2], s[p[1]]) ELSE p[2]]
<1>1. g \in [Int \X Seq(S) -> Seq(S)]
  <2> SUFFICES ASSUME NEW i \in Int, NEW x \in Seq(S), i \in 1..Len(s)
               PROVE  Append(x, s[i]) \in Seq(S)
    OBVIOUS
  <2>1. s[i] \in S BY ElementOfSeq
  <2> QED BY <2>1
<1>2. Len(s) \in Nat /\ 0 \in Int /\ <<>> \in Seq(S) OBVIOUS
<1> HIDE DEF g
<1>3. PICK f \in [0..0 + Len(s) -> Seq(S)] : Recursive(f, <<>>, g, 0, 0 + Len(s))
  BY <1>1, <1>2, RecursionExists
<1>4. ASSUME NEW i \in 1..Len(s)
      PROVE  f[i] = IF s[i].event = e THEN Append(f[i - 1], s[i]) ELSE f[i - 1]
  <2>1. f[i] = g[<<i, f[i - 1]>>] BY <1>3 DEF Recursive
  <2>2. f[i - 1] \in Seq(S) /\ i \in Int
    <3>1. i - 1 \in 0..0 + Len(s) /\ i \in Int BY <1>2
    <3> QED BY <3>1, <1>3
  <2>3. g[<<i, f[i - 1]>>] = IF s[i].event = e THEN Append(f[i - 1], s[i]) ELSE f[i - 1]
    BY <2>2 DEF g
  <2> QED BY <2>1, <2>3
<1>5. 0 + Len(s) = Len(s) BY <1>2
<1>6. IsWalk(f, s, e, S) BY <1>3, <1>4, <1>5 DEF Recursive, IsWalk
<1> QED BY <1>6

LEMMA Walk ==
  ASSUME NEW S, NEW s \in Seq(S), NEW e, NEW f, IsWalk(f, s, e, S)
  PROVE  ItemsFor(s, e) = f[Len(s)]
<1> DEFINE Eq(F) == F = [n \in 0..Len(s) |->
                           IF n = 0 THEN <<>>
                           ELSE IF s[n].event = e THEN Append(F[n - 1], s[n]) ELSE F[n - 1]]
           F == CHOOSE F : Eq(F)
<1>1. Eq(f)
  <2>1. ASSUME NEW n \in 0..Len(s)
        PROVE  f[n] = IF n = 0 THEN <<>>
                      ELSE IF s[n].event = e THEN Append(f[n - 1], s[n]) ELSE f[n - 1]
    <3>1. n = 0 \/ n \in 1..Len(s) BY LenProperties
    <3> QED BY <3>1 DEF IsWalk
  <2>2. f \in [0..Len(s) -> Seq(S)] BY DEF IsWalk
  <2> QED BY <2>1, <2>2
<1>2. Eq(F)
  <2> HIDE DEF Eq
  <2> QED BY <1>1, Zenon
<1>3. ItemsFor(s, e) = F[Len(s)] BY Zenon DEF ItemsFor
<1> DEFINE T == {k \in Nat : k <= Len(s) => F[k] = f[k]}
<1> HIDE DEF F
<1>4. 0 \in T
  <2>1. 0 \in 0..Len(s) BY LenProperties
  <2>2. F[0] = <<>> BY <2>1, <1>2
  <2> QED BY <2>2 DEF IsWalk
<1>5. ASSUME NEW k \in T PROVE k + 1 \in T
  <2> SUFFICES ASSUME k + 1 <= Len(s) PROVE F[k + 1] = f[k + 1]
    OBVIOUS
  <2>1. F[k] = f[k] BY LenProperties
  <2>2. k + 1 \in 1..Len(s) /\ k + 1 \in 0..Len(s) /\ k + 1 # 0 /\ (k + 1) - 1 = k
    BY LenProperties
  <2> HIDE DEF T
  <2>3. F[k + 1] = IF s[k + 1].event = e THEN Append(F[k], s[k + 1]) ELSE F[k]
    BY <2>2, <1>2
  <2>4. f[k + 1] = IF s[k + 1].event = e THEN Append(f[k], s[k + 1]) ELSE f[k]
    BY <2>2 DEF IsWalk
  <2> QED BY <2>1, <2>3, <2>4
<1>6. T = Nat
  <2> HIDE DEF T
  <2>1. T \in SUBSET Nat BY DEF T
  <2> QED BY <1>4, <1>5, <2>1, SetInduction
<1>7. Len(s) \in T
  <2> HIDE DEF T
  <2> QED BY <1>6, LenProperties
<1>8. Len(s) \in Nat BY LenProperties
<1> QED BY <1>3, <1>7, <1>8

LEMMA ItemsForType ==
  ASSUME NEW S, NEW s \in Seq(S), NEW e
  PROVE  ItemsFor(s, e) \in Seq(S)
<1>1. PICK f : IsWalk(f, s, e, S) BY WalkExists
<1>2. Len(s) \in 0..Len(s) BY LenProperties
<1>3. f[Len(s)] \in Seq(S) BY <1>1, <1>2 DEF IsWalk
<1> QED BY <1>1, <1>3, Walk

LEMMA ItemsForConcat ==
  ASSUME NEW S, NEW s \in Seq(S), NEW t \in Seq(S), NEW e
  PROVE  ItemsFor(s \o t, e) = ItemsFor(s, e) \o ItemsFor(t, e)
<1>1. PICK f : IsWalk(f, s, e, S) BY WalkExists
<1>2. PICK g : IsWalk(g, t, e, S) BY WalkExists
<1> DEFINE h == [i \in 0..Len(s \o t) |->
                   IF i <= Len(s) THEN f[i] ELSE f[Len(s)] \o g[i - Len(s)]]
<1>3. Len(s \o t) = Len(s) + Len(t) /\ Len(s) \in Nat /\ Len(t) \in Nat /\ s \o t \in Seq(S)
  OBVIOUS
<1>4. h \in [0..Len(s \o t) -> Seq(S)]
  <2> SUFFICES ASSUME NEW i \in 0..Len(s \o t)
               PROVE  (IF i <= Len(s) THEN f[i] ELSE f[Len(s)] \o g[i - Len(s)]) \in Seq(S)
    OBVIOUS
  <2>1. CASE i <= Len(s)
    <3>1. i \in 0..Len(s) BY <2>1, <1>3
    <3> QED BY <3>1, <2>1, <1>1 DEF IsWalk
  <2>2. CASE ~(i <= Len(s))
    <3>1. i - Len(s) \in 0..Len(t) /\ Len(s) \in 0..Len(s) BY <2>2, <1>3
    <3>2. g[i - Len(s)] \in Seq(S) /\ f[Len(s)] \in Seq(S) BY <3>1, <1>1, <1>2 DEF IsWalk
    <3> QED BY <3>2, <2>2
  <2> QED BY <2>1, <2>2
<1>5. h[0] = <<>> BY <1>1, <1>3 DEF IsWalk
<1>6. ASSUME NEW i \in 1..Len(s \o t)
      PROVE  h[i] = IF (s \o t)[i].event = e THEN Append(h[i - 1], (s \o t)[i]) ELSE h[i - 1]
  <2>1. i \in 0..Len(s \o t) /\ i - 1 \in 0..Len(s \o t) BY <1>3
  <2>2. CASE i <= Len(s)
    <3>1. h[i] = f[i] /\ h[i - 1] = f[i - 1] BY <2>1, <2>2, <1>3
    <3>2. (s \o t)[i] = s[i] BY <2>2, ConcatProperties, <1>3
    <3>3. i \in 1..Len(s) BY <2>2, <1>3
    <3> HIDE DEF h
    <3> QED BY <3>1, <3>2, <3>3, <1>1 DEF IsWalk
  <2>3. CASE ~(i <= Len(s))
    <3> DEFINE j == i - Len(s)
    <3>1. j \in 1..Len(t) /\ j - 1 \in 0..Len(t) /\ Len(s) \in 0..Len(s) BY <2>3, <1>3
    <3>2. (s \o t)[i] = t[j] BY <2>3, <1>3
    <3>3. h[i] = f[Len(s)] \o g[j] BY <2>1, <2>3
    <3>4. g[j] = IF t[j].event = e THEN Append(g[j - 1], t[j]) ELSE g[j - 1]
      BY <3>1, <1>2 DEF IsWalk
    <3>5. h[i - 1] = f[Len(s)] \o g[j - 1]
      <4>1. f[Len(s)] \in Seq(S) /\ g[0] = <<>> BY <3>1, <1>1, <1>2 DEF IsWalk
      <4>2. CASE i - 1 <= Len(s)
        <5>1. i - 1 = Len(s) /\ j - 1 = 0 BY <4>2, <2>3, <1>3
        <5>2. h[i - 1] = f[Len(s)] BY <5>1, <2>1
        <5>3. f[Len(s)] \o g[j - 1] = f[Len(s)]
          <6>1. g[j - 1] = <<>> BY <5>1, <4>1
          <6> QED BY <6>1, <4>1, ConcatEmptySeq
        <5> QED BY <5>2, <5>3
      <4>3. CASE ~(i - 1 <= Len(s))
        <5>1. j - 1 = (i - 1) - Len(s) BY <1>3
        <5> QED BY <5>1, <4>3, <2>1
      <4> QED BY <4>2, <4>3
    <3>6. t[j] \in S /\ g[j - 1] \in Seq(S) /\ f[Len(s)] \in Seq(S)
      BY <3>1, <1>1, <1>2, ElementOfSeq DEF IsWalk
    <3> HIDE DEF h, j
    <3>7. f[Len(s)] \o Append(g[j - 1], t[j]) = Append(f[Len(s)] \o g[j - 1], t[j])
      <4> DEFINE x == f[Len(s)]
                 y == g[j - 1]
                 z == t[j]
      <4>1. x \in Seq(S) /\ y \in Seq(S) /\ z \in S BY <3>6
      <4> HIDE DEF x, y, z
      <4>2. x \o Append(y, z) = Append(x \o y, z) BY <4>1, ConcatAppend
      <4> QED BY <4>2 DEF x, y, z
    <3> QED BY <3>2, <3>3, <3>4, <3>5, <3>7
  <2> QED BY <2>2, <2>3
<1>7. IsWalk(h, s \o t, e, S)
  BY <1>4, <1>5, <1>6 DEF IsWalk
<1>8. h[Len(s \o t)] = f[Len(s)] \o g[Len(t)]
  <2>0. Len(s \o t) \in 0..Len(s \o t) BY <1>3
  <2>1. CASE Len(t) = 0
    <3>1. g[Len(t)] = <<>> /\ f[Len(s)] \in Seq(S) BY <2>1, <1>1, <1>2, <1>3 DEF IsWalk
    <3>2. h[Len(s \o t)] = f[Len(s)] BY <2>0, <2>1, <1>3
    <3>3. f[Len(s)] \o g[Len(t)] = f[Len(s)] BY <3>1
    <3> QED BY <3>2, <3>3
  <2>2. CASE Len(t) # 0
    <3>1. ~(Len(s) + Len(t) <= Len(s)) /\ (Len(s) + Len(t)) - Len(s) = Len(t) BY <2>2, <1>3
    <3> QED BY <3>1, <2>0, <1>3
  <2> QED BY <2>1, <2>2
<1> HIDE DEF h
<1> QED BY <1>1, <1>2, <1>3, <1>7, <1>8, Walk

LEMMA ItemsForNone ==
  ASSUME NEW S, NEW s \in Seq(S), NEW e, \A k \in 1..Len(s) : s[k].event # e
  PROVE  ItemsFor(s, e) = <<>>
<1> DEFINE f == [i \in 0..Len(s) |-> <<>>]
<1>1. IsWalk(f, s, e, S)
  <2>1. Len(s) \in Nat BY LenProperties
  <2>2. f \in [0..Len(s) -> Seq(S)] OBVIOUS
  <2>3. f[0] = <<>> BY <2>1
  <2>4. ASSUME NEW i \in 1..Len(s) PROVE f[i] = f[i - 1]
    BY <2>1
  <2> HIDE DEF f
  <2> QED BY <2>2, <2>3, <2>4 DEF IsWalk
<1>2. Len(s) \in 0..Len(s) BY LenProperties
<1>3. f[Len(s)] = <<>> BY <1>2
<1> HIDE DEF f
<1> QED BY <1>1, <1>3, Walk

Items   == [rhs_id : Nat, event : Names]
Entries == [id : Nat, alternatives : Seq(Seq(Items))]

TypesOK ==
  /\ files \in Inputs /\ file \in 1..Len(files)
  /\ stage \in {"open", "imports", "events", "number", "items", "arrays",
                "loaded", "failed", "crashed"}
  /\ at \in Nat \ {0}
  /\ stage = "items" => at <= Len(File.signatures)
  /\ text \in [Cells -> Names \cup {"nothing", "token"}] /\ used \subseteq Cells /\ copy \in Cells
  /\ attached \subseteq [cell : Cells, library : Names] /\ imported \subseteq Cells
  /\ event \in Seq(Names) /\ size \in Nat /\ waiting \in Seq(Seq(Items))
  /\ declared \in Seq(Nat) /\ rhs_id \in Nat
  /\ alts \in Seq(Seq(Items)) /\ \A n \in 1..Len(alts) : alts[n] # <<>>
  /\ parsed \in Seq(Entries) /\ list \in Seq(Entries)
  /\ stage \in {"open", "imports", "events", "arrays", "loaded"} => parsed = <<>>

Numbered ==
  /\ hash = {Inserted[n].id : n \in 1..Len(Inserted)}
  /\ stage = "items" => Signature.id \notin hash
  /\ NumbersUnique

\* The %events of the file so far are the first of those in the file.
Declared ==
  /\ \A m, n \in 1..Len(event) : event[m] = event[n] => m = n
  /\ Len(event) = Len(waiting) /\ Len(event) <= size
  /\ stage \in {"open", "imports"} => declared = <<>>
  /\ stage = "events" => Len(declared) = at - 1
  /\ Len(declared) <= Len(File.events)
  /\ \A n \in 1..Len(declared) :
       declared[n] \in 1..Len(event) /\ event[declared[n]] = File.events[n]
  /\ CrashIfRepeated

Alive == stage \notin {"failed", "crashed"}

Imported ==
  /\ LibrariesKnown
  /\ Alive => imported \subseteq used
  /\ stage \in {"open", "arrays"} => imported = {}
  /\ Parsing =>
       copy \in used /\ copy \notin imported /\ \A l \in attached : l.cell # copy

\* Every alternative so far, those of the signature under way the last.
Settled == FlattenSeq([n \in DOMAIN Inserted |-> Inserted[n].alternatives])
Under   == IF stage = "items" THEN alts ELSE <<>>
Written == Settled \o Under

Waiting ==
  Alive =>
    /\ \A n \in 1..Len(event) : waiting[n] = ItemsFor(InsertedItems, event[n])
    /\ \A k \in 1..Len(FlattenSeq(Written)) :
         \E n \in 1..Len(event) : event[n] = FlattenSeq(Written)[k].event

\* The items of an alternative have one number after the other; alternatives
\* have different ones.
Counted ==
  Alive =>
    /\ Len(FlattenSeq(Written)) = rhs_id
    /\ \A k \in 1..rhs_id : FlattenSeq(Written)[k].rhs_id = k
    /\ \A n \in 1..Len(Written) : \A k \in 1..Len(Written[n]) :
         /\ Written[n][k].rhs_id = Written[n][1].rhs_id + k - 1
         /\ Written[n][k].rhs_id \in 1..rhs_id
    /\ \A m, n \in 1..Len(Written) : \A k \in 1..Len(Written[m]), l \in 1..Len(Written[n]) :
         Written[m][k].rhs_id = Written[n][l].rhs_id => m = n
    /\ stage = "items" /\ alts # <<>> => Last(Last(alts)).rhs_id = rhs_id

Inv == TypesOK /\ Numbered /\ Declared /\ Imported /\ Waiting /\ Counted /\ TablesFit


-----------------------------------------------------------------------------
(* Types.                                                                  *)

LEMMA TypeOfFile ==
  ASSUME TypesOK
  PROVE  /\ files \in Seq(Files) /\ File \in Files
         /\ Len(File.events) \in Nat /\ Len(File.signatures) \in Nat
<1>1. files \in Seq(Files) BY LoadAssumption DEF TypesOK
<1>2. File \in Files BY <1>1, ElementOfSeq DEF TypesOK, File
<1> QED BY <1>1, <1>2, LenProperties DEF Files

LEMMA TypeOfSignature ==
  ASSUME TypesOK, at <= Len(File.signatures)
  PROVE  Signature.id \in Nat
<1>1. at \in 1..Len(File.signatures) BY TypeOfFile DEF TypesOK
<1>2. File \in Files BY TypeOfFile
<1>3. File.signatures \in Seq(Signatures) BY <1>2 DEF Files
<1>4. Signature \in Signatures BY <1>1, <1>3, ElementOfSeq DEF Signature
<1> QED BY <1>4 DEF Signatures

LEMMA InitTypes == Init => TypesOK
<1> SUFFICES ASSUME Init PROVE TypesOK
  OBVIOUS
<1>1. files \in Seq(Files) \ {<<>>} BY LoadAssumption DEF Init
<1>2. Len(files) \in Nat \ {0} BY <1>1, EmptySeq
<1>3. file \in 1..Len(files) BY <1>2 DEF Init
<1>4. text \in [Cells -> Names \cup {"nothing", "token"}] BY DEF Init
<1>5. size \in Nat BY LoadAssumption DEF Init
<1> QED BY <1>3, <1>4, <1>5 DEF Init, TypesOK, Entries, Items

LEMMA PlaceType ==
  ASSUME TypesOK, NEW i \in Items
  PROVE  /\ Place(i) \in Seq(Seq(Items))
         /\ \A n \in 1..Len(Place(i)) : Place(i)[n] # <<>>
<1>1. alts \in Seq(Seq(Items)) /\ \A n \in 1..Len(alts) : alts[n] # <<>>
  BY DEF TypesOK
<1>2. CASE NewAlternative
  <2>1. Place(i) = Append(alts, <<i>>) BY <1>2 DEF Place
  <2>2. <<i>> \in Seq(Items) /\ <<i>> # <<>> OBVIOUS
  <2> QED BY <1>1, <2>1, <2>2
<1>3. CASE ~NewAlternative
  <2>1. Len(alts) \in 1..Len(alts) BY <1>1, <1>3, EmptySeq DEF NewAlternative
  <2>2. alts[Len(alts)] \in Seq(Items) BY <1>1, <2>1, ElementOfSeq
  <2> DEFINE l == Append(alts[Len(alts)], i)
  <2>3. l \in Seq(Items) /\ Len(l) # 0 BY <2>2
  <2>4. Place(i) = [alts EXCEPT ![Len(alts)] = l] BY <1>3 DEF Place
  <2> HIDE DEF l
  <2>5. l # <<>> BY <2>3
  <2> QED BY <1>1, <2>1, <2>3, <2>4, <2>5, ExceptSeq
<1> QED BY <1>2, <1>3

\* What a file that is given up leaves as it was.
LEMMA AbortTypes == ASSUME TypesOK, Abort PROVE TypesOK'
BY DEF TypesOK, Abort, File, library, table, rules, arrays

LEMMA NextTypes ==
  ASSUME TypesOK, [Next]_vars
  PROVE  TypesOK'
<1>1. CASE Known
  BY <1>1 DEF Known, Refuse, memory, library, table, rules, arrays, TypesOK, File
<1>2. ASSUME NEW c \in Cells, Open(c) PROVE TypesOK'
  <2>1. File.name \in Names BY TypeOfFile DEF Files
  <2>2. text' \in [Cells -> Names \cup {"nothing", "token"}]
    BY <1>2, <2>1 DEF Open, Put, TypesOK
  <2>3. CASE Conflict(c)
    BY <1>2, <2>2, <2>3 DEF Open, Refuse, library, table, rules, arrays, TypesOK, File
  <2>4. CASE ~Conflict(c)
    <3>1. /\ used' = used \cup {c} /\ stage' = "imports" /\ at' = 1 /\ copy' = c
          /\ stage = "open" /\ UNCHANGED <<files, file>>
      BY <1>2, <2>4 DEF Open
    <3>2. UNCHANGED <<library, declared, table, rules>> BY <1>2 DEF Open
    <3>3. UNCHANGED <<attached, imported, declared, event, size, waiting, rhs_id, alts,
                      parsed, hash, list>>
      BY <3>2 DEF library, table, rules
    <3>4. used' \subseteq Cells /\ copy' \in Cells /\ parsed' = <<>>
      BY <3>1, <3>3 DEF TypesOK
    <3>5. stage' # "items" /\ at' \in Nat \ {0} /\ stage' = "imports"
      BY <3>1
    <3>6. files' \in Inputs /\ file' \in 1..Len(files') BY <3>1 DEF TypesOK
    <3>7. alts' \in Seq(Seq(Items)) /\ \A n \in 1..Len(alts') : alts'[n] # <<>>
      BY <3>3 DEF TypesOK
    <3> QED BY <2>2, <3>3, <3>4, <3>5, <3>6, <3>7 DEF TypesOK, File
  <2> QED BY <2>3, <2>4
<1>3. ASSUME NEW c \in Cells, Token(c) PROVE TypesOK'
  BY <1>3 DEF Token, Put, parser, library, table, rules, arrays, TypesOK, File
<1>4. CASE Fails
  BY <1>4 DEF Fails, library, table, rules, arrays, TypesOK, File
<1>5. CASE Aborts
  BY <1>5, AbortTypes DEF Aborts
<1>6. ASSUME NEW c \in Cells, Import(c) PROVE TypesOK'
  <2>1. at \in 1..Len(File.imports) /\ File.imports \in Seq(Names)
    BY <1>6, TypeOfFile DEF Import, Files, TypesOK
  <2> DEFINE name == File.imports[at]
  <2>2. name \in Names BY <2>1, ElementOfSeq
  <2>3. Attach(c, name) BY <1>6 DEF Import
  <2> HIDE DEF name
  <2>4. /\ text' \in [Cells -> Names \cup {"nothing", "token"}] /\ used' \subseteq Cells
        /\ attached' \subseteq [cell : Cells, library : Names] /\ imported' \subseteq Cells
    BY <2>2, <2>3 DEF Attach, Put, TypesOK
  <2> QED BY <1>6, <2>4 DEF Import, table, rules, arrays, TypesOK, File
<1>7. CASE ImportsDone
  BY <1>7 DEF ImportsDone, memory, library, table, rules, arrays, TypesOK, File
<1>8. CASE AllocEvent
  <2>1. at \in 1..Len(File.events) /\ File.events \in Seq(Names)
    BY <1>8, TypeOfFile DEF AllocEvent, Files, TypesOK
  <2> DEFINE e == File.events[at]
  <2>2. e \in Names BY <2>1, ElementOfSeq
  <2>3. event' \in Seq(Names) /\ size' \in Nat /\ waiting' \in Seq(Seq(Items))
    <3>1. CASE UNCHANGED table BY <3>1 DEF table, TypesOK
    <3>2. CASE Grow(e) BY <2>2, <3>2, LoadAssumption DEF Grow, TypesOK
    <3>3. CASE AddEvent(e) BY <2>2, <3>3 DEF AddEvent, TypesOK
    <3> QED BY <1>8, <3>1, <3>2, <3>3 DEF AllocEvent
  <2>4. PlaceOf(e) \in DOMAIN event'
    <3>1. \E n \in DOMAIN event' : event'[n] = e
      <4>1. CASE Defined(e) /\ UNCHANGED table BY <4>1 DEF Defined, table
      <4>2. CASE event' = Append(event, e)
        <5>1. Len(event) + 1 \in DOMAIN event' /\ event'[Len(event) + 1] = e
          BY <4>2, <2>2, AppendProperties DEF TypesOK
        <5> QED BY <5>1
      <4> QED BY <1>8, <4>1, <4>2 DEF AllocEvent, Grow, AddEvent
    <3> QED BY <3>1 DEF PlaceOf
  <2>5. PlaceOf(e) \in Nat BY <2>3, <2>4, LenProperties
  <2>6. declared' \in Seq(Nat)
    <3>1. declared' = Append(declared, PlaceOf(e)) BY <1>8 DEF AllocEvent
    <3> HIDE DEF e
    <3> QED BY <2>5, <3>1 DEF TypesOK
  <2>7. /\ at' = at + 1 /\ stage = "events"
        /\ UNCHANGED <<files, file, stage, memory, library, rules>>
    BY <1>8 DEF AllocEvent
  <2> HIDE DEF e
  <2> QED BY <2>3, <2>6, <2>7 DEF memory, library, rules, TypesOK, File
<1>9. CASE EventsDone
  BY <1>9 DEF EventsDone, memory, library, table, rules, arrays, TypesOK, File
<1>10. CASE Number
  BY <1>10 DEF Number, memory, library, table, arrays, TypesOK, File
<1>11. CASE NumberRefused
  BY <1>11, AbortTypes DEF NumberRefused
<1>12. CASE Item
  <2> DEFINE i == [rhs_id |-> rhs_id', event |-> NextEvent]
  <2>1. NextEvent \in Names
    <3>1. PICK n \in DOMAIN event : event[n] = NextEvent BY <1>12 DEF Item, Defined
    <3>2. event \in Seq(Names) BY DEF TypesOK
    <3> QED BY <3>1, <3>2, LenProperties
  <2>2. rhs_id' = rhs_id + 1 /\ rhs_id' \in Nat BY <1>12 DEF Item, TypesOK
  <2>3. i \in Items BY <2>1, <2>2 DEF Items
  <2>4. alts' = Place(i) BY <1>12 DEF Item
  <2> HIDE DEF i
  <2>5. alts' \in Seq(Seq(Items)) /\ \A n \in 1..Len(alts') : alts'[n] # <<>>
    BY <2>3, <2>4, PlaceType
  <2> QED BY <1>12, <2>2, <2>5 DEF Item, parser, memory, library, table, arrays, TypesOK, File
<1>13. CASE NoSuchEvent
  BY <1>13, AbortTypes DEF NoSuchEvent
<1>14. CASE Insert
  <2>1. Signature.id \in Nat BY <1>14, TypeOfSignature DEF Insert, TypesOK
  <2> DEFINE s == [id |-> Signature.id, alternatives |-> alts]
  <2>2. s \in Entries BY <2>1 DEF Entries, TypesOK
  <2>3. parsed' = Append(parsed, s) BY <1>14 DEF Insert
  <2> HIDE DEF s
  <2>4. parsed' \in Seq(Entries) BY <2>2, <2>3 DEF TypesOK
  <2>5. waiting' \in Seq(Seq(Items))
    <3>1. FlattenSeq(alts) \in Seq(Items) BY FlattenType DEF TypesOK
    <3>2. \A n : NewItems(n) \in Seq(Items) BY <3>1, ItemsForType DEF NewItems
    <3>3. Len(waiting) \in Nat /\ DOMAIN waiting = 1..Len(waiting)
          /\ \A n \in 1..Len(waiting) : waiting[n] \in Seq(Items)
      BY LenProperties, ElementOfSeq DEF TypesOK
    <3>4. \A n \in 1..Len(waiting) : waiting[n] \o NewItems(n) \in Seq(Items)
      BY <3>2, <3>3, ConcatProperties
    <3>5. waiting' = [n \in 1..Len(waiting) |-> waiting[n] \o NewItems(n)]
      BY <1>14, <3>3 DEF Insert
    <3>6. [n \in 1..Len(waiting) |-> waiting[n] \o NewItems(n)] \in Seq(Seq(Items))
      BY <3>3, <3>4, IsASeq
    <3> QED BY <3>5, <3>6
  <2> QED BY <1>14, <2>4, <2>5 DEF Insert, memory, library, arrays, TypesOK, File
<1>15. CASE FileDone
  <2>1. list' \in Seq(Entries) /\ parsed' \in Seq(Entries) /\ parsed' = <<>>
    BY <1>15 DEF FileDone, Join, TypesOK
  <2>2. file' \in 1..Len(files) /\ stage' \in {"open", "arrays"}
    BY <1>15, TypeOfFile, LenProperties DEF FileDone, Join, TypesOK
  <2> QED BY <1>15, <2>1, <2>2 DEF FileDone, Join, table, arrays, TypesOK
<1>16. CASE SetArrays
  BY <1>16 DEF SetArrays, memory, library, table, rules, TypesOK, File
<1>17. CASE UNCHANGED vars
  BY <1>17 DEF vars, parser, memory, library, table, rules, arrays, TypesOK, File
<1> QED
  BY <1>1, <1>2, <1>3, <1>4, <1>5, <1>6, <1>7, <1>8, <1>9, <1>10, <1>11, <1>12, <1>13,
     <1>14, <1>15, <1>16, <1>17 DEF Next

-----------------------------------------------------------------------------
(* The numbers of signatures.                                              *)

LEMMA RulesFrame ==
  ASSUME [Next]_vars
  PROVE  \/ Insert
         \/ FileDone
         \/ /\ UNCHANGED <<list, parsed, hash>>
            /\ stage' = "items" =>
                 /\ UNCHANGED <<files, file, at>>
                 /\ stage = "items" \/ Signature.id \notin hash
<1>1. CASE Known BY <1>1 DEF Known, Refuse, rules
<1>2. ASSUME NEW c \in Cells, Open(c) \/ Token(c) \/ Import(c)
      PROVE  /\ UNCHANGED <<list, parsed, hash>>
             /\ stage' = "items" => UNCHANGED <<files, file, at>> /\ stage = "items"
  BY <1>2 DEF Open, Refuse, Token, Import, parser, rules
<1>3. CASE Fails BY <1>3 DEF Fails, rules
<1>4. CASE Aborts \/ NumberRefused \/ NoSuchEvent
  BY <1>4 DEF Aborts, NumberRefused, NoSuchEvent, Abort, rules
<1>5. CASE ImportsDone \/ AllocEvent \/ EventsDone
  BY <1>5 DEF ImportsDone, AllocEvent, EventsDone, rules
<1>6. CASE Number BY <1>6 DEF Number, NumberTaken
<1>7. CASE Item BY <1>7 DEF Item, parser
<1>8. CASE SetArrays BY <1>8 DEF SetArrays, rules
<1>9. CASE UNCHANGED vars BY <1>9 DEF vars, parser, rules
<1> QED BY <1>1, <1>2, <1>3, <1>4, <1>5, <1>6, <1>7, <1>8, <1>9 DEF Next

LEMMA InsertedType ==
  ASSUME TypesOK
  PROVE  Inserted \in Seq(Entries) /\ Len(Inserted) \in Nat
         /\ DOMAIN Inserted = 1..Len(Inserted)
BY LenProperties, ConcatProperties DEF Inserted, TypesOK

LEMMA InsertAppends ==
  ASSUME TypesOK, Insert
  PROVE  LET s == [id |-> Signature.id, alternatives |-> alts] IN
         s \in Entries /\ Inserted' = Append(Inserted, s)
<1> DEFINE s == [id |-> Signature.id, alternatives |-> alts]
<1>1. Signature.id \in Nat BY TypeOfSignature DEF Insert, TypesOK
<1>2. s \in Entries BY <1>1 DEF Entries, TypesOK
<1>3. parsed' = Append(parsed, s) /\ list' = list BY DEF Insert, rules
<1> HIDE DEF s
<1>4. list \o Append(parsed, s) = Append(list \o parsed, s)
  BY <1>2, ConcatAppend, SMTT(20) DEF TypesOK
<1>5. Inserted' = Append(Inserted, s) BY <1>3, <1>4 DEF Inserted
<1> QED BY <1>2, <1>5 DEF s

LEMMA JoinKeeps ==
  ASSUME TypesOK, FileDone
  PROVE  Inserted' = Inserted
<1>1. list' = list \o parsed /\ parsed' = <<>> BY DEF FileDone, Join
<1>2. list \o parsed \in Seq(Entries) BY ConcatProperties DEF TypesOK
<1> QED BY <1>1, <1>2, ConcatEmptySeq DEF Inserted

LEMMA NumberedNext ==
  ASSUME TypesOK, Numbered, [Next]_vars
  PROVE  Numbered'
<1>1. CASE Insert
  <2> DEFINE s == [id |-> Signature.id, alternatives |-> alts]
  <2>1. s \in Entries /\ Inserted' = Append(Inserted, s) BY <1>1, InsertAppends
  <2>2. Inserted \in Seq(Entries) /\ DOMAIN Inserted = 1..Len(Inserted) /\ Len(Inserted) \in Nat
    BY InsertedType
  <2>3. hash' = hash \cup {s.id} /\ stage' = "number" BY <1>1 DEF Insert
  <2>4. s.id \notin hash BY <1>1 DEF Insert, Numbered
  <2> HIDE DEF s
  <2>5. /\ Len(Inserted') = Len(Inserted) + 1
        /\ DOMAIN Inserted' = 1..Len(Inserted) + 1
        /\ Inserted'[Len(Inserted) + 1] = s
        /\ \A n \in 1..Len(Inserted) : Inserted'[n] = Inserted[n]
    BY <2>1, <2>2, AppendProperties
  <2>6. hash = {Inserted[n].id : n \in 1..Len(Inserted)} BY DEF Numbered
  <2>7. hash' = {Inserted'[n].id : n \in 1..Len(Inserted')}
    BY <2>2, <2>3, <2>5, <2>6
  <2>8. ASSUME NEW m \in DOMAIN Inserted', NEW n \in DOMAIN Inserted',
               Inserted'[m].id = Inserted'[n].id
        PROVE  m = n
    <3>1. CASE m \in 1..Len(Inserted) /\ n \in 1..Len(Inserted)
      BY <2>2, <2>5, <2>8, <3>1 DEF Numbered, NumbersUnique
    <3>2. CASE m = Len(Inserted) + 1 /\ n \in 1..Len(Inserted)
      BY <2>4, <2>5, <2>6, <2>8, <3>2
    <3>3. CASE n = Len(Inserted) + 1 /\ m \in 1..Len(Inserted)
      BY <2>4, <2>5, <2>6, <2>8, <3>3
    <3> QED BY <2>2, <2>5, <3>1, <3>2, <3>3
  <2> QED BY <2>3, <2>7, <2>8 DEF Numbered, NumbersUnique
<1>2. CASE FileDone
  <2>1. Inserted' = Inserted BY <1>2, JoinKeeps
  <2>2. hash' = hash /\ stage' # "items" BY <1>2 DEF FileDone, Join
  <2> QED BY <2>1, <2>2 DEF Numbered, NumbersUnique
<1>3. CASE /\ UNCHANGED <<list, parsed, hash>>
           /\ stage' = "items" =>
                /\ UNCHANGED <<files, file, at>>
                /\ stage = "items" \/ Signature.id \notin hash
  <2>1. Inserted' = Inserted BY <1>3 DEF Inserted
  <2>2. stage' = "items" => Signature.id' \notin hash'
    BY <1>3 DEF Numbered, Signature, File
  <2> QED BY <1>3, <2>1, <2>2 DEF Numbered, NumbersUnique
<1> QED BY <1>1, <1>2, <1>3, RulesFrame

-----------------------------------------------------------------------------
(* The %events.                                                            *)

LEMMA EventsFrame ==
  ASSUME [Next]_vars
  PROVE  \/ AllocEvent
         \/ FileDone
         \/ Abort
         \/ stage' = "events" /\ at' = 1 /\ stage = "imports"
              /\ UNCHANGED <<files, file, table, declared>>
         \/ /\ UNCHANGED <<files, file, event, size, declared>>
            /\ stage' \in {"open", "imports"} => stage \in {"open", "imports"}
            /\ stage' = "events" => stage = "events" /\ at' = at
            /\ stage' = "crashed" => stage = "crashed"
            /\ UNCHANGED waiting \/ Insert
<1>1. CASE Known BY <1>1 DEF Known, Refuse, table
<1>2. ASSUME NEW c \in Cells, Open(c) \/ Token(c) \/ Import(c)
      PROVE  /\ UNCHANGED <<files, file, event, size, declared>>
             /\ stage' \in {"open", "imports"} => stage \in {"open", "imports"}
             /\ stage' = "events" => stage = "events" /\ at' = at
             /\ stage' = "crashed" => stage = "crashed"
             /\ UNCHANGED waiting
  BY <1>2 DEF Open, Refuse, Token, Import, parser, table
<1>3. CASE Fails BY <1>3 DEF Fails, table
<1>4. CASE Aborts \/ NumberRefused \/ NoSuchEvent
  BY <1>4 DEF Aborts, NumberRefused, NoSuchEvent
<1>5. CASE ImportsDone
  BY <1>5 DEF ImportsDone
<1>6. CASE EventsDone
  BY <1>6 DEF EventsDone, table
<1>7. CASE Number BY <1>7 DEF Number, table
<1>8. CASE Item BY <1>8 DEF Item, parser, table
<1>9. CASE Insert BY <1>9 DEF Insert
<1>10. CASE SetArrays BY <1>10 DEF SetArrays, table
<1>11. CASE UNCHANGED vars BY <1>11 DEF vars, parser, table
<1> QED
  BY <1>1, <1>2, <1>3, <1>4, <1>5, <1>6, <1>7, <1>8, <1>9, <1>10, <1>11 DEF Next

LEMMA InsertKeepsLength ==
  ASSUME TypesOK, Insert
  PROVE  Len(waiting') = Len(waiting)
<1>1. DOMAIN waiting = 1..Len(waiting) /\ Len(waiting) \in Nat
  BY LenProperties DEF TypesOK
<1>2. waiting' = [n \in 1..Len(waiting) |-> waiting[n] \o NewItems(n)]
  BY <1>1 DEF Insert
<1> QED BY <1>1, <1>2

\* What the events are after AllocEvent, and where the new one is.
LEMMA EventDeclared ==
  ASSUME TypesOK, Declared, AllocEvent
  PROVE  /\ event' \in Seq(Names) /\ Len(event) <= Len(event')
         /\ \A n \in 1..Len(event) : event'[n] = event[n]
         /\ \A m, n \in 1..Len(event') : event'[m] = event'[n] => m = n
         /\ Len(event') = Len(waiting') /\ Len(event') <= size'
         /\ \E p \in 1..Len(event') :
              event'[p] = File.events[at] /\ declared' = Append(declared, p)
<1> DEFINE e == File.events[at]
           p == PlaceOf(e)
<1>1. at \in 1..Len(File.events) /\ File.events \in Seq(Names)
  BY TypeOfFile DEF AllocEvent, Files, TypesOK
<1>2. e \in Names BY <1>1, ElementOfSeq
<1>3. event \in Seq(Names) /\ waiting \in Seq(Seq(Items)) /\ size \in Nat BY DEF TypesOK
<1>4. Len(event) \in Nat /\ DOMAIN event = 1..Len(event) BY <1>3, LenProperties
<1>5. declared' = Append(declared, p) BY DEF AllocEvent
<1>6. CASE Defined(e) /\ UNCHANGED table
  <2>1. UNCHANGED <<event, size, waiting>> BY <1>6 DEF table
  <2>2. \E n \in DOMAIN event' : event'[n] = e BY <1>6, <2>1 DEF Defined
  <2>3. p \in DOMAIN event' /\ event'[p] = e BY <2>2 DEF PlaceOf
  <2> HIDE DEF p, e
  <2>4. Len(event) = Len(waiting) /\ Len(event) <= size
        /\ \A m, n \in 1..Len(event) : event[m] = event[n] => m = n BY DEF Declared
  <2> QED BY <1>3, <1>4, <1>5, <2>1, <2>3, <2>4 DEF e
<1>7. CASE ~Defined(e) /\ ((Grow(e) /\ Len(event) = size) \/ (AddEvent(e) /\ Len(event) < size))
  <2>1. /\ event' = Append(event, e) /\ waiting' = Append(waiting, <<>>)
        /\ Len(event) + 1 <= size'
    <3>1. CASE Grow(e) /\ Len(event) = size
      <4>1. size' = size + Step BY <3>1 DEF Grow
      <4> QED BY <1>3, <1>4, <3>1, <4>1, LoadAssumption DEF Grow
    <3>2. CASE AddEvent(e) /\ Len(event) < size BY <1>3, <1>4, <3>2 DEF AddEvent
    <3> QED BY <1>7, <3>1, <3>2
  <2>2. \A n \in 1..Len(event) : event[n] # e BY <1>4, <1>7 DEF Defined
  <2> HIDE DEF e
  <2>3. /\ event' \in Seq(Names) /\ Len(event') = Len(event) + 1
        /\ DOMAIN event' = 1..Len(event) + 1
        /\ \A n \in 1..Len(event) : event'[n] = event[n]
        /\ event'[Len(event) + 1] = e
    BY <1>2, <1>3, <1>4, <2>1, AppendProperties
  <2>4. Len(waiting') = Len(waiting) + 1 BY <1>3, <2>1
  <2>5. p \in DOMAIN event' /\ event'[p] = e
    <3>1. \E n \in DOMAIN event' : event'[n] = e BY <1>4, <2>3
    <3> QED BY <3>1 DEF PlaceOf
  <2> HIDE DEF p
  <2>6. Len(event) = Len(waiting)
        /\ \A m, n \in 1..Len(event) : event[m] = event[n] => m = n BY DEF Declared
  <2>7. ASSUME NEW m \in 1..Len(event'), NEW n \in 1..Len(event'), event'[m] = event'[n]
        PROVE  m = n
    BY <1>4, <2>2, <2>3, <2>6, <2>7
  <2> QED BY <1>4, <1>5, <2>1, <2>3, <2>4, <2>5, <2>6, <2>7 DEF e
<1>8. \/ Defined(e) /\ UNCHANGED table
      \/ ~Defined(e) /\ ((Grow(e) /\ Len(event) = size) \/ (AddEvent(e) /\ Len(event) < size))
  BY DEF AllocEvent
<1> QED BY <1>6, <1>7, <1>8

LEMMA DeclaredNext ==
  ASSUME TypesOK, Declared, [Next]_vars
  PROVE  Declared'
<1>1. CASE AllocEvent
  <2>1. PICK p \in 1..Len(event') :
          event'[p] = File.events[at] /\ declared' = Append(declared, p)
    BY <1>1, EventDeclared
  <2>2. /\ at \in 1..Len(File.events) /\ stage = "events" /\ stage' = "events"
        /\ at' = at + 1 /\ UNCHANGED <<files, file>>
    BY <1>1, TypeOfFile DEF AllocEvent, TypesOK
  <2>3. File' = File BY <2>2 DEF File
  <2>4. Len(declared) = at - 1 /\ declared \in Seq(Nat) BY <2>2 DEF Declared, TypesOK
  <2>5. event' \in Seq(Names) BY <1>1, EventDeclared
  <2>6. p \in Nat BY <2>5, LenProperties
  <2>7. Len(declared') = at /\ declared'[at] = p /\ \A n \in 1..at - 1 : declared'[n] = declared[n]
    BY <2>1, <2>2, <2>4, <2>6, AppendProperties
  <2>8. Len(declared') <= Len(File.events) /\ Len(declared') = at' - 1
    BY <2>2, <2>7, TypeOfFile
  <2>9. ASSUME NEW n \in 1..Len(declared')
        PROVE  declared'[n] \in 1..Len(event') /\ event'[declared'[n]] = File.events[n]
    <3>1. CASE n = at BY <2>1, <2>7, <3>1
    <3>2. CASE n # at
      <4>1. n \in 1..at - 1 BY <2>2, <2>7, <3>2
      <4>2. declared[n] \in 1..Len(event) /\ event[declared[n]] = File.events[n]
        BY <2>4, <4>1 DEF Declared
      <4>3. Len(event) \in Nat /\ Len(event') \in Nat BY <2>5, LenProperties DEF TypesOK
      <4> QED BY <1>1, <2>7, <4>1, <4>2, <4>3, EventDeclared
    <3> QED BY <3>1, <3>2
  <2> QED BY <1>1, <2>2, <2>3, <2>8, <2>9, EventDeclared DEF Declared, CrashIfRepeated
<1>2. CASE FileDone
  <2>1. declared' = <<>> /\ UNCHANGED table /\ stage' \in {"open", "arrays"}
    BY <1>2 DEF FileDone, Join
  <2>2. files' \in Seq(Files) /\ file' \in 1..Len(files')
    BY NextTypes, LoadAssumption DEF TypesOK
  <2>3. files'[file'] \in Files BY <2>2, ElementOfSeq
  <2>4. Len(File.events)' \in Nat /\ Len(declared') = 0
    BY <2>1, <2>3, LenProperties DEF Files, File
  <2> QED BY <2>1, <2>4 DEF Declared, table, CrashIfRepeated
<1>3. CASE Abort
  <2>1. UNCHANGED <<files, file, declared, table>> /\ stage' \in {"failed", "crashed"}
    BY <1>3 DEF Abort
  <2>2. File' = File BY <2>1 DEF File
  <2>3. ASSUME stage' = "crashed" PROVE ~Once(File.events)
    <3>1. ~Once(declared) BY <1>3, <2>3 DEF Abort
    <3>2. declared \in Seq(Nat) /\ DOMAIN declared = 1..Len(declared) BY LenProperties DEF TypesOK
    <3>3. PICK m \in 1..Len(declared), n \in 1..Len(declared) :
            declared[m] = declared[n] /\ m # n
      BY <3>1, <3>2 DEF Once
    <3>4. File.events[m] = File.events[n] BY <3>3 DEF Declared
    <3>5. Len(declared) <= Len(File.events) BY DEF Declared
    <3>6. File.events \in Seq(Names) BY TypeOfFile DEF Files
    <3>7. m \in DOMAIN File.events /\ n \in DOMAIN File.events
      BY <3>2, <3>5, <3>6, LenProperties
    <3> QED BY <3>3, <3>4, <3>7 DEF Once
  <2> QED BY <2>1, <2>2, <2>3 DEF Declared, table, CrashIfRepeated
<1>4. CASE stage' = "events" /\ at' = 1 /\ stage = "imports"
             /\ UNCHANGED <<files, file, table, declared>>
  BY <1>4 DEF Declared, table, CrashIfRepeated, File, TypesOK
<1>5. CASE /\ UNCHANGED <<files, file, event, size, declared>>
           /\ stage' \in {"open", "imports"} => stage \in {"open", "imports"}
           /\ stage' = "events" => stage = "events" /\ at' = at
           /\ stage' = "crashed" => stage = "crashed"
           /\ UNCHANGED waiting \/ Insert
  <2>1. Len(waiting') = Len(waiting) BY <1>5, InsertKeepsLength
  <2> QED BY <1>5, <2>1 DEF Declared, CrashIfRepeated, File
<1> QED BY <1>1, <1>2, <1>3, <1>4, <1>5, EventsFrame

-----------------------------------------------------------------------------
(* The libraries.                                                          *)

LEMMA ImportFrame ==
  ASSUME [Next]_vars
  PROVE  \/ \E c \in Cells : (Open(c) /\ ~Conflict(c)) \/ Token(c) \/ Import(c)
         \/ FileDone
         \/ stage' \in {"failed", "crashed"} /\ attached' = attached
         \/ /\ UNCHANGED <<text, used, copy, attached, imported>>
            /\ Alive' => Alive
            /\ stage' \in {"open", "arrays"} => stage \in {"open", "arrays"}
            /\ Parsing' => Parsing
<1>1. CASE Known BY <1>1 DEF Known, Refuse, library
<1>2. ASSUME NEW c \in Cells, Open(c), Conflict(c)
      PROVE  stage' \in {"failed", "crashed"} /\ attached' = attached
  BY <1>2 DEF Open, Refuse, library
<1>3. CASE Fails BY <1>3 DEF Fails, library
<1>4. CASE Aborts \/ NumberRefused \/ NoSuchEvent
  BY <1>4 DEF Aborts, NumberRefused, NoSuchEvent, Abort, library
<1>5. CASE ImportsDone \/ AllocEvent \/ EventsDone
  BY <1>5 DEF ImportsDone, AllocEvent, EventsDone, memory, library, Alive, Parsing
<1>6. CASE Number BY <1>6 DEF Number, memory, library, Alive, Parsing
<1>7. CASE Item BY <1>7 DEF Item, parser, memory, library, Alive, Parsing
<1>8. CASE Insert BY <1>8 DEF Insert, memory, library, Alive, Parsing
<1>9. CASE SetArrays BY <1>9 DEF SetArrays, memory, library, Alive, Parsing
<1>10. CASE UNCHANGED vars
  BY <1>10 DEF vars, parser, memory, library, Alive, Parsing
<1> QED
  BY <1>1, <1>2, <1>3, <1>4, <1>5, <1>6, <1>7, <1>8, <1>9, <1>10 DEF Next

\* Each conjunct of LibrariesKnown by its name.
NamesStand == \A l \in attached : l.cell \in used /\ text[l.cell] = l.library
LinesApart ==
  \A k, l \in attached :
    k.library = l.library /\ k # l => LineOf[k.cell] # LineOf[l.cell]

LEMMA LibrariesParts ==
  LibrariesKnown <=> (Alive => NamesStand /\ Extracted) /\ LinesApart
BY DEF LibrariesKnown, Alive, NamesStand, LinesApart

\* Writing to a cell that is not in use disturbs no entry.
LEMMA PutDisturbsNothing ==
  ASSUME TypesOK, Imported, Alive, NEW c \in Cells, NEW name, Put(c, name)
  PROVE  /\ \A d \in used : text'[d] = text[d]
         /\ text'[c] = name
         /\ \A l \in attached : l.cell \in Cells /\ text'[l.cell] = l.library
<1>1. /\ \A d \in Cells : text'[d] = IF d = c THEN name ELSE text[d]
      /\ c \notin used /\ used \subseteq Cells
  BY DEF Put, TypesOK
<1>2. NamesStand BY LibrariesParts DEF Imported
<1> QED BY <1>1, <1>2 DEF NamesStand

LEMMA ImportedNext ==
  ASSUME TypesOK, Imported, [Next]_vars
  PROVE  Imported'
<1>1. LinesApart /\ (Alive => NamesStand /\ Extracted)
  BY LibrariesParts DEF Imported
<1>2. attached \subseteq [cell : Cells, library : Names] /\ imported \subseteq Cells
      /\ used \subseteq Cells
  BY DEF TypesOK
<1>3. ASSUME NEW c \in Cells, Open(c), ~Conflict(c) PROVE Imported'
  <2>1. /\ stage = "open" /\ stage' = "imports" /\ copy' = c /\ used' = used \cup {c}
        /\ Put(c, File.name) /\ UNCHANGED <<attached, imported>>
    BY <1>3 DEF Open, library
  <2>2. Alive /\ imported = {} BY <2>1 DEF Alive, Imported
  <2>3. \A l \in attached : text'[l.cell] = l.library /\ l.cell \in used
    BY <1>1, <2>1, <2>2, PutDisturbsNothing DEF NamesStand
  <2>4. NamesStand' BY <2>1, <2>3 DEF NamesStand
  <2>5. Extracted' BY <2>1, <2>2 DEF Extracted
  <2>6. LinesApart' BY <1>1, <2>1 DEF LinesApart
  <2>7. c \notin used BY <2>1 DEF Put
  <2>8. LibrariesKnown' BY <2>4, <2>5, <2>6 DEF LibrariesKnown, NamesStand, LinesApart
  <2> QED BY <2>1, <2>2, <2>3, <2>7, <2>8 DEF Imported, Parsing, Alive
<1>4. ASSUME NEW c \in Cells, Token(c) PROVE Imported'
  <2>1. /\ Parsing /\ stage' = stage /\ copy' = copy /\ used' = used \cup {c}
        /\ Put(c, "token") /\ UNCHANGED <<attached, imported>>
    BY <1>4 DEF Token, library, parser
  <2>2. Alive /\ imported \subseteq used BY <2>1 DEF Alive, Imported, Parsing
  <2>3. \A l \in attached : text'[l.cell] = l.library /\ l.cell \in used
    BY <1>1, <2>1, <2>2, PutDisturbsNothing DEF NamesStand
  <2>4. NamesStand' BY <2>1, <2>3 DEF NamesStand
  <2>5. Extracted'
    <3>1. \A d \in imported : text'[d] = text[d] BY <2>1, <2>2, PutDisturbsNothing
    <3>2. \A l \in attached : text'[l.cell] = text[l.cell]
      BY <2>1, <2>2, <2>3, PutDisturbsNothing
    <3>3. Extracted BY <1>1, <2>2
    <3> QED BY <2>1, <3>1, <3>2, <3>3 DEF Extracted, Entry
  <2>6. LinesApart' BY <1>1, <2>1 DEF LinesApart
  <2>7. LibrariesKnown' BY <2>4, <2>5, <2>6 DEF LibrariesKnown, NamesStand, LinesApart
  <2> QED BY <2>1, <2>2, <2>7 DEF Imported, Parsing, Alive
<1>5. ASSUME NEW c \in Cells, Import(c) PROVE Imported'
  <2> DEFINE name == File.imports[at]
  <2>1. /\ stage = "imports" /\ stage' = stage /\ copy' = copy
        /\ Attach(c, name)
    BY <1>5 DEF Import
  <2> HIDE DEF name
  <2>2. /\ Put(c, name) /\ used' = used \cup {c} /\ imported' = imported \cup {c}
        /\ attached' = IF Entry(c, text') # {} THEN attached
                       ELSE attached \cup {[cell |-> c, library |-> name]}
    BY <2>1 DEF Attach
  <2>3. Alive /\ Parsing /\ imported \subseteq used /\ copy \in used /\ copy \notin imported
        /\ \A l \in attached : l.cell # copy
    BY <2>1 DEF Alive, Parsing, Imported
  <2>4. c \notin used BY <2>2 DEF Put
  <2>5. \A l \in attached : text'[l.cell] = l.library /\ l.cell \in used
    BY <1>1, <2>2, <2>3, PutDisturbsNothing DEF NamesStand
  <2>6. text'[c] = name BY <2>2, <2>3, PutDisturbsNothing
  <2>7. NamesStand' BY <2>2, <2>5, <2>6 DEF NamesStand
  <2>8. \E l \in attached' : LineOf[l.cell] = LineOf[c] /\ text'[l.cell] = text'[c]
    <3>1. CASE Entry(c, text') # {} BY <2>2, <3>1 DEF Entry
    <3>2. CASE Entry(c, text') = {}
      <4>1. [cell |-> c, library |-> name] \in attached' BY <2>2, <3>2
      <4> QED BY <4>1
    <3> QED BY <3>1, <3>2
  <2>9. Extracted'
    <3>1. \A d \in imported : text'[d] = text[d] BY <2>2, <2>3, PutDisturbsNothing
    <3>2. \A l \in attached : text'[l.cell] = text[l.cell]
      BY <1>1, <2>3, <2>5 DEF NamesStand
    <3>3. Extracted BY <1>1, <2>3
    <3>4. attached \subseteq attached' BY <2>2
    <3>5. ASSUME NEW d \in imported PROVE Entry(d, text)' # {}
      <4>1. PICK l \in attached : LineOf[l.cell] = LineOf[d] /\ text[l.cell] = text[d]
        BY <3>3 DEF Extracted, Entry
      <4> QED BY <3>1, <3>2, <3>4, <4>1 DEF Entry
    <3>6. Entry(c, text)' # {} BY <2>8 DEF Entry
    <3> QED BY <2>2, <3>5, <3>6 DEF Extracted
  <2>10. LinesApart'
    <3>1. CASE Entry(c, text') # {} BY <1>1, <2>2, <3>1 DEF LinesApart
    <3>2. CASE Entry(c, text') = {}
      <4> DEFINE n == [cell |-> c, library |-> name]
      <4>1. attached' = attached \cup {n} BY <2>2, <3>2
      <4>2. \A l \in attached : l.library = name => LineOf[l.cell] # LineOf[c]
        BY <2>5, <2>6, <3>2 DEF Entry
      <4>3. n.cell = c /\ n.library = name OBVIOUS
      <4> HIDE DEF n
      <4> QED BY <1>1, <4>1, <4>2, <4>3 DEF LinesApart
    <3> QED BY <3>1, <3>2
  <2>11. LibrariesKnown' BY <2>7, <2>9, <2>10 DEF LibrariesKnown, NamesStand, LinesApart
  <2>12. \A l \in attached' : l.cell # copy
    <3>1. c # copy BY <2>3, <2>4
    <3> QED BY <2>2, <2>3, <3>1
  <2> QED BY <2>1, <2>2, <2>3, <2>4, <2>11, <2>12 DEF Imported, Parsing, Alive
<1>6. CASE FileDone
  <2>1. /\ stage = "number" /\ stage' \in {"open", "arrays"} /\ imported' = {}
        /\ used' = used \ {copy} /\ UNCHANGED <<text, attached>>
    BY <1>6 DEF FileDone, Join
  <2>2. Alive /\ Parsing /\ \A l \in attached : l.cell # copy
    BY <2>1 DEF Alive, Parsing, Imported
  <2>3. NamesStand' BY <1>1, <2>1, <2>2 DEF NamesStand
  <2>4. Extracted' BY <2>1 DEF Extracted
  <2>5. LinesApart' BY <1>1, <2>1 DEF LinesApart
  <2>6. LibrariesKnown' BY <2>3, <2>4, <2>5 DEF LibrariesKnown, NamesStand, LinesApart
  <2> QED BY <2>1, <2>6 DEF Imported, Parsing, Alive
<1>7. CASE stage' \in {"failed", "crashed"} /\ attached' = attached
  BY <1>1, <1>7 DEF Imported, LibrariesKnown, LinesApart, Alive, Parsing
<1>8. CASE /\ UNCHANGED <<text, used, copy, attached, imported>>
           /\ Alive' => Alive
           /\ stage' \in {"open", "arrays"} => stage \in {"open", "arrays"}
           /\ Parsing' => Parsing
  <2>1. Alive' => NamesStand' /\ Extracted'
    BY <1>1, <1>8 DEF NamesStand, Extracted, Entry
  <2>2. LinesApart' BY <1>1, <1>8 DEF LinesApart
  <2>3. LibrariesKnown'
    BY <2>1, <2>2 DEF LibrariesKnown, NamesStand, LinesApart, Alive
  <2> QED BY <1>8, <2>3 DEF Imported
<1> QED BY <1>3, <1>4, <1>5, <1>6, <1>7, <1>8, ImportFrame

-----------------------------------------------------------------------------
(* What has been written so far.                                           *)

AlternativesIn(entries) == [n \in DOMAIN entries |-> entries[n].alternatives]

LEMMA AlternativesInType ==
  ASSUME NEW e \in Seq(Entries)
  PROVE  AlternativesIn(e) \in Seq(Seq(Seq(Items)))
<1>1. Len(e) \in Nat /\ DOMAIN e = 1..Len(e) /\ \A n \in 1..Len(e) : e[n] \in Entries
  BY LenProperties, ElementOfSeq
<1>2. \A n \in 1..Len(e) : e[n].alternatives \in Seq(Seq(Items)) BY <1>1 DEF Entries
<1>3. AlternativesIn(e) = [n \in 1..Len(e) |-> e[n].alternatives] BY <1>1 DEF AlternativesIn
<1>4. [n \in 1..Len(e) |-> e[n].alternatives] \in Seq(Seq(Seq(Items)))
  BY <1>1, <1>2, IsASeq
<1> QED BY <1>3, <1>4

LEMMA AlternativesInAppend ==
  ASSUME NEW e \in Seq(Entries), NEW s \in Entries
  PROVE  AlternativesIn(Append(e, s)) = Append(AlternativesIn(e), s.alternatives)
<1> DEFINE a == AlternativesIn(Append(e, s))
           b == Append(AlternativesIn(e), s.alternatives)
<1>1. Len(e) \in Nat /\ DOMAIN e = 1..Len(e) BY LenProperties
<1>2. s.alternatives \in Seq(Seq(Items)) BY DEF Entries
<1>3. AlternativesIn(e) \in Seq(Seq(Seq(Items))) /\ Len(AlternativesIn(e)) = Len(e)
  <2>1. AlternativesIn(e) \in Seq(Seq(Seq(Items))) BY AlternativesInType
  <2>2. DOMAIN AlternativesIn(e) = 1..Len(e) BY <1>1 DEF AlternativesIn
  <2> QED BY <1>1, <2>1, <2>2, LenProperties
<1>4. Append(e, s) \in Seq(Entries) /\ Len(Append(e, s)) = Len(e) + 1
      /\ DOMAIN Append(e, s) = 1..Len(e) + 1
  BY AppendProperties
<1>5. a \in Seq(Seq(Seq(Items))) BY <1>4, AlternativesInType
<1>6. DOMAIN a = 1..Len(e) + 1 BY <1>4 DEF AlternativesIn
<1>7. Len(a) = Len(e) + 1 BY <1>1, <1>5, <1>6, LenProperties
<1>8. b \in Seq(Seq(Seq(Items))) /\ Len(b) = Len(e) + 1 BY <1>2, <1>3, AppendProperties
<1>9. ASSUME NEW n \in 1..Len(e) + 1 PROVE a[n] = b[n]
  <2>1. a[n] = Append(e, s)[n].alternatives BY <1>4 DEF AlternativesIn
  <2>2. CASE n = Len(e) + 1
    <3>1. Append(e, s)[n] = s BY <2>2, AppendProperties
    <3>2. b[n] = s.alternatives BY <1>2, <1>3, <2>2, AppendProperties
    <3> QED BY <2>1, <3>1, <3>2
  <2>3. CASE n # Len(e) + 1
    <3>1. n \in 1..Len(e) BY <1>1, <2>3
    <3>2. Append(e, s)[n] = e[n] BY <3>1, AppendProperties
    <3>3. b[n] = AlternativesIn(e)[n] BY <1>2, <1>3, <3>1, AppendProperties
    <3>4. AlternativesIn(e)[n] = e[n].alternatives BY <1>1, <3>1 DEF AlternativesIn
    <3> QED BY <2>1, <3>2, <3>3, <3>4
  <2> QED BY <2>2, <2>3
<1> HIDE DEF a, b
<1>10. a = b BY <1>5, <1>7, <1>8, <1>9, SeqEqual
<1> QED BY <1>10 DEF a, b

LEMMA WrittenTypes ==
  ASSUME TypesOK
  PROVE  /\ Settled \in Seq(Seq(Items)) /\ Under \in Seq(Seq(Items))
         /\ Written \in Seq(Seq(Items))
         /\ InsertedItems = FlattenSeq(Settled) /\ InsertedItems \in Seq(Items)
         /\ FlattenSeq(Under) \in Seq(Items)
         /\ FlattenSeq(Written) = InsertedItems \o FlattenSeq(Under)
         /\ FlattenSeq(Written) \in Seq(Items)
<1>1. AlternativesIn(Inserted) \in Seq(Seq(Seq(Items))) BY InsertedType, AlternativesInType
<1>2. Settled = FlattenSeq(AlternativesIn(Inserted)) BY DEF Settled, AlternativesIn
<1>3. Settled \in Seq(Seq(Items)) BY <1>1, <1>2, FlattenType
<1>4. Under \in Seq(Seq(Items)) BY DEF Under, TypesOK
<1>5. Written \in Seq(Seq(Items)) BY <1>3, <1>4, ConcatProperties DEF Written
<1>6. InsertedItems = FlattenSeq(Settled) BY DEF InsertedItems, Settled
<1>7. FlattenSeq(Settled) \in Seq(Items) BY <1>3, FlattenType
<1>8. FlattenSeq(Under) \in Seq(Items) BY <1>4, FlattenType
<1>9. FlattenSeq(Written) = FlattenSeq(Settled) \o FlattenSeq(Under)
  BY <1>3, <1>4, FlattenConcat DEF Written
<1>10. FlattenSeq(Written) \in Seq(Items) BY <1>5, FlattenType
<1> QED BY <1>3, <1>4, <1>5, <1>6, <1>7, <1>8, <1>9, <1>10

\* A signature that is complete moves from the parser's hands to its list.
LEMMA InsertSettles ==
  ASSUME TypesOK, Insert
  PROVE  /\ Under = alts /\ Settled' = Settled \o alts /\ Written' = Written
         /\ InsertedItems' = InsertedItems \o FlattenSeq(alts)
<1> DEFINE s == [id |-> Signature.id, alternatives |-> alts]
<1>1. s \in Entries /\ Inserted' = Append(Inserted, s) BY InsertAppends
<1>2. s.alternatives = alts OBVIOUS
<1> HIDE DEF s
<1>3. AlternativesIn(Inserted') = Append(AlternativesIn(Inserted), alts)
  BY <1>1, <1>2, InsertedType, AlternativesInAppend
<1>4. AlternativesIn(Inserted) \in Seq(Seq(Seq(Items))) /\ alts \in Seq(Seq(Items))
  BY InsertedType, AlternativesInType DEF TypesOK
<1>5. FlattenSeq(AlternativesIn(Inserted')) = FlattenSeq(AlternativesIn(Inserted)) \o alts
  BY <1>3, <1>4, FlattenAppend
<1>6. Settled' = Settled \o alts BY <1>5 DEF Settled, AlternativesIn
<1>7. Under = alts /\ Under' = <<>> BY DEF Under, Insert
<1>8. Settled \in Seq(Seq(Items)) BY WrittenTypes
<1>9. Settled \o alts \in Seq(Seq(Items)) BY <1>4, <1>8, ConcatProperties
<1>10. Written' = Settled \o alts BY <1>6, <1>7, <1>9, ConcatEmptySeq DEF Written
<1>11. InsertedItems' = FlattenSeq(Settled') BY DEF InsertedItems, Settled
<1>12. FlattenSeq(Settled \o alts) = FlattenSeq(Settled) \o FlattenSeq(alts)
  BY <1>4, <1>8, FlattenConcat
<1> QED BY <1>6, <1>7, <1>10, <1>11, <1>12, WrittenTypes DEF Written

\* An item begins an alternative, or is put behind the last.
LEMMA ItemWrites ==
  ASSUME TypesOK, Item
  PROVE  \E i \in Items :
           /\ i.rhs_id = rhs_id + 1 /\ rhs_id' = rhs_id + 1 /\ i.event = NextEvent
           /\ InsertedItems' = InsertedItems
           /\ FlattenSeq(Written') = Append(FlattenSeq(Written), i)
           /\ alts' # <<>> /\ Last(Last(alts')) = i
           /\ \/ Written' = Append(Written, <<i>>)
              \/ /\ alts # <<>> /\ Len(Written) \in 1..Len(Written)
                 /\ Written[Len(Written)] = Last(alts)
                 /\ Written' = [Written EXCEPT ![Len(Written)] = Append(@, i)]
<1> DEFINE i == [rhs_id |-> rhs_id', event |-> NextEvent]
<1>1. rhs_id' = rhs_id + 1 /\ rhs_id' \in Nat BY DEF Item, TypesOK
<1>2. NextEvent \in Names
  <2>1. PICK n \in DOMAIN event : event[n] = NextEvent BY DEF Item, Defined
  <2>2. event \in Seq(Names) BY DEF TypesOK
  <2> QED BY <2>1, <2>2, LenProperties
<1>3. i \in Items /\ i.rhs_id = rhs_id' /\ i.event = NextEvent BY <1>1, <1>2 DEF Items
<1>4. alts' = Place(i) BY DEF Item
<1> HIDE DEF i
<1>5. UNCHANGED <<list, parsed>> /\ Under = alts /\ Under' = alts'
  BY DEF Item, Under, parser
<1>6. Settled' = Settled /\ InsertedItems' = InsertedItems
  BY <1>5 DEF Settled, InsertedItems, Inserted
<1>7. Settled \in Seq(Seq(Items)) /\ alts \in Seq(Seq(Items)) /\ Written \in Seq(Seq(Items))
  BY WrittenTypes DEF TypesOK
<1>8. <<i>> \in Seq(Items) BY <1>3
<1>9. CASE NewAlternative
  <2>1. alts' = Append(alts, <<i>>) BY <1>4, <1>9 DEF Place
  <2>2. Written' = Append(Written, <<i>>)
    <3>1. Settled \o Append(alts, <<i>>) = Append(Settled \o alts, <<i>>)
      BY <1>7, <1>8, ConcatAppend
    <3> QED BY <1>5, <1>6, <2>1, <3>1 DEF Written
  <2>3. FlattenSeq(Written') = Append(FlattenSeq(Written), i)
    <3>1. FlattenSeq(Written') = FlattenSeq(Written) \o <<i>>
      BY <1>7, <1>8, <2>2, FlattenAppend
    <3>2. FlattenSeq(Written) \in Seq(Items) BY WrittenTypes
    <3> QED BY <1>3, <3>1, <3>2
  <2>4. alts' # <<>> /\ Last(Last(alts')) = i
    <3>1. Last(alts') = <<i>> /\ Len(alts') # 0
      BY <1>7, <1>8, <2>1, AppendProperties DEF Last
    <3> QED BY <3>1 DEF Last
  <2> QED BY <1>1, <1>3, <1>6, <2>2, <2>3, <2>4
<1>10. CASE ~NewAlternative
  <2> DEFINE n == Len(alts)
             l == Append(alts[n], i)
  <2>1. alts # <<>> /\ n \in 1..n /\ n \in Nat \ {0}
    BY <1>7, <1>10, EmptySeq DEF NewAlternative
  <2>2. alts[n] \in Seq(Items) BY <1>7, <2>1, ElementOfSeq
  <2>3. l \in Seq(Items) /\ l[Len(l)] = i BY <1>3, <2>2, AppendProperties
  <2>4. alts' = [alts EXCEPT ![n] = l] BY <1>4, <1>10 DEF Place
  <2>5. Len(Written) = Len(Settled) + n /\ Len(Settled) \in Nat
        /\ Len(Written) \in 1..Len(Written)
        /\ Written[Len(Written)] = alts[n]
    <3>1. Written = Settled \o alts BY <1>5 DEF Written
    <3> QED BY <1>7, <2>1, <3>1, ConcatProperties, LenProperties
  <2>6. Written[Len(Written)] = Last(alts) BY <2>5 DEF Last
  <2>7. Written' = [Written EXCEPT ![Len(Written)] = l]
    <3> DEFINE u == [alts EXCEPT ![n] = l]
               v == [Written EXCEPT ![Len(Written)] = l]
    <3> HIDE DEF l
    <3>1. u \in Seq(Seq(Items)) /\ Len(u) = n
          /\ \A j \in 1..n : u[j] = IF j = n THEN l ELSE alts[j]
      BY <1>7, <2>1, <2>3, ExceptSeq
    <3>2. v \in Seq(Seq(Items)) /\ Len(v) = Len(Written)
          /\ \A j \in 1..Len(Written) : v[j] = IF j = Len(Written) THEN l ELSE Written[j]
      BY <1>7, <2>3, <2>5, ExceptSeq
    <3> HIDE DEF u, v, n
    <3>3. Settled \o u \in Seq(Seq(Items)) /\ Len(Settled \o u) = Len(Written)
          /\ \A j \in 1..Len(Written) :
               (Settled \o u)[j] = IF j <= Len(Settled) THEN Settled[j] ELSE u[j - Len(Settled)]
      BY <1>7, <2>5, <3>1, ConcatProperties
    <3>4. \A j \in 1..Len(Written) :
            Written[j] = IF j <= Len(Settled) THEN Settled[j] ELSE alts[j - Len(Settled)]
      BY <1>5, <1>7, <2>5, ConcatProperties DEF Written, n
    <3>5. ASSUME NEW j \in 1..Len(Written) PROVE (Settled \o u)[j] = v[j]
      <4>1. CASE j <= Len(Settled)
        <5>1. j # Len(Written) BY <2>1, <2>5, <4>1
        <5> QED BY <3>2, <3>3, <3>4, <4>1, <5>1
      <4>2. CASE ~(j <= Len(Settled))
        <5>1. j - Len(Settled) \in 1..n BY <2>5, <4>2, <2>1
        <5>2. j = Len(Written) <=> j - Len(Settled) = n BY <2>5, <2>1
        <5> QED BY <3>1, <3>2, <3>3, <3>4, <4>2, <5>1, <5>2
      <4> QED BY <4>1, <4>2
    <3>6. Settled \o u = v BY <3>2, <3>3, <3>5, SeqEqual
    <3>7. Written' = Settled \o u BY <1>5, <1>6, <2>4 DEF Written, u
    <3> QED BY <3>6, <3>7 DEF v
  <2>8. Written' = [Written EXCEPT ![Len(Written)] = Append(@, i)]
    BY <2>5, <2>7
  <2>9. FlattenSeq(Written') = Append(FlattenSeq(Written), i)
    <3>1. Written # <<>> BY <1>7, <2>5, LenProperties
    <3> QED BY <1>3, <1>7, <2>8, <3>1, FlattenExtend
  <2>10. alts' # <<>> /\ Last(Last(alts')) = i
    <3> HIDE DEF l
    <3>1. Len(alts') = n /\ alts'[n] = l BY <1>7, <2>1, <2>3, <2>4, ExceptSeq
    <3>2. alts' # <<>> BY <2>1, <3>1
    <3> QED BY <2>3, <3>1, <3>2 DEF Last
  <2> HIDE DEF n, l
  <2> QED BY <1>1, <1>3, <1>6, <2>1, <2>5, <2>6, <2>8, <2>9, <2>10
<1> QED BY <1>9, <1>10

LEMMA WrittenFrame ==
  ASSUME TypesOK, [Next]_vars
  PROVE  \/ Item
         \/ Insert
         \/ ~Alive'
         \/ AllocEvent /\ Written' = Written /\ InsertedItems' = InsertedItems
              /\ UNCHANGED <<stage, rhs_id, alts>> /\ Alive
         \/ /\ Written' = Written /\ InsertedItems' = InsertedItems
            /\ UNCHANGED <<rhs_id, event, waiting>> /\ Alive
            /\ stage' = "items" => (stage = "items" /\ alts' = alts) \/ alts' = <<>>
<1> DEFINE Rest == /\ Written' = Written /\ InsertedItems' = InsertedItems
                   /\ UNCHANGED <<rhs_id, event, waiting>> /\ Alive
                   /\ stage' = "items" => (stage = "items" /\ alts' = alts) \/ alts' = <<>>
<1>1. ASSUME UNCHANGED <<list, parsed>>, Under' = Under
      PROVE  Written' = Written /\ InsertedItems' = InsertedItems
  BY <1>1 DEF Written, Settled, InsertedItems, Inserted
<1>2. CASE Known BY <1>2 DEF Known, Refuse, Alive
<1>3. ASSUME NEW c \in Cells, Open(c) \/ Token(c) \/ Import(c)
      PROVE  Rest \/ ~Alive'
  <2>1. UNCHANGED <<list, parsed, alts, rhs_id, event, waiting>>
    BY <1>3 DEF Open, Token, Import, rules, table
  <2>2. CASE Open(c) /\ Conflict(c) BY <2>2 DEF Open, Refuse, Alive
  <2>3. CASE Open(c) /\ ~Conflict(c)
    <3>1. stage = "open" /\ stage' = "imports" BY <2>3 DEF Open
    <3> QED BY <1>1, <2>1, <3>1 DEF Under, Alive
  <2>4. CASE Token(c) \/ Import(c)
    <3>1. stage' = stage /\ Parsing BY <2>4 DEF Token, Import, parser, Parsing
    <3> QED BY <1>1, <2>1, <3>1 DEF Under, Alive, Parsing
  <2> QED BY <1>3, <2>2, <2>3, <2>4
<1>4. CASE Fails BY <1>4 DEF Fails, Alive
<1>5. CASE Aborts \/ NumberRefused \/ NoSuchEvent
  BY <1>5 DEF Aborts, NumberRefused, NoSuchEvent, Abort, Alive
<1>6. CASE ImportsDone \/ EventsDone
  <2>1. UNCHANGED <<list, parsed, alts, rhs_id, event, waiting>>
        /\ stage \in {"imports", "events"} /\ stage' \in {"events", "number"}
    BY <1>6 DEF ImportsDone, EventsDone, rules, table
  <2> QED BY <1>1, <2>1 DEF Under, Alive
<1>7. CASE AllocEvent
  <2>1. UNCHANGED <<list, parsed, alts, rhs_id, stage>> /\ stage = "events"
    BY <1>7 DEF AllocEvent, rules
  <2> QED BY <1>1, <1>7, <2>1 DEF Under, Alive
<1>8. CASE Number
  <2>1. UNCHANGED <<list, parsed, rhs_id, event, waiting>> /\ stage = "number"
        /\ stage' = "items" /\ alts' = <<>>
    BY <1>8 DEF Number, table
  <2> QED BY <1>1, <2>1 DEF Under, Alive
<1>9. CASE FileDone
  <2>1. UNCHANGED <<rhs_id, event, waiting>> /\ stage = "number" /\ stage' \in {"open", "arrays"}
    BY <1>9 DEF FileDone, Join, table
  <2>2. Inserted' = Inserted BY <1>9, JoinKeeps
  <2> QED BY <2>1, <2>2 DEF Written, Settled, InsertedItems, Under, Alive
<1>10. CASE SetArrays
  <2>1. UNCHANGED <<list, parsed, rhs_id, event, waiting>> /\ stage = "arrays" /\ stage' = "loaded"
    BY <1>10 DEF SetArrays, table, rules
  <2> QED BY <1>1, <2>1 DEF Under, Alive
<1>11. CASE UNCHANGED vars
  <2>1. UNCHANGED <<list, parsed, alts, stage, rhs_id, event, waiting>>
    BY <1>11 DEF vars, parser, table, rules
  <2> QED BY <1>1, <2>1 DEF Under, Alive
<1> QED
  BY <1>2, <1>3, <1>4, <1>5, <1>6, <1>7, <1>8, <1>9, <1>10, <1>11 DEF Next

LEMMA WaitingNext ==
  ASSUME TypesOK, Declared, Waiting, [Next]_vars
  PROVE  Waiting'
<1> DEFINE all == FlattenSeq(Written)
<1>0. all \in Seq(Items) /\ InsertedItems \in Seq(Items)
      /\ all = InsertedItems \o FlattenSeq(Under) /\ FlattenSeq(Under) \in Seq(Items)
      /\ event \in Seq(Names) /\ Len(event) \in Nat /\ Len(all) \in Nat
  BY WrittenTypes, LenProperties DEF TypesOK
<1>1. CASE Item
  <2>1. PICK i \in Items : i.event = NextEvent /\ InsertedItems' = InsertedItems
                           /\ FlattenSeq(Written') = Append(all, i)
    BY <1>1, ItemWrites
  <2>2. UNCHANGED <<event, waiting>> /\ Alive BY <1>1 DEF Item, table, Alive
  <2>3. \E n \in 1..Len(event) : event[n] = i.event
    BY <1>0, <1>1, <2>1, LenProperties DEF Item, Defined
  <2> HIDE DEF all
  <2>4. /\ Len(Append(all, i)) = Len(all) + 1 /\ Append(all, i)[Len(all) + 1] = i
        /\ \A k \in 1..Len(all) : Append(all, i)[k] = all[k]
    BY <1>0, <2>1, AppendProperties
  <2>5. ASSUME NEW k \in 1..Len(Append(all, i))
        PROVE  \E n \in 1..Len(event) : event[n] = Append(all, i)[k].event
    <3>1. k \in 1..Len(all) \/ k = Len(all) + 1 BY <1>0, <2>4
    <3> QED BY <2>2, <2>3, <2>4, <3>1 DEF Waiting, all
  <2> QED BY <2>1, <2>2, <2>5 DEF Waiting
<1>2. CASE Insert
  <2>1. Under = alts /\ Written' = Written
        /\ InsertedItems' = InsertedItems \o FlattenSeq(alts)
    BY <1>2, InsertSettles
  <2>2. event' = event /\ Alive BY <1>2 DEF Insert, Alive
  <2>3. DOMAIN waiting = 1..Len(event) BY LenProperties DEF TypesOK, Declared
  <2>4. ASSUME NEW n \in 1..Len(event)
        PROVE  waiting'[n] = ItemsFor(InsertedItems \o FlattenSeq(alts), event[n])
    <3>1. waiting'[n] = waiting[n] \o ItemsFor(FlattenSeq(alts), event[n])
      BY <1>2, <2>3 DEF Insert, NewItems
    <3>2. waiting[n] = ItemsFor(InsertedItems, event[n]) BY <2>2 DEF Waiting
    <3>3. FlattenSeq(alts) \in Seq(Items) BY <1>0, <2>1
    <3>4. ItemsFor(InsertedItems \o FlattenSeq(alts), event[n])
            = ItemsFor(InsertedItems, event[n]) \o ItemsFor(FlattenSeq(alts), event[n])
      BY <1>0, <3>3, ItemsForConcat, SMTT(20)
    <3> QED BY <3>1, <3>2, <3>4
  <2> QED BY <2>1, <2>2, <2>4 DEF Waiting
<1>3. CASE AllocEvent /\ Written' = Written /\ InsertedItems' = InsertedItems
             /\ UNCHANGED <<stage, rhs_id, alts>> /\ Alive
  <2>1. /\ event' \in Seq(Names) /\ Len(event) <= Len(event')
        /\ \A n \in 1..Len(event) : event'[n] = event[n]
        /\ \A m, n \in 1..Len(event') : event'[m] = event'[n] => m = n
    BY <1>3, EventDeclared
  <2>2. Len(event') \in Nat BY <2>1, LenProperties
  <2>3. \/ UNCHANGED <<event, waiting>>
        \/ /\ waiting' = Append(waiting, <<>>)
           /\ Len(event') = Len(event) + 1
    <3>1. CASE UNCHANGED table BY <3>1 DEF table
    <3>2. ASSUME event' = Append(event, File.events[at]) PROVE Len(event') = Len(event) + 1
      <4>1. at \in 1..Len(File.events) /\ File.events \in Seq(Names)
        BY <1>3, TypeOfFile DEF AllocEvent, Files, TypesOK
      <4>2. File.events[at] \in Names BY <4>1, ElementOfSeq
      <4> QED BY <1>0, <3>2, <4>2, AppendProperties
    <3> QED BY <1>3, <3>1, <3>2 DEF AllocEvent, Grow, AddEvent
  <2>4. waiting \in Seq(Seq(Items)) /\ Len(waiting) = Len(event) BY DEF TypesOK, Declared
  <2>5. \A k \in 1..Len(all) : \E n \in 1..Len(event) : event[n] = all[k].event
    BY <1>3 DEF Waiting
  <2> HIDE DEF all
  <2>6. ASSUME NEW n \in 1..Len(event')
        PROVE  waiting'[n] = ItemsFor(InsertedItems, event'[n])
    <3>1. CASE n \in 1..Len(event)
      <4>1. waiting[n] = ItemsFor(InsertedItems, event[n]) BY <1>3, <3>1 DEF Waiting
      <4>2. waiting'[n] = waiting[n]
        <5>1. n \in 1..Len(waiting) /\ <<>> \in Seq(Items) BY <2>4, <3>1
        <5>2. Append(waiting, <<>>)[n] = waiting[n] BY <2>4, <5>1, AppendProperties
        <5> QED BY <2>3, <5>2
      <4> QED BY <2>1, <3>1, <4>1, <4>2
    <3>2. CASE n \notin 1..Len(event)
      <4>1. n = Len(event) + 1 /\ waiting' = Append(waiting, <<>>)
        BY <1>0, <2>2, <2>3, <3>2
      <4>2. waiting'[n] = <<>> BY <2>4, <4>1, AppendProperties
      <4>3. ASSUME NEW k \in 1..Len(InsertedItems) PROVE InsertedItems[k].event # event'[n]
        <5>1. Len(InsertedItems) \in Nat /\ Len(InsertedItems) <= Len(all)
              /\ all[k] = InsertedItems[k]
          BY <1>0, ConcatProperties, LenProperties
        <5>0. k \in 1..Len(all) BY <1>0, <5>1
        <5>2. PICK m \in 1..Len(event) : event[m] = all[k].event BY <2>5, <5>0
        <5>3. m \in 1..Len(event') /\ m # n /\ event'[m] = event[m]
          BY <1>0, <2>1, <2>2, <3>2, <5>2
        <5>4. event'[m] # event'[n] BY <2>1, <5>3
        <5> QED BY <5>1, <5>2, <5>3, <5>4
      <4>4. ItemsFor(InsertedItems, event'[n]) = <<>> BY <1>0, <4>3, ItemsForNone
      <4> QED BY <4>2, <4>4
    <3> QED BY <3>1, <3>2
  <2>7. ASSUME NEW k \in 1..Len(all)
        PROVE  \E n \in 1..Len(event') : event'[n] = all[k].event
    <3>1. PICK m \in 1..Len(event) : event[m] = all[k].event BY <2>5
    <3>2. m \in 1..Len(event') BY <1>0, <2>1, <2>2
    <3> QED BY <2>1, <3>1, <3>2
  <2>8. FlattenSeq(Written') = all BY <1>3 DEF all
  <2> QED BY <1>3, <2>6, <2>7, <2>8 DEF Waiting
<1>4. CASE ~Alive' BY <1>4 DEF Waiting
<1>5. CASE /\ Written' = Written /\ InsertedItems' = InsertedItems
           /\ UNCHANGED <<rhs_id, event, waiting>> /\ Alive
  BY <1>5 DEF Waiting
<1> QED BY <1>1, <1>2, <1>3, <1>4, <1>5, WrittenFrame

LEMMA CountedNext ==
  ASSUME TypesOK, Counted, [Next]_vars
  PROVE  Counted'
<1> DEFINE all == FlattenSeq(Written)
<1>0. /\ Written \in Seq(Seq(Items)) /\ Len(Written) \in Nat /\ rhs_id \in Nat
      /\ all \in Seq(Items) /\ Len(all) \in Nat
  BY WrittenTypes, LenProperties DEF TypesOK
<1>1. CASE Item
  <2>1. PICK i \in Items :
           /\ i.rhs_id = rhs_id + 1 /\ rhs_id' = rhs_id + 1
           /\ FlattenSeq(Written') = Append(all, i)
           /\ alts' # <<>> /\ Last(Last(alts')) = i
           /\ \/ Written' = Append(Written, <<i>>)
              \/ /\ alts # <<>> /\ Len(Written) \in 1..Len(Written)
                 /\ Written[Len(Written)] = Last(alts)
                 /\ Written' = [Written EXCEPT ![Len(Written)] = Append(@, i)]
    BY <1>1, ItemWrites
  <2>2. Alive /\ stage = "items" BY <1>1 DEF Item, Alive
  <2>3. Len(all) = rhs_id /\ \A k \in 1..rhs_id : all[k].rhs_id = k
    BY <2>2 DEF Counted
  <2> HIDE DEF all
  <2>4. Len(FlattenSeq(Written')) = rhs_id'
        /\ \A k \in 1..rhs_id' : FlattenSeq(Written')[k].rhs_id = k
    BY <1>0, <2>1, <2>3, AppendProperties
  <2>5. /\ \A n \in 1..Len(Written) : \A k \in 1..Len(Written[n]) :
             /\ Written[n][k].rhs_id = Written[n][1].rhs_id + k - 1
             /\ Written[n][k].rhs_id \in 1..rhs_id
        /\ \A m, n \in 1..Len(Written) : \A k \in 1..Len(Written[m]), l \in 1..Len(Written[n]) :
             Written[m][k].rhs_id = Written[n][l].rhs_id => m = n
        /\ alts # <<>> => Last(Last(alts)).rhs_id = rhs_id
    BY <2>2 DEF Counted
  <2>6. /\ \A n \in 1..Len(Written') : \A k \in 1..Len(Written'[n]) :
             /\ Written'[n][k].rhs_id = Written'[n][1].rhs_id + k - 1
             /\ Written'[n][k].rhs_id \in 1..rhs_id'
        /\ \A m, n \in 1..Len(Written') : \A k \in 1..Len(Written'[m]), l \in 1..Len(Written'[n]) :
             Written'[m][k].rhs_id = Written'[n][l].rhs_id => m = n
    <3>1. CASE Written' = Append(Written, <<i>>)
      <4>1. /\ Len(Written') = Len(Written) + 1 /\ Written'[Len(Written) + 1] = <<i>>
            /\ \A n \in 1..Len(Written) : Written'[n] = Written[n]
            /\ Len(<<i>>) = 1 /\ <<i>>[1] = i
        BY <1>0, <3>1, AppendProperties
      <4>2. \A n \in 1..Len(Written') : n \in 1..Len(Written) \/ n = Len(Written) + 1
        BY <1>0, <4>1
      <4>3. ASSUME NEW n \in 1..Len(Written'), NEW k \in 1..Len(Written'[n])
            PROVE  /\ Written'[n][k].rhs_id = Written'[n][1].rhs_id + k - 1
                   /\ Written'[n][k].rhs_id \in 1..rhs_id'
        <5>1. CASE n \in 1..Len(Written)
          <6>1. Written'[n] = Written[n] BY <4>1, <5>1
          <6>2. Written[n][k].rhs_id = Written[n][1].rhs_id + k - 1
                /\ Written[n][k].rhs_id \in 1..rhs_id
            BY <2>5, <5>1, <6>1
          <6> QED BY <1>0, <2>1, <6>1, <6>2
        <5>2. CASE n = Len(Written) + 1
          <6>1. Written'[n] = <<i>> BY <4>1, <5>2
          <6>2. Len(Written'[n]) = 1 /\ Written'[n][1] = i BY <6>1
          <6>3. k = 1 BY <6>2
          <6> QED BY <1>0, <2>1, <6>2, <6>3
        <5> QED BY <4>2, <5>1, <5>2
      <4>4. \A m \in 1..Len(Written) : \A k \in 1..Len(Written[m]) :
              Written[m][k].rhs_id # rhs_id + 1
        BY <1>0, <2>5
      <4>5. ASSUME NEW m \in 1..Len(Written'), NEW n \in 1..Len(Written'),
                   NEW k \in 1..Len(Written'[m]), NEW l \in 1..Len(Written'[n]),
                   Written'[m][k].rhs_id = Written'[n][l].rhs_id
            PROVE  m = n
        <5>1. CASE m \in 1..Len(Written) /\ n \in 1..Len(Written)
          <6>1. Written'[m] = Written[m] /\ Written'[n] = Written[n] BY <4>1, <5>1
          <6> QED BY <2>5, <4>5, <5>1, <6>1
        <5>2. CASE m \in 1..Len(Written) /\ n = Len(Written) + 1
          <6>1. Written'[n][l].rhs_id = rhs_id + 1 BY <2>1, <4>1, <5>2
          <6> QED BY <4>1, <4>4, <4>5, <5>2, <6>1
        <5>3. CASE m = Len(Written) + 1 /\ n \in 1..Len(Written)
          <6>1. Written'[m][k].rhs_id = rhs_id + 1 BY <2>1, <4>1, <5>3
          <6> QED BY <4>1, <4>4, <4>5, <5>3, <6>1
        <5> QED BY <4>2, <5>1, <5>2, <5>3
      <4> QED BY <4>3, <4>5
    <3>2. CASE /\ alts # <<>> /\ Len(Written) \in 1..Len(Written)
               /\ Written[Len(Written)] = Last(alts)
               /\ Written' = [Written EXCEPT ![Len(Written)] = Append(@, i)]
      <4> DEFINE N == Len(Written)
                 old == Written[N]
      <4>1. old \in Seq(Items) BY <1>0, <3>2, ElementOfSeq
      <4>2. /\ Len(Append(old, i)) = Len(old) + 1 /\ Append(old, i)[Len(old) + 1] = i
            /\ \A k \in 1..Len(old) : Append(old, i)[k] = old[k]
            /\ Append(old, i) \in Seq(Items) /\ Len(old) \in Nat
        BY <4>1, AppendProperties, LenProperties
      <4>3. old # <<>>
        <5>1. alts \in Seq(Seq(Items)) /\ \A n \in 1..Len(alts) : alts[n] # <<>>
          BY DEF TypesOK
        <5>2. Len(alts) \in 1..Len(alts) BY <5>1, <3>2, EmptySeq
        <5> QED BY <3>2, <5>1, <5>2 DEF Last
      <4>4. Len(old) \in Nat \ {0} BY <4>1, <4>3, EmptySeq
      <4>5. old[Len(old)].rhs_id = rhs_id BY <2>5, <3>2 DEF Last
      <4>6. Written' = [Written EXCEPT ![N] = Append(old, i)] BY <3>2
      <4>7. /\ Len(Written') = N /\ Written'[N] = Append(old, i)
            /\ \A n \in 1..N : n # N => Written'[n] = Written[n]
        BY <1>0, <3>2, <4>2, <4>6, ExceptSeq
      <4>8. \A k \in 1..Len(old) :
              /\ old[k].rhs_id = old[1].rhs_id + k - 1
              /\ old[k].rhs_id \in 1..rhs_id
        BY <2>5, <3>2
      <4>9. old[1].rhs_id + Len(old) - 1 = rhs_id /\ old[1].rhs_id \in 1..rhs_id
        <5>1. Len(old) \in 1..Len(old) /\ 1 \in 1..Len(old) BY <4>4
        <5> QED BY <4>5, <4>8, <5>1
      <4> HIDE DEF old, N
      <4>10. ASSUME NEW n \in 1..N, NEW k \in 1..Len(Written'[n])
             PROVE  /\ Written'[n][k].rhs_id = Written'[n][1].rhs_id + k - 1
                    /\ Written'[n][k].rhs_id \in 1..rhs_id'
        <5>1. CASE n # N
          <6>1. Written'[n] = Written[n] BY <4>7, <5>1
          <6>2. Written[n][k].rhs_id = Written[n][1].rhs_id + k - 1
                /\ Written[n][k].rhs_id \in 1..rhs_id
            BY <2>5, <6>1 DEF N
          <6> QED BY <1>0, <2>1, <6>1, <6>2
        <5>2. CASE n = N
          <6>1. Written'[n] = Append(old, i) BY <4>7, <5>2
          <6>2. Append(old, i)[1] = old[1] BY <4>2, <4>4
          <6>3. k \in 1..Len(old) \/ k = Len(old) + 1 BY <4>2, <4>4, <6>1
          <6>4. CASE k \in 1..Len(old)
            <7>1. Append(old, i)[k] = old[k] BY <4>2, <6>4
            <7>2. /\ old[k].rhs_id = old[1].rhs_id + k - 1
                  /\ old[k].rhs_id \in 1..rhs_id
              BY <4>8, <6>4
            <7>3. \A m \in 1..rhs_id : m \in 1..rhs_id' BY <1>0, <2>1
            <7> QED BY <6>1, <6>2, <7>1, <7>2, <7>3
          <6>5. CASE k = Len(old) + 1
            <7>1. Append(old, i)[k].rhs_id = rhs_id + 1 BY <2>1, <4>2, <6>5
            <7>2. rhs_id + 1 = old[1].rhs_id + k - 1
              <8>1. old[1].rhs_id \in Int BY <1>0, <4>9
              <8> DEFINE x == old[1].rhs_id
                         y == Len(old)
              <8>2. x \in Int /\ y \in Int /\ rhs_id \in Int /\ x + y - 1 = rhs_id /\ k = y + 1
                BY <1>0, <4>4, <4>9, <6>5, <8>1
              <8> HIDE DEF x, y
              <8>3. rhs_id + 1 = x + k - 1 BY <8>2
              <8> QED BY <8>3 DEF x
            <7>3. rhs_id + 1 \in 1..rhs_id' BY <1>0, <2>1
            <7> QED BY <6>1, <6>2, <7>1, <7>2, <7>3
          <6> QED BY <6>3, <6>4, <6>5
        <5> QED BY <5>1, <5>2
      <4>11. ASSUME NEW m \in 1..N, NEW k \in 1..Len(Written'[m])
             PROVE  \/ k \in 1..Len(Written[m]) /\ Written'[m][k] = Written[m][k]
                    \/ m = N /\ Written'[m][k].rhs_id = rhs_id + 1
        <5>1. CASE m # N BY <4>7, <5>1
        <5>2. CASE m = N
          <6>1. Written'[m] = Append(old, i) /\ Written[m] = old BY <4>7, <5>2 DEF old
          <6>2. k \in 1..Len(old) \/ k = Len(old) + 1 BY <4>2, <4>4, <6>1
          <6> QED BY <2>1, <4>2, <5>2, <6>1, <6>2
        <5> QED BY <5>1, <5>2
      <4>12. \A m \in 1..N : \A k \in 1..Len(Written[m]) : Written[m][k].rhs_id # rhs_id + 1
        BY <1>0, <2>5 DEF N
      <4>13. ASSUME NEW m \in 1..N, NEW n \in 1..N,
                    NEW k \in 1..Len(Written'[m]), NEW l \in 1..Len(Written'[n]),
                    Written'[m][k].rhs_id = Written'[n][l].rhs_id
             PROVE  m = n
        <5>1. CASE k \in 1..Len(Written[m]) /\ Written'[m][k] = Written[m][k]
          <6>1. Written'[n][l].rhs_id # rhs_id + 1 BY <4>12, <4>13, <5>1
          <6>2. l \in 1..Len(Written[n]) /\ Written'[n][l] = Written[n][l] BY <4>11, <6>1
          <6> QED BY <2>5, <4>13, <5>1, <6>2, SMTT(20) DEF N
        <5>2. CASE m = N /\ Written'[m][k].rhs_id = rhs_id + 1
          <6>1. n = N BY <4>11, <4>12, <4>13, <5>2
          <6> QED BY <5>2, <6>1
        <5> QED BY <4>11, <5>1, <5>2
      <4> QED BY <4>7, <4>10, <4>13
    <3> QED BY <2>1, <3>1, <3>2
  <2> QED BY <2>1, <2>4, <2>6 DEF Counted
<1>2. CASE Insert
  <2>1. Written' = Written BY <1>2, InsertSettles
  <2>2. rhs_id' = rhs_id /\ stage' # "items" /\ Alive BY <1>2 DEF Insert, Alive
  <2> QED BY <2>1, <2>2 DEF Counted
<1>3. CASE ~Alive' BY <1>3 DEF Counted
<1>4. CASE Written' = Written /\ UNCHANGED rhs_id /\ Alive
             /\ (stage' = "items" => (stage = "items" /\ alts' = alts) \/ alts' = <<>>)
  BY <1>4 DEF Counted
<1> QED BY <1>1, <1>2, <1>3, <1>4, WrittenFrame

-----------------------------------------------------------------------------
(* The arrays.                                                             *)

\* An alternative whose items have one number after the other: where an item
\* stands and which are its neighbours.
LEMMA Neighbours ==
  ASSUME NEW a \in Seq(Items), NEW k \in 1..Len(a),
         \A l \in 1..Len(a) : a[l].rhs_id = a[1].rhs_id + l - 1
  PROVE  LET i == a[k].rhs_id IN
         /\ PlaceIn(a, i) = k
         /\ Before(a, k) = IF i - 1 \in ItemsOf(a) THEN i - 1 ELSE 0
         /\ Behind(a, k) = IF i + 1 \in ItemsOf(a) THEN i + 1 ELSE 0
<1> DEFINE i == a[k].rhs_id
           first == a[1].rhs_id
<1>1. DOMAIN a = 1..Len(a) /\ Len(a) \in Nat BY LenProperties
<1>2. 1 \in 1..Len(a) BY <1>1
<1>3. first \in Nat
  <2>1. a[1] \in Items BY <1>2, ElementOfSeq
  <2> QED BY <2>1 DEF Items
<1> HIDE DEF first
<1>4. \A l \in 1..Len(a) : a[l].rhs_id = first + l - 1 BY DEF first
<1>5. i = first + k - 1 BY <1>4
<1>6. \A j : j \in ItemsOf(a) <=> \E l \in 1..Len(a) : first + l - 1 = j
  BY <1>1, <1>4 DEF ItemsOf
<1> HIDE DEF i
<1>7. PlaceIn(a, i) = k
  <2>1. \A l \in 1..Len(a) : a[l].rhs_id = i <=> l = k BY <1>1, <1>3, <1>4, <1>5
  <2> DEFINE p == CHOOSE l \in DOMAIN a : a[l].rhs_id = i
  <2>2. p \in 1..Len(a) /\ a[p].rhs_id = i BY <1>1, <2>1
  <2>3. p = k
    <3> HIDE DEF p
    <3> QED BY <2>1, <2>2
  <2> QED BY <2>3 DEF PlaceIn
<1>8. Before(a, k) = IF i - 1 \in ItemsOf(a) THEN i - 1 ELSE 0
  <2>1. CASE k = 1
    <3>1. i - 1 \notin ItemsOf(a)
      <4>1. \A l \in 1..Len(a) : first + l - 1 # i - 1 BY <1>1, <1>3, <1>5, <2>1
      <4> QED BY <1>6, <4>1
    <3> QED BY <2>1, <3>1 DEF Before
  <2>2. CASE k # 1
    <3>1. k - 1 \in 1..Len(a) /\ first + (k - 1) - 1 = i - 1 BY <1>1, <1>3, <1>5, <2>2
    <3>2. i - 1 \in ItemsOf(a) BY <1>6, <3>1
    <3>3. a[k - 1].rhs_id = i - 1 BY <1>4, <3>1
    <3> QED BY <2>2, <3>2, <3>3 DEF Before
  <2> QED BY <2>1, <2>2
<1>9. Behind(a, k) = IF i + 1 \in ItemsOf(a) THEN i + 1 ELSE 0
  <2>1. CASE k = Len(a)
    <3>1. i + 1 \notin ItemsOf(a)
      <4>1. \A l \in 1..Len(a) : first + l - 1 # i + 1 BY <1>1, <1>3, <1>5, <2>1
      <4> QED BY <1>6, <4>1
    <3> QED BY <2>1, <3>1 DEF Behind
  <2>2. CASE k # Len(a)
    <3>0. k + 1 \in 1..Len(a)
      <4> DEFINE N == Len(a)
      <4>1. N \in Nat /\ k \in 1..N /\ k # N BY <1>1, <2>2
      <4> HIDE DEF N
      <4>2. k + 1 \in 1..N BY <4>1
      <4> QED BY <4>2 DEF N
    <3>1. k + 1 \in 1..Len(a) /\ first + (k + 1) - 1 = i + 1 BY <1>3, <1>5, <3>0
    <3>2. i + 1 \in ItemsOf(a) BY <1>6, <3>1
    <3>3. a[k + 1].rhs_id = i + 1 BY <1>4, <3>1
    <3> QED BY <2>2, <3>2, <3>3 DEF Behind
  <2> QED BY <2>1, <2>2
<1> QED BY <1>7, <1>8, <1>9 DEF i

\* When all files are done, every alternative belongs to the engine.
LEMMA AllSettled ==
  ASSUME TypesOK, stage \in {"arrays", "loaded"}
  PROVE  /\ Alternatives = Written /\ InsertedItems = FlattenSeq(Written)
         /\ Written \in Seq(Seq(Items))
<1>1. parsed = <<>> /\ Under = <<>> BY DEF TypesOK, Under
<1>2. Inserted = list BY <1>1, ConcatEmptySeq DEF Inserted, TypesOK
<1>3. Settled = Alternatives BY <1>2 DEF Settled, Alternatives
<1>4. Written = Settled BY <1>1, WrittenTypes, ConcatEmptySeq DEF Written
<1> QED BY <1>3, <1>4, WrittenTypes

LEMMA ArraysLink ==
  ASSUME TypesOK, Counted, SetArrays
  PROVE  TablesFit'
<1> DEFINE A == Alternatives
<1>1. stage = "arrays" /\ UNCHANGED <<list, parsed, rhs_id>> BY DEF SetArrays, rules
<1>2. A = Written /\ InsertedItems = FlattenSeq(Written) /\ A \in Seq(Seq(Items))
  BY <1>1, AllSettled
<1>3. Alternatives' = A /\ InsertedItems' = InsertedItems
  BY <1>1 DEF Alternatives, InsertedItems, Inserted
<1>4. Alive BY <1>1 DEF Alive
<1>5. DOMAIN A = 1..Len(A) /\ \A n \in 1..Len(A) : A[n] \in Seq(Items)
  BY <1>2, LenProperties, ElementOfSeq
<1>6. \A n \in 1..Len(A) : \A k \in 1..Len(A[n]) :
        /\ A[n][k].rhs_id = A[n][1].rhs_id + k - 1
        /\ A[n][k].rhs_id \in 1..rhs_id
  BY <1>2, <1>4 DEF Counted
<1>7. \A m, n \in 1..Len(A) : \A k \in 1..Len(A[m]), l \in 1..Len(A[n]) :
        A[m][k].rhs_id = A[n][l].rhs_id => m = n
  BY <1>2, <1>4 DEF Counted
<1>8. [k \in DOMAIN InsertedItems |-> InsertedItems[k].rhs_id] = [k \in 1..rhs_id |-> k]
  <2>1. Len(InsertedItems) = rhs_id /\ \A k \in 1..rhs_id : InsertedItems[k].rhs_id = k
    BY <1>2, <1>4 DEF Counted
  <2>2. DOMAIN InsertedItems = 1..rhs_id BY <2>1, WrittenTypes, LenProperties
  <2> QED BY <2>1, <2>2
<1>9. ASSUME NEW n \in 1..Len(A), NEW i \in ItemsOf(A[n])
      PROVE  /\ prefix'[i] = (IF i - 1 \in ItemsOf(A[n]) THEN i - 1 ELSE 0)
             /\ postfix'[i] = (IF i + 1 \in ItemsOf(A[n]) THEN i + 1 ELSE 0)
  <2>1. DOMAIN A[n] = 1..Len(A[n]) BY <1>5, LenProperties
  <2>2. PICK k \in 1..Len(A[n]) : A[n][k].rhs_id = i BY <2>1 DEF ItemsOf
  <2>3. i \in 1..rhs_id BY <1>6, <2>2
  <2>4. AlternativeOf(i) = A[n]
    <3> DEFINE b == CHOOSE b \in ToSet(A) : i \in ItemsOf(b)
    <3>1. A[n] \in ToSet(A) BY <1>5 DEF ToSet
    <3>2. b \in ToSet(A) /\ i \in ItemsOf(b) BY <3>1
    <3> HIDE DEF b
    <3>3. PICK m \in 1..Len(A) : b = A[m] BY <1>5, <3>2 DEF ToSet
    <3>4. DOMAIN A[m] = 1..Len(A[m]) BY <1>5, LenProperties
    <3>5. PICK l \in 1..Len(A[m]) : A[m][l].rhs_id = i BY <3>2, <3>3, <3>4 DEF ItemsOf
    <3>6. m = n BY <1>7, <2>2, <3>5
    <3> QED BY <3>3, <3>6 DEF AlternativeOf, b
  <2>5. A[n] \in Seq(Items) /\ \A l \in 1..Len(A[n]) : A[n][l].rhs_id = A[n][1].rhs_id + l - 1
    BY <1>5, <1>6
  <2> HIDE DEF A
  <2>6. /\ PlaceIn(A[n], i) = k
        /\ Before(A[n], k) = IF i - 1 \in ItemsOf(A[n]) THEN i - 1 ELSE 0
        /\ Behind(A[n], k) = IF i + 1 \in ItemsOf(A[n]) THEN i + 1 ELSE 0
    BY <2>2, <2>5, Neighbours
  <2>7. prefix'[i] = Before(A[n], PlaceIn(A[n], i)) /\ postfix'[i] = Behind(A[n], PlaceIn(A[n], i))
    BY <2>3, <2>4 DEF SetArrays
  <2> QED BY <2>6, <2>7
<1> HIDE DEF A
<1> QED BY <1>1, <1>3, <1>5, <1>8, <1>9 DEF TablesFit

LEMMA TablesNext ==
  ASSUME TypesOK, Counted, TablesFit, [Next]_vars
  PROVE  TablesFit'
<1>1. CASE SetArrays BY <1>1, ArraysLink
<1>2. CASE stage' # "loaded" BY <1>2 DEF TablesFit
<1>3. CASE UNCHANGED vars
  BY <1>3 DEF vars, parser, rules, arrays, TablesFit, InsertedItems, Inserted, Alternatives
<1>4. Next => SetArrays \/ stage' # "loaded"
  BY DEF Next, Known, Refuse, Fails, Aborts, Abort, Open, Token, Import, ImportsDone,
         AllocEvent, EventsDone, Number, NumberRefused, Item, NoSuchEvent, Insert, FileDone,
         Join, parser, Parsing
<1> QED BY <1>1, <1>2, <1>3, <1>4

-----------------------------------------------------------------------------
(* The theorems.                                                           *)

LEMMA InitInv == Init => Inv
<1> SUFFICES ASSUME Init PROVE Inv
  OBVIOUS
<1>1. TypesOK BY InitTypes
<1>2. list = <<>> /\ parsed = <<>> /\ stage = "open" /\ alts = <<>> /\ event = <<>>
      /\ waiting = <<>> /\ declared = <<>> /\ hash = {} /\ rhs_id = 0
      /\ attached = {} /\ imported = {} /\ used = {}
  BY DEF Init
<1>3. Inserted = <<>> /\ Len(Inserted) = 0 BY <1>2 DEF Inserted
<1>4. Numbered BY <1>2, <1>3 DEF Numbered, NumbersUnique
<1>5. Declared
  <2>1. Len(File.events) \in Nat BY <1>1, TypeOfFile
  <2>2. size \in Nat BY <1>1 DEF TypesOK
  <2> QED BY <1>2, <2>1, <2>2 DEF Declared, CrashIfRepeated
<1>6. Imported BY <1>2 DEF Imported, LibrariesKnown, Extracted, Parsing
<1>7. Written = <<>> /\ FlattenSeq(Written) = <<>>
  <2>1. AlternativesIn(Inserted) = <<>>
    <3>1. AlternativesIn(Inserted) \in Seq(Seq(Seq(Items))) BY <1>1, InsertedType, AlternativesInType
    <3>2. DOMAIN AlternativesIn(Inserted) = {} BY <1>3 DEF AlternativesIn
    <3>3. Len(AlternativesIn(Inserted)) = 0 BY <3>1, <3>2, LenProperties
    <3> QED BY <3>1, <3>3, EmptySeq
  <2>2. Settled = <<>> BY <2>1, FlattenEmpty DEF Settled, AlternativesIn
  <2>3. Written = <<>> BY <1>2, <2>2 DEF Written, Under
  <2> QED BY <2>3, FlattenEmpty
<1>8. Waiting BY <1>2, <1>7 DEF Waiting
<1>9. Counted BY <1>2, <1>7 DEF Counted
<1>10. TablesFit BY <1>2 DEF TablesFit
<1> QED BY <1>1, <1>4, <1>5, <1>6, <1>8, <1>9, <1>10 DEF Inv

LEMMA NextInv == Inv /\ [Next]_vars => Inv'
<1> SUFFICES ASSUME Inv, [Next]_vars PROVE Inv'
  OBVIOUS
<1>1. TypesOK /\ Numbered /\ Declared /\ Imported /\ Waiting /\ Counted /\ TablesFit
  BY DEF Inv
<1>2. TypesOK' BY <1>1, NextTypes
<1>3. Numbered' BY <1>1, NumberedNext
<1>4. Declared' BY <1>1, DeclaredNext
<1>5. Imported' BY <1>1, ImportedNext
<1>6. Waiting' BY <1>1, WaitingNext
<1>7. Counted' BY <1>1, CountedNext
<1>8. TablesFit' BY <1>1, TablesNext
<1> QED BY <1>2, <1>3, <1>4, <1>5, <1>6, <1>7, <1>8 DEF Inv

\* The invariant, for any files, any number of cells on any lines.
THEOREM LoadInvariant == Spec => []Inv
BY InitInv, NextInv, PTL DEF Spec

\* The lists of the events have the items that wait for them, all of them and
\* in their order, however often the array of the events has grown.
THEOREM ListsAlwaysComplete == Spec => []ListsComplete
<1>1. Inv => ListsComplete
  <2> SUFFICES ASSUME Inv PROVE ListsComplete
    OBVIOUS
  <2>1. DOMAIN event = 1..Len(event) BY LenProperties DEF Inv, TypesOK
  <2> QED BY <2>1 DEF Inv, Declared, Waiting, Alive, ListsComplete
<1> QED BY <1>1, LoadInvariant, PTL

\* A loaded engine numbers its items 1..rhs_id in the order of the text, and
\* links the neighbours in an alternative and nothing else.
THEOREM TablesAlwaysFit == Spec => []TablesFit
<1>1. Inv => TablesFit BY DEF Inv
<1> QED BY <1>1, LoadInvariant, PTL

\* No two signatures of an engine have one number.
THEOREM NumbersAlwaysUnique == Spec => []NumbersUnique
<1>1. Inv => NumbersUnique BY DEF Inv, Numbered
<1> QED BY <1>1, LoadInvariant, PTL

\* The entry of a library never outlives the name it points to, and each
\* %import finds its library.
THEOREM LibrariesAlwaysKnown == Spec => []LibrariesKnown
<1>1. Inv => LibrariesKnown BY DEF Inv, Imported
<1> QED BY <1>1, LoadInvariant, PTL

\* Giving up a file stops the program only if that file declares an event twice.
THEOREM CrashOnlyIfRepeated == Spec => []CrashIfRepeated
<1>1. Inv => CrashIfRepeated BY DEF Inv, Declared
<1> QED BY <1>1, LoadInvariant, PTL

-----------------------------------------------------------------------------
(* Module Link, for any number of events and any names of functions.  The  *)
(* invariant LinkInv knows that no name stands twice on the list of init   *)
(* functions, how far their calls are, and which owners the last loops of  *)
(* do_link have been through; FinitInv does the same for finit functions.  *)

Phases ==
  {"parse", "inits", "init", "finits", "hooks", "loaded", "failed", "unload", "gone"}

LinkTypes ==
  /\ phase \in Phases
  /\ hook \in [Slots -> Code(FunctionNames \cup {"none"})]
  /\ inits \in Seq(Code(Inits))
  /\ pos \in Nat
  /\ entered \in Seq(Inits)

\* No function is on the list of init functions twice.
OneOfAName ==
  \A m, n \in 1..Len(inits) : inits[m].function = inits[n].function => m = n

\* How far the calls of the init functions are.
InitProgress ==
  /\ Len(entered) <= Len(inits)
  /\ \A n \in 1..Len(entered) : entered[n] = inits[n].function
  /\ phase = "parse" => Len(entered) = 0
  /\ phase = "inits" => Len(entered) + 1 = pos
  /\ phase = "init" => Len(entered) = pos
  /\ phase \in {"finits", "hooks", "loaded"} => Len(entered) = Len(inits)

\* An owner that the last loops of do_link have been through.
Done(o) ==
  \A s \in Slots : s[1] = o /\ hook[s] # NoCode /\ ~hook[s].handle =>
    /\ o # Work
    /\ \E t \in Slots : t[1] = o /\ t[2] < s[2] /\ hook[t].handle

HooksDone ==
  /\ phase = "hooks" => \A o \in Owners : o < pos => Done(o)
  /\ phase = "loaded" => \A o \in Owners : Done(o)

LinkInv == LinkTypes /\ OneOfAName /\ InitProgress /\ HooksDone

LEMMA KindsBounds == \A o \in Owners : DOMAIN Kinds(o) = 1..2 \/ DOMAIN Kinds(o) = 1..3
<1> SUFFICES ASSUME NEW o \in Owners
             PROVE  DOMAIN Kinds(o) = 1..2 \/ DOMAIN Kinds(o) = 1..3
  OBVIOUS
<1>1. CASE o = Work
  <2>1. Kinds(o) = <<"init", "finit">>
    BY <1>1 DEF Kinds
  <2> QED BY <2>1
<1>2. CASE o # Work
  <2>1. Kinds(o) = <<"init", "finit", "preprocessor">>
    BY <1>2 DEF Kinds
  <2> QED BY <2>1
<1> QED BY <1>1, <1>2

LEMMA SlotPairs ==
  \A s \in Slots : /\ s[1] \in Owners /\ s[2] \in DOMAIN Kinds(s[1])
                   /\ \A n \in 1..s[2] - 1 : <<s[1], n>> \in Slots
<1> SUFFICES ASSUME NEW s \in Slots
             PROVE  /\ s[1] \in Owners /\ s[2] \in DOMAIN Kinds(s[1])
                    /\ \A n \in 1..s[2] - 1 : <<s[1], n>> \in Slots
  OBVIOUS
<1>0. PICK o \in Owners : s \in {<<o, n>> : n \in DOMAIN Kinds(o)}
  BY DEF Slots
<1>1. PICK k \in DOMAIN Kinds(o) : s = <<o, k>>
  BY <1>0
<1>2. s[1] = o /\ s[2] = k
  BY <1>1
<1>3. DOMAIN Kinds(o) = 1..2 \/ DOMAIN Kinds(o) = 1..3
  BY KindsBounds
<1>4. \A n \in 1..k - 1 : n \in DOMAIN Kinds(o)
  BY <1>3
<1> QED BY <1>1, <1>2, <1>4 DEF Slots

LEMMA LinkInitInv == LinkInit => LinkInv
  BY DEF LinkInit, LinkInv, LinkTypes, Phases, Code, NoCode, OneOfAName, InitProgress, HooksDone

-----------------------------------------------------------------------------
(* Registration.                                                           *)

LEMMA AddInitInv ==
  ASSUME LinkInv, NEW f \in Inits, AddInit(f)
  PROVE  LinkInv'
<1>1. /\ phase = "parse" /\ inits' = Add(Unbound(f), inits)
      /\ UNCHANGED <<phase, hook, finits, pos, entered, ended>>
  BY DEF AddInit
<1>2. inits \in Seq(Code(Inits)) /\ Unbound(f) \in Code(Inits) /\ Unbound(f).function = f
  BY DEF LinkInv, LinkTypes, Unbound, Code
<1>3. CASE inits' = inits
  BY <1>1, <1>3 DEF LinkInv, LinkTypes, OneOfAName, InitProgress, HooksDone, Done
<1>4. CASE inits' # inits
  <2>1. inits' = Append(inits, Unbound(f)) /\ \A n \in DOMAIN inits : inits[n].function # f
    BY <1>1, <1>2, <1>4 DEF Add, Listed
  <2>2. /\ inits' \in Seq(Code(Inits)) /\ Len(inits') = Len(inits) + 1
        /\ Len(inits) \in Nat /\ DOMAIN inits = 1..Len(inits)
        /\ \A n \in 1..Len(inits) : inits'[n] = inits[n]
        /\ inits'[Len(inits) + 1] = Unbound(f)
    BY <1>2, <2>1, AppendProperties, LenProperties
  <2>3. LinkTypes'
    BY <1>1, <2>2 DEF LinkInv, LinkTypes
  <2>4. OneOfAName'
    BY <1>2, <2>1, <2>2 DEF LinkInv, OneOfAName
  <2>5. HooksDone'
    BY <1>1 DEF HooksDone
  <2>6. InitProgress'
    <3>1. Len(entered) = 0
      BY <1>1 DEF LinkInv, InitProgress
    <3>2. entered' = entered /\ phase' = "parse" /\ Len(inits') \in Nat
      BY <1>1, <2>2
    <3>3. 0 <= Len(inits')
      BY <3>2
    <3> QED BY <3>1, <3>2, <3>3 DEF InitProgress
  <2> QED BY <2>3, <2>4, <2>5, <2>6 DEF LinkInv
<1> QED BY <1>3, <1>4

\* Whoever registers first keeps the slot.
LEMMA SetKeeps ==
  ASSUME LinkTypes, NEW s \in Slots, NEW f \in FunctionNames, NEW h \in BOOLEAN,
         Set(s, [function |-> f, handle |-> h])
  PROVE  /\ hook' \in [Slots -> Code(FunctionNames \cup {"none"})]
         /\ \A t \in Slots : hook[t] # NoCode => hook'[t] = hook[t]
<1>1. [function |-> f, handle |-> h] \in Code(FunctionNames \cup {"none"})
  BY DEF Code
<1>2. \/ hook' = [hook EXCEPT ![s] = [function |-> f, handle |-> h]] /\ hook[s] = NoCode
      \/ hook' = hook
  BY DEF Set
<1> QED BY <1>1, <1>2 DEF LinkTypes

\* The finit functions and their calls have no part in LinkInv.
LEMMA FrameInv ==
  ASSUME LinkInv, UNCHANGED <<phase, hook, inits, pos, entered>>
  PROVE  LinkInv'
  BY DEF LinkInv, LinkTypes, OneOfAName, InitProgress, HooksDone, Done

LEMMA RegisterInv ==
  ASSUME LinkInv, Register
  PROVE  LinkInv'
<1>1. CASE \E f \in Inits : AddInit(f)
  BY <1>1, AddInitInv
<1>2. CASE \E f \in Finits, h \in BOOLEAN : AddFinit([function |-> f, handle |-> h])
  <2>1. UNCHANGED <<phase, hook, inits, pos, entered>>
    BY <1>2 DEF AddFinit
  <2> QED BY <2>1, FrameInv
<1>3. CASE \E s \in Slots, f \in FunctionNames, h \in BOOLEAN :
             SetHook(s, [function |-> f, handle |-> h])
  <2>1. PICK s \in Slots, f \in FunctionNames, h \in BOOLEAN :
          SetHook(s, [function |-> f, handle |-> h])
    BY <1>3
  <2>2. /\ hook' \in [Slots -> Code(FunctionNames \cup {"none"})]
        /\ UNCHANGED <<phase, inits, finits, pos, entered, ended>>
        /\ phase \in {"parse", "init"}
    BY <2>1, SetKeeps DEF SetHook, Registering, LinkInv
  <2> QED BY <2>2 DEF LinkInv, LinkTypes, OneOfAName, InitProgress, HooksDone
<1> QED BY <1>1, <1>2, <1>3 DEF Register

-----------------------------------------------------------------------------
(* do_link and the destruction of the engine.                              *)

LEMMA FailInv ==
  ASSUME LinkInv, Fail
  PROVE  LinkInv'
  BY DEF Fail, LinkInv, LinkTypes, Phases, OneOfAName, InitProgress, HooksDone

LEMMA CallInitInv ==
  ASSUME LinkInv, CallInit
  PROVE  LinkInv'
<1>1. /\ phase = "inits" /\ phase' = "init" /\ pos \in DOMAIN inits
      /\ inits' = [inits EXCEPT ![pos] = Bound(inits[pos].function)]
      /\ entered' = Append(entered, inits[pos].function)
      /\ UNCHANGED <<hook, pos>>
  BY DEF CallInit
<1>2. /\ inits \in Seq(Code(Inits)) /\ Len(inits) \in Nat /\ DOMAIN inits = 1..Len(inits)
      /\ entered \in Seq(Inits) /\ Len(entered) \in Nat /\ Len(entered) + 1 = pos
      /\ \A n \in 1..Len(inits) : inits[n] \in Code(Inits)
      /\ \A n \in 1..Len(entered) : entered[n] = inits[n].function
  BY <1>1, LenProperties, ElementOfSeq DEF LinkInv, LinkTypes, InitProgress
<1>3. inits[pos].function \in Inits
  BY <1>1, <1>2 DEF Code
<1>4. /\ inits' \in Seq(Code(Inits)) /\ Len(inits') = Len(inits)
      /\ \A n \in 1..Len(inits) : inits'[n].function = inits[n].function
  <2>1. Bound(inits[pos].function) \in Code(Inits)
    BY <1>3 DEF Bound, Code
  <2> QED BY <1>1, <1>2, <1>3, <2>1, ExceptSeq DEF Bound
<1>5. /\ entered' \in Seq(Inits) /\ Len(entered') = Len(entered) + 1
      /\ \A n \in 1..Len(entered) : entered'[n] = entered[n]
      /\ entered'[Len(entered) + 1] = inits[pos].function
  BY <1>1, <1>2, <1>3, AppendProperties
<1>6. LinkTypes'
  BY <1>1, <1>4, <1>5 DEF LinkInv, LinkTypes, Phases
<1>7. OneOfAName'
  BY <1>4 DEF LinkInv, OneOfAName
<1>8. InitProgress'
  BY <1>1, <1>2, <1>4, <1>5 DEF InitProgress
<1>9. HooksDone'
  BY <1>1 DEF HooksDone
<1> QED BY <1>6, <1>7, <1>8, <1>9 DEF LinkInv

LEMMA LoopInv ==
  ASSUME LinkInv, Relocate \/ InitReturns \/ InitsDone \/ FinitsDone
  PROVE  LinkInv'
<1>1. UNCHANGED <<hook, inits, entered>>
  BY DEF Relocate, InitReturns, InitsDone, FinitsDone
<1>2. LinkTypes' /\ OneOfAName'
  <2>1. pos' \in Nat /\ phase' \in Phases
    BY DEF Relocate, InitReturns, InitsDone, FinitsDone, Goto, Work, Phases, LinkInv, LinkTypes
  <2> QED BY <1>1, <2>1 DEF LinkInv, LinkTypes, OneOfAName
<1>3. HooksDone'
  <2>1. phase' # "loaded" /\ (phase' = "hooks" => pos' = 0)
    BY DEF Relocate, InitReturns, InitsDone, FinitsDone, Goto, Work
  <2>2. \A o \in Owners : ~(o < 0)
    BY LinkAssumption DEF Owners
  <2> QED BY <2>1, <2>2 DEF HooksDone
<1>4. InitProgress'
  <2>1. Len(entered) \in Nat /\ Len(inits) \in Nat /\ pos \in Nat
    BY LenProperties DEF LinkInv, LinkTypes
  <2> QED BY <1>1, <2>1 DEF Relocate, InitReturns, InitsDone, FinitsDone, Goto, LinkInv, InitProgress
<1> QED BY <1>2, <1>3, <1>4 DEF LinkInv

LEMMA LinkFinitInv ==
  ASSUME LinkInv, LinkFinit
  PROVE  LinkInv'
<1>1. /\ UNCHANGED <<phase, hook, inits, entered>> /\ phase = "finits"
      /\ pos \in Nat /\ pos' \in Nat
  BY DEF LinkFinit, LinkInv, LinkTypes
<1> QED BY <1>1 DEF LinkInv, LinkTypes, OneOfAName, InitProgress, HooksDone

\* The step that links one owner: what it changes, and that no other owner's
\* functions are touched.
LEMMA LinkOwnerKeeps ==
  ASSUME LinkTypes, LinkOwner
  PROVE  /\ hook' \in [Slots -> Code(FunctionNames \cup {"none"})]
         /\ \A s \in Slots : /\ hook'[s].function = hook[s].function
                             /\ hook[s].handle => hook'[s].handle
                             /\ s \notin Found(pos) => hook'[s] = hook[s]
                             /\ s \in Found(pos) => hook'[s].handle
<1>1. hook' = [s \in Slots |-> IF s \in Found(pos) THEN Bound(hook[s].function) ELSE hook[s]]
  BY DEF LinkOwner
<1>2. \A s \in Slots : /\ hook[s] \in Code(FunctionNames \cup {"none"})
                      /\ Bound(hook[s].function) \in Code(FunctionNames \cup {"none"})
                      /\ Bound(hook[s].function).function = hook[s].function
                      /\ Bound(hook[s].function).handle
  BY DEF LinkTypes, Bound, Code
<1> QED BY <1>1, <1>2

\* The owner just linked is done, and those before it stay so.
LEMMA LinkOwnerDone ==
  ASSUME LinkTypes, LinkOwner, NEW o \in Owners, o = pos, Found(o) = ToLink(o)
  PROVE  Done(o)'
<1> SUFFICES ASSUME NEW s \in Slots, s[1] = o, hook'[s] # NoCode, ~hook'[s].handle
             PROVE  /\ o # Work
                    /\ \E t \in Slots : t[1] = o /\ t[2] < s[2] /\ hook'[t].handle
  BY DEF Done
<1>1. s \notin Found(o) /\ hook'[s] = hook[s]
  BY LinkOwnerKeeps
<1>2. PassedOver(s)
  BY <1>1 DEF ToLink
<1>3. PICK n \in 1..s[2] - 1 : hook[<<s[1], n>>].handle
  BY <1>2 DEF PassedOver
<1>4. <<o, n>> \in Slots /\ hook'[<<o, n>>].handle
  BY <1>3, SlotPairs, LinkOwnerKeeps
<1>5. n < s[2]
  <2>1. s[2] \in DOMAIN Kinds(s[1])
    BY SlotPairs
  <2>2. s[2] \in Int
    BY <2>1, KindsBounds
  <2> QED BY <1>3, <2>2
<1> QED BY <1>2, <1>4, <1>5 DEF PassedOver

LEMMA LinkOwnerOthers ==
  ASSUME LinkTypes, LinkOwner, NEW o \in Owners, o # pos, Done(o)
  PROVE  Done(o)'
<1> SUFFICES ASSUME NEW s \in Slots, s[1] = o, hook'[s] # NoCode, ~hook'[s].handle
             PROVE  /\ o # Work
                    /\ \E t \in Slots : t[1] = o /\ t[2] < s[2] /\ hook'[t].handle
  BY DEF Done
<1>1. s \notin Found(pos)
  BY DEF Found, ToLink
<1>2. hook'[s] = hook[s]
  BY <1>1, LinkOwnerKeeps
<1> QED BY <1>2, LinkOwnerKeeps DEF Done

LEMMA LinkOwnerInv ==
  ASSUME LinkInv, LinkOwner
  PROVE  LinkInv'
<1>1. /\ phase = "hooks" /\ pos \in Owners /\ UNCHANGED <<inits, entered>>
      /\ \/ Found(pos) = ToLink(pos) /\ pos' = pos + 1 /\ phase' = "hooks"
         \/ pos' = pos /\ phase' = "failed"
  BY DEF LinkOwner
<1>2. LinkTypes' /\ OneOfAName' /\ InitProgress'
  <2>1. hook' \in [Slots -> Code(FunctionNames \cup {"none"})]
    BY LinkOwnerKeeps DEF LinkInv
  <2>2. pos' \in Nat /\ phase' \in Phases
    BY <1>1 DEF LinkInv, LinkTypes, Phases
  <2>3. LinkTypes' /\ OneOfAName'
    BY <1>1, <2>1, <2>2 DEF LinkInv, LinkTypes, OneOfAName
  <2>4. InitProgress'
    BY <1>1 DEF LinkInv, InitProgress
  <2> QED BY <2>3, <2>4
<1>3. HooksDone'
  <2> SUFFICES ASSUME NEW o \in Owners, o < pos', phase' = "hooks"
               PROVE  Done(o)'
    BY <1>1 DEF HooksDone
  <2>1. o \in Int /\ pos \in Int
    BY <1>1 DEF Owners
  <2>2. CASE o = pos
    BY <1>1, <2>2, LinkOwnerDone DEF LinkInv
  <2>3. CASE o # pos
    <3>1. o < pos
      BY <1>1, <2>1, <2>3
    <3> QED BY <1>1, <2>3, <3>1, LinkOwnerOthers DEF LinkInv, HooksDone
  <2> QED BY <2>2, <2>3
<1> QED BY <1>2, <1>3 DEF LinkInv

LEMMA LinkDoneInv ==
  ASSUME LinkInv, LinkDone
  PROVE  LinkInv'
<1>1. /\ phase = "hooks" /\ pos > EventCount /\ phase' \in {"loaded", "failed"}
      /\ UNCHANGED <<hook, inits, pos, entered>>
  BY DEF LinkDone
<1>2. \A o \in Owners : o < pos
  BY <1>1, LinkAssumption DEF Owners, LinkInv, LinkTypes
<1>3. \A o \in Owners : Done(o)
  BY <1>1, <1>2 DEF LinkInv, HooksDone
<1> QED BY <1>1, <1>3 DEF LinkInv, LinkTypes, Phases, OneOfAName, InitProgress, HooksDone, Done

LEMMA UnloadInv ==
  ASSUME LinkInv, Unload
  PROVE  LinkInv'
<1>1. /\ UNCHANGED <<hook, inits, entered>> /\ phase' \in {"unload", "gone"}
      /\ pos' \in Nat
  BY DEF Unload, Destroy, CallFinit, Gone, Goto, LinkInv, LinkTypes
<1> QED BY <1>1 DEF LinkInv, LinkTypes, Phases, OneOfAName, InitProgress, HooksDone

LEMMA LinkNextInv == LinkInv /\ [LinkNext]_linkVars => LinkInv'
<1> SUFFICES ASSUME LinkInv, [LinkNext]_linkVars PROVE LinkInv'
  OBVIOUS
<1>1. CASE UNCHANGED linkVars
  BY <1>1, FrameInv DEF linkVars
<1>2. CASE Register
  BY <1>2, RegisterInv
<1>3. CASE DoLink
  <2>1. CASE Fail
    BY <2>1, FailInv
  <2>2. CASE CallInit \/ LinkFinit \/ LinkOwner \/ LinkDone
    BY <2>2, CallInitInv, LinkFinitInv, LinkOwnerInv, LinkDoneInv
  <2>3. CASE Relocate \/ InitReturns \/ InitsDone \/ FinitsDone
    BY <2>3, LoopInv
  <2>4. CASE NoSuchFinit
    BY <2>4 DEF NoSuchFinit, LinkInv, LinkTypes, Phases, OneOfAName, InitProgress, HooksDone
  <2> QED BY <1>3, <2>1, <2>2, <2>3, <2>4
             DEF DoLink, ParseFails, NoSuchInit, InitFails
<1>4. CASE Unload
  BY <1>4, UnloadInv
<1> QED BY <1>1, <1>2, <1>3, <1>4 DEF LinkNext

LEMMA LinkInvariant == LinkSpec => []LinkInv
  BY LinkInitInv, LinkNextInv, PTL DEF LinkSpec

-----------------------------------------------------------------------------
(* The finit functions of files.                                           *)

\* What HandledTo computes, entry by entry.
LEMMA HandledStep ==
  ASSUME NEW S, NEW code \in Seq(Code(S))
  PROVE  /\ HandledTo(code, 0) = <<>>
         /\ \A n \in 1..Len(code) :
              HandledTo(code, n) = IF code[n].handle
                                     THEN Append(HandledTo(code, n - 1), code[n].function)
                                     ELSE HandledTo(code, n - 1)
<1> DEFINE Eq(w) == w = [k \in 0..Len(code) |->
                           IF k = 0 THEN <<>>
                           ELSE IF code[k].handle THEN Append(w[k - 1], code[k].function)
                                                  ELSE w[k - 1]]
           walk == CHOOSE w : Eq(w)
           g == [p \in Int \X Seq(S) |->
                   IF p[1] \in 1..Len(code) /\ code[p[1]].handle
                     THEN Append(p[2], code[p[1]].function) ELSE p[2]]
<1>1. g \in [Int \X Seq(S) -> Seq(S)]
  <2> SUFFICES ASSUME NEW n \in Int, NEW x \in Seq(S), n \in 1..Len(code)
               PROVE  Append(x, code[n].function) \in Seq(S)
    OBVIOUS
  <2>1. code[n] \in Code(S) BY ElementOfSeq
  <2> QED BY <2>1 DEF Code
<1>2. Len(code) \in Nat /\ 0 \in Int /\ <<>> \in Seq(S) BY LenProperties
<1> HIDE DEF g
<1>3. PICK f \in [0..0 + Len(code) -> Seq(S)] : Recursive(f, <<>>, g, 0, 0 + Len(code))
  BY <1>1, <1>2, RecursionExists
<1>4. Eq(f)
  <2>1. ASSUME NEW k \in 0..Len(code)
        PROVE  f[k] = IF k = 0 THEN <<>>
                      ELSE IF code[k].handle THEN Append(f[k - 1], code[k].function)
                                             ELSE f[k - 1]
    <3>1. CASE k = 0 BY <1>3, <3>1 DEF Recursive
    <3>2. CASE k # 0
      <4>1. k \in 0 + 1 .. 0 + Len(code) /\ k \in 1..Len(code) /\ k - 1 \in 0..0 + Len(code)
        BY <1>2, <3>2
      <4>2. f[k] = g[<<k, f[k - 1]>>] BY <1>3, <4>1 DEF Recursive
      <4>3. f[k - 1] \in Seq(S) /\ k \in Int BY <1>3, <4>1
      <4>4. g[<<k, f[k - 1]>>] = IF code[k].handle THEN Append(f[k - 1], code[k].function)
                                                   ELSE f[k - 1]
        BY <4>1, <4>3 DEF g
      <4> QED BY <3>2, <4>2, <4>4
    <3> QED BY <3>1, <3>2
  <2>2. f \in [0..Len(code) -> Seq(S)]
    <3>1. 0 + Len(code) = Len(code) BY <1>2
    <3> QED BY <1>3, <3>1
  <2> QED BY <2>1, <2>2
<1>5. Eq(walk)
  <2> HIDE DEF Eq
  <2> QED BY <1>4, Zenon
<1>6. \A n : HandledTo(code, n) = walk[n] BY Zenon DEF HandledTo
<1> HIDE DEF walk
<1>7. HandledTo(code, 0) = <<>>
  <2>1. 0 \in 0..Len(code) BY <1>2
  <2>2. walk[0] = <<>> BY <1>5, <2>1
  <2> QED BY <1>6, <2>2
<1>8. ASSUME NEW n \in 1..Len(code)
      PROVE  HandledTo(code, n) = IF code[n].handle
                                    THEN Append(HandledTo(code, n - 1), code[n].function)
                                    ELSE HandledTo(code, n - 1)
  <2>1. n \in 0..Len(code) /\ n # 0 BY <1>2
  <2>2. walk[n] = IF code[n].handle THEN Append(walk[n - 1], code[n].function) ELSE walk[n - 1]
    BY <1>5, <2>1
  <2> QED BY <1>6, <2>2
<1> QED BY <1>7, <1>8

FinitTypes ==
  /\ finits \in Seq(Code(Finits)) /\ ended \in Seq(Finits)
  /\ \A m, n \in 1..Len(finits) : finits[m].function = finits[n].function => m = n

\* How far the addresses of the finit functions, and later their calls, are.
FinitProgress ==
  /\ phase = "finits" =>
       pos >= 1 /\ \A n \in 1..Len(finits) : n < pos => finits[n].handle
  /\ phase \in {"hooks", "loaded"} => \A n \in 1..Len(finits) : finits[n].handle
  /\ phase \notin {"unload", "gone"} => ended = <<>>
  /\ phase = "unload" =>
       pos \in 1..Len(finits) + 1 /\ ended = HandledTo(finits, pos - 1)
  /\ phase = "gone" => ended = Handled(finits)

\* What has been called stands on the list, before the next.
EndedOnce ==
  /\ \A m \in 1..Len(ended) : \E k \in 1..Len(finits) :
       finits[k].function = ended[m] /\ (phase = "unload" => k < pos)
  /\ \A m, n \in 1..Len(ended) : ended[m] = ended[n] => m = n

FinitInv == FinitTypes /\ FinitProgress /\ EndedOnce

LEMMA InitFinitInv == LinkInit => FinitInv
BY DEF LinkInit, FinitInv, FinitTypes, FinitProgress, EndedOnce

LEMMA FinitFrame ==
  ASSUME FinitInv, UNCHANGED <<phase, pos, finits, ended>>
  PROVE  FinitInv'
BY DEF FinitInv, FinitTypes, FinitProgress, EndedOnce, Handled

LEMMA AddFinitInv ==
  ASSUME FinitInv, NEW f \in Finits, NEW h \in BOOLEAN, AddFinit([function |-> f, handle |-> h])
  PROVE  FinitInv'
<1> DEFINE c == [function |-> f, handle |-> h]
<1>1. /\ phase \in {"parse", "init"} /\ finits' = Add(c, finits)
      /\ UNCHANGED <<phase, pos, ended>>
  BY DEF AddFinit, Registering
<1>2. c \in Code(Finits) /\ c.function = f BY DEF Code
<1>3. finits \in Seq(Code(Finits)) /\ Len(finits) \in Nat /\ DOMAIN finits = 1..Len(finits)
  BY LenProperties DEF FinitInv, FinitTypes
<1>4. ended = <<>> BY <1>1 DEF FinitInv, FinitProgress
<1> HIDE DEF c
<1>5. CASE finits' = finits BY <1>1, <1>5, FinitFrame
<1>6. CASE finits' # finits
  <2>1. finits' = Append(finits, c) /\ \A n \in 1..Len(finits) : finits[n].function # f
    BY <1>1, <1>2, <1>3, <1>6 DEF Add, Listed
  <2>2. /\ finits' \in Seq(Code(Finits)) /\ Len(finits') = Len(finits) + 1
        /\ \A n \in 1..Len(finits) : finits'[n] = finits[n]
        /\ finits'[Len(finits) + 1] = c
    BY <1>2, <1>3, <2>1, AppendProperties
  <2>3. FinitTypes'
    BY <1>1, <1>2, <1>3, <2>1, <2>2 DEF FinitInv, FinitTypes
  <2> QED BY <1>1, <1>4, <2>3 DEF FinitInv, FinitProgress, EndedOnce
<1> QED BY <1>5, <1>6

LEMMA LinkFinitFinitInv ==
  ASSUME LinkInv, FinitInv, LinkFinit
  PROVE  FinitInv'
<1>1. /\ phase = "finits" /\ phase' = "finits" /\ pos' = pos + 1 /\ ended' = ended
      /\ pos \in DOMAIN finits
      /\ finits' = [finits EXCEPT ![pos] = Bound(finits[pos].function)]
  BY DEF LinkFinit
<1>2. finits \in Seq(Code(Finits)) /\ Len(finits) \in Nat /\ DOMAIN finits = 1..Len(finits)
  BY LenProperties DEF FinitInv, FinitTypes
<1>3. finits[pos] \in Code(Finits) BY <1>1, <1>2, ElementOfSeq
<1> DEFINE b == Bound(finits[pos].function)
<1>4. b \in Code(Finits) /\ b.function = finits[pos].function /\ b.handle
  BY <1>3 DEF Bound, Code
<1>5. finits' = [finits EXCEPT ![pos] = b] BY <1>1
<1> HIDE DEF b
<1>6. /\ finits' \in Seq(Code(Finits)) /\ Len(finits') = Len(finits)
      /\ \A n \in 1..Len(finits) : finits'[n] = IF n = pos THEN b ELSE finits[n]
  BY <1>1, <1>2, <1>4, <1>5, ExceptSeq
<1>7. \A n \in 1..Len(finits) : finits'[n].function = finits[n].function
  BY <1>4, <1>6
<1>8. FinitTypes' BY <1>1, <1>6, <1>7 DEF FinitInv, FinitTypes
<1>9. ended = <<>> /\ pos >= 1 /\ \A n \in 1..Len(finits) : n < pos => finits[n].handle
  BY <1>1 DEF FinitInv, FinitProgress
<1>10. \A n \in 1..Len(finits) : n < pos + 1 => finits'[n].handle
  BY <1>1, <1>2, <1>4, <1>6, <1>9
<1>11. FinitProgress' BY <1>1, <1>2, <1>6, <1>9, <1>10 DEF FinitProgress
<1>12. EndedOnce' BY <1>1, <1>9 DEF EndedOnce
<1> QED BY <1>8, <1>11, <1>12 DEF FinitInv

LEMMA NoSuchFinitInv ==
  ASSUME FinitInv, NoSuchFinit
  PROVE  FinitInv'
<1>1. /\ phase = "finits" /\ phase' = "failed" /\ ended' = ended /\ pos \in DOMAIN finits
      /\ finits' = [finits EXCEPT ![pos] = Unbound(finits[pos].function)]
  BY DEF NoSuchFinit
<1>2. finits \in Seq(Code(Finits)) /\ Len(finits) \in Nat /\ DOMAIN finits = 1..Len(finits)
  BY LenProperties DEF FinitInv, FinitTypes
<1> DEFINE b == Unbound(finits[pos].function)
<1>3. b \in Code(Finits) /\ b.function = finits[pos].function
  <2>1. finits[pos] \in Code(Finits) BY <1>1, <1>2, ElementOfSeq
  <2> QED BY <2>1 DEF Unbound, Code
<1>4. finits' = [finits EXCEPT ![pos] = b] BY <1>1
<1> HIDE DEF b
<1>5. /\ finits' \in Seq(Code(Finits)) /\ Len(finits') = Len(finits)
      /\ \A n \in 1..Len(finits) : finits'[n] = IF n = pos THEN b ELSE finits[n]
  BY <1>1, <1>2, <1>3, <1>4, ExceptSeq
<1>6. \A n \in 1..Len(finits) : finits'[n].function = finits[n].function
  BY <1>3, <1>5
<1>7. FinitTypes' BY <1>1, <1>5, <1>6 DEF FinitInv, FinitTypes
<1>8. ended = <<>> BY <1>1 DEF FinitInv, FinitProgress
<1> QED BY <1>1, <1>7, <1>8 DEF FinitInv, FinitProgress, EndedOnce

LEMMA CallFinitInv ==
  ASSUME FinitInv, CallFinit
  PROVE  FinitInv'
<1>1. /\ phase = "unload" /\ phase' = "unload" /\ pos \in DOMAIN finits /\ pos' = pos + 1
      /\ ended' = IF finits[pos].handle THEN Append(ended, finits[pos].function) ELSE ended
      /\ finits' = finits
  BY DEF CallFinit
<1>2. /\ finits \in Seq(Code(Finits)) /\ Len(finits) \in Nat /\ DOMAIN finits = 1..Len(finits)
      /\ ended \in Seq(Finits) /\ Len(ended) \in Nat
  BY LenProperties DEF FinitInv, FinitTypes
<1>3. ended = HandledTo(finits, pos - 1) BY <1>1 DEF FinitInv, FinitProgress
<1>4. HandledTo(finits, pos) = IF finits[pos].handle
                                 THEN Append(HandledTo(finits, pos - 1), finits[pos].function)
                                 ELSE HandledTo(finits, pos - 1)
  BY <1>1, <1>2, HandledStep
<1>5. FinitProgress'
  <2>1. pos' \in 1..Len(finits') + 1 /\ pos' - 1 = pos BY <1>1, <1>2
  <2> QED BY <1>1, <1>3, <1>4, <2>1 DEF FinitProgress
<1>6. finits[pos].function \in Finits
  <2>1. finits[pos] \in Code(Finits) BY <1>1, <1>2, ElementOfSeq
  <2> QED BY <2>1 DEF Code
<1>7. FinitTypes'
  <2>1. ended' \in Seq(Finits) BY <1>1, <1>2, <1>6
  <2> QED BY <1>1, <2>1 DEF FinitInv, FinitTypes
<1>8. /\ \A m \in 1..Len(ended) : \E k \in 1..Len(finits) :
           finits[k].function = ended[m] /\ k < pos
      /\ \A m, n \in 1..Len(ended) : ended[m] = ended[n] => m = n
  BY <1>1 DEF FinitInv, EndedOnce
<1>9. CASE ~finits[pos].handle
  <2>1. \A m \in 1..Len(ended) : \E k \in 1..Len(finits) :
          finits[k].function = ended[m] /\ k < pos'
    BY <1>1, <1>2, <1>8
  <2>2. EndedOnce' BY <1>1, <1>8, <1>9, <2>1 DEF EndedOnce
  <2> QED BY <1>5, <1>7, <2>2 DEF FinitInv
<1>10. CASE finits[pos].handle
  <2>1. /\ Len(ended') = Len(ended) + 1 /\ ended'[Len(ended) + 1] = finits[pos].function
        /\ \A m \in 1..Len(ended) : ended'[m] = ended[m]
    BY <1>1, <1>2, <1>6, <1>10, AppendProperties
  <2>2. \A m \in 1..Len(ended) : ended[m] # finits[pos].function
    <3> SUFFICES ASSUME NEW m \in 1..Len(ended) PROVE ended[m] # finits[pos].function
      OBVIOUS
    <3>1. PICK k \in 1..Len(finits) : finits[k].function = ended[m] /\ k < pos BY <1>8
    <3> QED BY <1>1, <1>2, <3>1 DEF FinitInv, FinitTypes
  <2>3. ASSUME NEW m \in 1..Len(ended')
        PROVE  \E k \in 1..Len(finits) : finits[k].function = ended'[m] /\ k < pos'
    <3>1. CASE m \in 1..Len(ended)
      <4>1. PICK k \in 1..Len(finits) : finits[k].function = ended[m] /\ k < pos BY <1>8, <3>1
      <4> QED BY <1>1, <1>2, <2>1, <3>1, <4>1
    <3>2. CASE m = Len(ended) + 1 BY <1>1, <1>2, <2>1, <3>2
    <3> QED BY <1>2, <2>1, <3>1, <3>2
  <2>4. \A m, n \in 1..Len(ended') : ended'[m] = ended'[n] => m = n
    BY <1>2, <1>8, <2>1, <2>2
  <2>5. EndedOnce' BY <1>1, <2>3, <2>4 DEF EndedOnce
  <2> QED BY <1>5, <1>7, <2>5 DEF FinitInv
<1> QED BY <1>9, <1>10

LEMMA FinitNext == LinkInv /\ FinitInv /\ [LinkNext]_linkVars => FinitInv'
<1> SUFFICES ASSUME LinkInv, FinitInv, [LinkNext]_linkVars PROVE FinitInv'
  OBVIOUS
<1>0. /\ finits \in Seq(Code(Finits)) /\ Len(finits) \in Nat /\ ended \in Seq(Finits)
      /\ FinitTypes /\ FinitProgress /\ EndedOnce
  BY LenProperties DEF FinitInv, FinitTypes
<1>1. CASE Register
  <2>1. CASE \E f \in Finits, h \in BOOLEAN : AddFinit([function |-> f, handle |-> h])
    BY <2>1, AddFinitInv
  <2>2. CASE UNCHANGED <<phase, pos, finits, ended>> BY <2>2, FinitFrame
  <2> QED BY <1>1, <2>1, <2>2 DEF Register, AddInit, SetHook
<1>2. CASE LinkFinit BY <1>2, LinkFinitFinitInv
<1>3. CASE CallFinit BY <1>3, CallFinitInv
<1>4. ASSUME UNCHANGED <<finits, ended>>, phase \notin {"unload", "gone"},
             phase' \notin {"unload", "gone"},
             phase' = "finits" => pos' = 1,
             phase' \in {"hooks", "loaded"} => \A n \in 1..Len(finits) : finits[n].handle
      PROVE  FinitInv'
  <2>1. ended = <<>> BY <1>0, <1>4 DEF FinitProgress
  <2>2. FinitTypes' BY <1>0, <1>4 DEF FinitTypes
  <2>3. FinitProgress' BY <1>0, <1>4, <2>1 DEF FinitProgress
  <2>4. EndedOnce' BY <1>4, <2>1 DEF EndedOnce
  <2> QED BY <2>2, <2>3, <2>4 DEF FinitInv
<1>5. CASE ParseFails \/ NoSuchInit \/ InitFails
  <2>1. /\ UNCHANGED <<finits, ended>> /\ phase \in {"parse", "inits", "init"}
        /\ phase' = "failed"
    BY <1>5 DEF ParseFails, NoSuchInit, InitFails, Fail
  <2> QED BY <1>4, <2>1
<1>6. CASE Relocate \/ CallInit \/ InitReturns \/ InitsDone
  <2>1. /\ UNCHANGED <<finits, ended>> /\ phase \in {"parse", "inits", "init"}
        /\ phase' \in {"inits", "init", "finits"} /\ (phase' = "finits" => pos' = 1)
    BY <1>6 DEF Relocate, CallInit, InitReturns, InitsDone, Goto
  <2> QED BY <1>4, <2>1
<1>7. CASE FinitsDone
  <2>1. /\ UNCHANGED <<finits, ended>> /\ phase = "finits" /\ phase' = "hooks" /\ pos > Len(finits)
    BY <1>7 DEF FinitsDone
  <2>2. pos \in Nat BY DEF LinkInv, LinkTypes
  <2>3. \A n \in 1..Len(finits) : finits[n].handle BY <1>0, <2>1, <2>2 DEF FinitProgress
  <2> QED BY <1>4, <2>1, <2>3
<1>8. CASE LinkOwner \/ LinkDone
  <2>1. /\ UNCHANGED <<finits, ended>> /\ phase = "hooks"
        /\ phase' \in {"hooks", "loaded", "failed"}
    BY <1>8 DEF LinkOwner, LinkDone
  <2>2. \A n \in 1..Len(finits) : finits[n].handle BY <1>0, <2>1 DEF FinitProgress
  <2> QED BY <1>4, <2>1, <2>2
<1>9. CASE Destroy
  <2>1. /\ UNCHANGED <<finits, ended>> /\ phase \in {"loaded", "failed"} /\ phase' = "unload"
        /\ pos' = 1
    BY <1>9 DEF Destroy, Goto
  <2>2. ended = <<>> BY <1>0, <2>1 DEF FinitProgress
  <2>3. HandledTo(finits, 0) = <<>> /\ 1 - 1 = 0 BY <1>0, HandledStep
  <2>4. FinitProgress' BY <1>0, <2>1, <2>2, <2>3 DEF FinitProgress
  <2>5. FinitTypes' /\ EndedOnce' BY <1>0, <2>1, <2>2 DEF FinitTypes, EndedOnce
  <2> QED BY <2>4, <2>5 DEF FinitInv
<1>10. CASE Gone
  <2>1. /\ UNCHANGED <<finits, ended>> /\ phase = "unload" /\ phase' = "gone" /\ pos > Len(finits)
    BY <1>10 DEF Gone, Goto
  <2>2. pos \in 1..Len(finits) + 1 /\ ended = HandledTo(finits, pos - 1)
    BY <1>0, <2>1 DEF FinitProgress
  <2>3. pos - 1 = Len(finits) BY <1>0, <2>1, <2>2
  <2>4. FinitProgress' BY <2>1, <2>2, <2>3 DEF FinitProgress, Handled
  <2>5. FinitTypes' /\ EndedOnce' BY <1>0, <2>1 DEF FinitTypes, EndedOnce
  <2> QED BY <2>4, <2>5 DEF FinitInv
<1>11. CASE NoSuchFinit BY <1>11, NoSuchFinitInv
<1>12. CASE UNCHANGED linkVars BY <1>12, FinitFrame DEF linkVars
<1> QED
  BY <1>1, <1>2, <1>3, <1>5, <1>6, <1>7, <1>8, <1>9, <1>10, <1>11, <1>12
     DEF LinkNext, DoLink, Unload

-----------------------------------------------------------------------------
(* Which finit functions have an address, and why.                         *)

Early == {"parse", "inits", "init"}
Late  == {"failed", "unload", "gone"}

\* A name that came with an address is on the list, and has it still, unless it
\* was the one whose lookup ended the load.
GivenBound ==
  /\ \A f \in given : \E n \in 1..Len(finits) : finits[n].function = f
  /\ \A n \in 1..Len(finits) : finits[n].function \in given /\ ~finits[n].handle =>
       finits[n].function \in Static /\ phase \in Late /\ Len(entered) = Len(inits)
  /\ \A m, n \in 1..Len(finits) :
       /\ finits[m].function \in given /\ ~finits[m].handle
       /\ finits[n].function \in given /\ ~finits[n].handle
       => m = n

\* Every other address was looked up, after the init functions.
OthersBound ==
  \A n \in 1..Len(finits) : finits[n].handle /\ finits[n].function \notin given =>
    phase \notin Early /\ Len(entered) = Len(inits)

\* What has an address, up to the next entry, and nothing else has been called.
Called ==
  /\ \A m \in 1..Len(ended) : \E n \in 1..Len(finits) :
       finits[n].function = ended[m] /\ finits[n].handle
  /\ phase \in {"unload", "gone"} => \A n \in 1..Len(finits) :
       finits[n].handle /\ (phase = "unload" => n < pos) =>
         \E m \in 1..Len(ended) : ended[m] = finits[n].function

GivenInv == GivenBound /\ OthersBound /\ Called

LEMMA InitGivenInv == LinkInit => GivenInv
BY DEF LinkInit, GivenInv, GivenBound, OthersBound, Called

\* Steps that leave the list alone.
LEMMA GivenFrame ==
  ASSUME GivenInv, FinitInv, UNCHANGED <<finits, given, ended>>,
         phase \in Late => phase' \in Late,
         phase \notin Early => phase' \notin Early /\ UNCHANGED <<entered, inits>>,
         phase' \in {"unload", "gone"} =>
           \/ phase = phase' /\ pos' = pos
           \/ phase' = "unload" /\ pos' = 1
           \/ phase = "unload" /\ pos > Len(finits)
  PROVE  GivenInv'
<1>1. GivenBound'
  BY DEF GivenInv, GivenBound, Early, Late
<1>2. OthersBound'
  BY DEF GivenInv, OthersBound
<1>3. Called'
  <2>1. Len(finits) \in Nat
    BY LenProperties DEF FinitInv, FinitTypes
  <2>2. ASSUME phase' \in {"unload", "gone"}, NEW n \in 1..Len(finits), finits[n].handle,
               phase' = "unload" => n < pos'
        PROVE  \E m \in 1..Len(ended) : ended[m] = finits[n].function
    <3>1. CASE phase = phase' /\ pos' = pos
      BY <2>2, <3>1 DEF GivenInv, Called
    <3>2. CASE phase' = "unload" /\ pos' = 1
      BY <2>1, <2>2, <3>2
    <3>3. CASE phase = "unload" /\ pos > Len(finits)
      <4>1. pos \in Int /\ n < pos
        BY <2>1, <2>2, <3>3 DEF FinitInv, FinitProgress
      <4> QED BY <2>2, <3>3, <4>1 DEF GivenInv, Called
    <3> QED BY <2>2, <3>1, <3>2, <3>3
  <2> QED BY <2>2 DEF GivenInv, Called
<1> QED BY <1>1, <1>2, <1>3 DEF GivenInv

LEMMA AddFinitGiven ==
  ASSUME FinitInv, GivenInv, NEW f \in Finits, NEW h \in BOOLEAN,
         AddFinit([function |-> f, handle |-> h])
  PROVE  GivenInv'
<1> DEFINE c == [function |-> f, handle |-> h]
<1>1. /\ phase \in {"parse", "init"} /\ finits' = Add(c, finits)
      /\ given' = IF h /\ ~Listed(f, finits) THEN given \cup {f} ELSE given
      /\ UNCHANGED <<phase, inits, pos, entered, ended>>
  BY DEF AddFinit, Registering
<1>2. c \in Code(Finits) /\ c.function = f /\ c.handle = h BY DEF Code
<1>3. finits \in Seq(Code(Finits)) /\ Len(finits) \in Nat /\ DOMAIN finits = 1..Len(finits)
  BY LenProperties DEF FinitInv, FinitTypes
<1>4. ended = <<>> BY <1>1 DEF FinitInv, FinitProgress
<1> HIDE DEF c
<1>5. CASE Listed(f, finits)
  <2>1. finits' = finits /\ given' = given
    BY <1>1, <1>2, <1>5 DEF Add
  <2> QED BY <1>1, <2>1, GivenFrame
<1>6. CASE ~Listed(f, finits)
  <2>1. /\ finits' = Append(finits, c)
        /\ given' = IF h THEN given \cup {f} ELSE given
        /\ \A n \in 1..Len(finits) : finits[n].function # f
    BY <1>1, <1>2, <1>3, <1>6 DEF Add, Listed
  <2>2. /\ Len(finits') = Len(finits) + 1
        /\ \A n \in 1..Len(finits) : finits'[n] = finits[n]
        /\ finits'[Len(finits) + 1] = c
    BY <1>2, <1>3, <2>1, AppendProperties
  <2>3. /\ \A n \in 1..Len(finits') : n \in 1..Len(finits) \/ n = Len(finits) + 1
        /\ \A n \in 1..Len(finits) : n \in 1..Len(finits')
        /\ Len(finits) + 1 \in 1..Len(finits')
    BY <1>3, <2>2
  <2>4. f \notin given
    BY <2>1 DEF GivenInv, GivenBound
  <2>5. \A n \in 1..Len(finits) : finits'[n].function \in given' <=> finits[n].function \in given
    BY <2>1, <2>2
  <2>6. c.function \in given' <=> c.handle
    BY <1>2, <2>1, <2>4
  <2>7. \A n \in 1..Len(finits) : finits[n].function \in given => finits[n].handle
    BY <1>1 DEF GivenInv, GivenBound, Late
  <2>8. \A n \in 1..Len(finits') : finits'[n].function \in given' <=> finits'[n].handle
    <3>1. \A n \in 1..Len(finits) : finits[n].handle => finits[n].function \in given
      BY <1>1 DEF GivenInv, OthersBound, Early
    <3> QED BY <2>2, <2>3, <2>5, <2>6, <2>7, <3>1
  <2>9. ASSUME NEW g \in given' PROVE \E n \in 1..Len(finits') : finits'[n].function = g
    <3>1. CASE g \in given
      <4>1. PICK n \in 1..Len(finits) : finits[n].function = g
        BY <3>1 DEF GivenInv, GivenBound
      <4> QED BY <2>2, <2>3, <4>1
    <3>2. CASE g \notin given
      <4>1. g = f BY <2>1, <3>2
      <4> QED BY <1>2, <2>2, <2>3, <4>1
    <3> QED BY <3>1, <3>2
  <2>10. GivenBound' BY <2>8, <2>9 DEF GivenBound
  <2>11. OthersBound' BY <2>8 DEF OthersBound
  <2>12. Called' BY <1>1, <1>4 DEF Called
  <2> QED BY <2>10, <2>11, <2>12 DEF GivenInv
<1> QED BY <1>5, <1>6

\* The lookup of a finit function: found or not.
LEMMA LookupGiven ==
  ASSUME LinkInv, FinitInv, GivenInv, LinkFinit \/ NoSuchFinit
  PROVE  GivenInv'
<1>1. /\ phase = "finits" /\ pos \in DOMAIN finits
      /\ UNCHANGED <<ended, given, entered, inits>>
      /\ \/ /\ phase' = "finits"
            /\ finits' = [finits EXCEPT ![pos] = Bound(finits[pos].function)]
         \/ /\ phase' = "failed" /\ finits[pos].function \in Static
            /\ finits' = [finits EXCEPT ![pos] = Unbound(finits[pos].function)]
  BY DEF LinkFinit, NoSuchFinit
<1>2. finits \in Seq(Code(Finits)) /\ Len(finits) \in Nat /\ DOMAIN finits = 1..Len(finits)
  BY LenProperties DEF FinitInv, FinitTypes
<1>3. PICK b \in Code(Finits) : /\ finits' = [finits EXCEPT ![pos] = b]
                                /\ b.function = finits[pos].function
                                /\ b.handle \/ (phase' = "failed" /\ b.function \in Static)
  <2>1. finits[pos].function \in Finits
    <3>1. finits[pos] \in Code(Finits) BY <1>1, <1>2, ElementOfSeq
    <3> QED BY <3>1 DEF Code
  <2>2. CASE finits' = [finits EXCEPT ![pos] = Bound(finits[pos].function)]
    <3>1. /\ Bound(finits[pos].function) \in Code(Finits)
          /\ Bound(finits[pos].function).function = finits[pos].function
          /\ Bound(finits[pos].function).handle
      BY <2>1 DEF Bound, Code
    <3> QED BY <2>2, <3>1
  <2>3. CASE /\ phase' = "failed" /\ finits[pos].function \in Static
             /\ finits' = [finits EXCEPT ![pos] = Unbound(finits[pos].function)]
    <3>1. /\ Unbound(finits[pos].function) \in Code(Finits)
          /\ Unbound(finits[pos].function).function = finits[pos].function
      BY <2>1 DEF Unbound, Code
    <3> QED BY <2>3, <3>1
  <2> QED BY <1>1, <2>2, <2>3
<1>4. /\ Len(finits') = Len(finits)
      /\ \A n \in 1..Len(finits) : finits'[n] = IF n = pos THEN b ELSE finits[n]
  BY <1>1, <1>2, <1>3, ExceptSeq
<1>5. \A n \in 1..Len(finits) : finits'[n].function = finits[n].function
  BY <1>3, <1>4
<1>6. Len(entered) = Len(inits) /\ phase \notin Late /\ phase' \notin Early
  BY <1>1 DEF LinkInv, InitProgress, Late, Early
<1>7. \A n \in 1..Len(finits) : finits[n].function \in given => finits[n].handle
  BY <1>6 DEF GivenInv, GivenBound
<1>8. \A n \in 1..Len(finits) : finits'[n].function \in given /\ ~finits'[n].handle =>
        n = pos /\ phase' = "failed" /\ finits'[n].function \in Static
  BY <1>3, <1>4, <1>5, <1>7
<1>9. GivenBound'
  <2>1. \A g \in given : \E n \in 1..Len(finits') : finits'[n].function = g
    BY <1>4, <1>5 DEF GivenInv, GivenBound
  <2>2. "failed" \in Late BY DEF Late
  <2> QED BY <1>1, <1>4, <1>6, <1>8, <2>1, <2>2 DEF GivenBound
<1>10. OthersBound' BY <1>1, <1>4, <1>6 DEF OthersBound
<1>11. Called'
  <2>1. ended = <<>> BY <1>1 DEF FinitInv, FinitProgress
  <2> QED BY <1>1, <2>1 DEF Called
<1> QED BY <1>9, <1>10, <1>11 DEF GivenInv

LEMMA CallFinitGiven ==
  ASSUME FinitInv, GivenInv, CallFinit
  PROVE  GivenInv'
<1>1. /\ phase = "unload" /\ phase' = "unload" /\ pos \in DOMAIN finits /\ pos' = pos + 1
      /\ ended' = IF finits[pos].handle THEN Append(ended, finits[pos].function) ELSE ended
      /\ UNCHANGED <<finits, given, entered, inits>>
  BY DEF CallFinit
<1>2. /\ finits \in Seq(Code(Finits)) /\ Len(finits) \in Nat /\ DOMAIN finits = 1..Len(finits)
      /\ ended \in Seq(Finits) /\ Len(ended) \in Nat
  BY LenProperties DEF FinitInv, FinitTypes
<1>3. finits[pos].function \in Finits
  <2>1. finits[pos] \in Code(Finits) BY <1>1, <1>2, ElementOfSeq
  <2> QED BY <2>1 DEF Code
<1>4. /\ \A m \in 1..Len(ended) : m \in 1..Len(ended') /\ ended'[m] = ended[m]
      /\ finits[pos].handle => /\ Len(ended') = Len(ended) + 1
                               /\ Len(ended) + 1 \in 1..Len(ended')
                               /\ ended'[Len(ended) + 1] = finits[pos].function
      /\ ~finits[pos].handle => ended' = ended
  BY <1>1, <1>2, <1>3, AppendProperties
<1>5. GivenBound' /\ OthersBound'
  BY <1>1 DEF GivenInv, GivenBound, OthersBound
<1>6. ASSUME NEW m \in 1..Len(ended')
      PROVE  \E n \in 1..Len(finits) : finits[n].function = ended'[m] /\ finits[n].handle
  <2>1. CASE m \in 1..Len(ended)
    BY <1>4, <2>1 DEF GivenInv, Called
  <2>2. CASE m \notin 1..Len(ended)
    <3>1. finits[pos].handle /\ m = Len(ended) + 1
      BY <1>2, <1>4, <2>2
    <3> QED BY <1>1, <1>2, <1>4, <3>1
  <2> QED BY <2>1, <2>2
<1>7. ASSUME NEW n \in 1..Len(finits), finits[n].handle, n < pos'
      PROVE  \E m \in 1..Len(ended') : ended'[m] = finits[n].function
  <2>1. CASE n = pos
    BY <1>4, <1>7, <2>1
  <2>2. CASE n # pos
    <3>1. n < pos BY <1>1, <1>2, <1>7, <2>2
    <3>2. PICK m \in 1..Len(ended) : ended[m] = finits[n].function
      BY <1>1, <1>7, <3>1 DEF GivenInv, Called
    <3> QED BY <1>4, <3>2
  <2> QED BY <2>1, <2>2
<1>8. Called' BY <1>1, <1>6, <1>7 DEF Called
<1> QED BY <1>5, <1>8 DEF GivenInv

LEMMA GivenNext == LinkInv /\ FinitInv /\ GivenInv /\ [LinkNext]_linkVars => GivenInv'
<1> SUFFICES ASSUME LinkInv, FinitInv, GivenInv, [LinkNext]_linkVars PROVE GivenInv'
  OBVIOUS
<1>0. Len(finits) \in Nat
  BY LenProperties DEF FinitInv, FinitTypes
<1>1. CASE Register
  <2>1. CASE \E f \in Finits, h \in BOOLEAN : AddFinit([function |-> f, handle |-> h])
    BY <2>1, AddFinitGiven
  <2>2. CASE \E f \in Inits : AddInit(f)
    BY <2>2, GivenFrame DEF AddInit, Early, Late
  <2>3. CASE \E s \in Slots, f \in FunctionNames, h \in BOOLEAN :
               SetHook(s, [function |-> f, handle |-> h])
    BY <2>3, GivenFrame DEF SetHook
  <2> QED BY <1>1, <2>1, <2>2, <2>3 DEF Register
<1>2. CASE LinkFinit \/ NoSuchFinit BY <1>2, LookupGiven
<1>3. CASE CallFinit BY <1>3, CallFinitGiven
<1>4. CASE ParseFails \/ NoSuchInit \/ InitFails
  BY <1>4, GivenFrame DEF ParseFails, NoSuchInit, InitFails, Fail, Early, Late
<1>5. CASE Relocate \/ CallInit \/ InitReturns \/ InitsDone
  BY <1>5, GivenFrame DEF Relocate, CallInit, InitReturns, InitsDone, Goto, Early, Late
<1>6. CASE FinitsDone \/ LinkOwner \/ LinkDone
  BY <1>6, GivenFrame DEF FinitsDone, LinkOwner, LinkDone, Early, Late
<1>7. CASE Destroy \/ Gone
  BY <1>7, GivenFrame DEF Destroy, Gone, Goto, Early, Late
<1>8. CASE UNCHANGED linkVars
  BY <1>8, GivenFrame DEF linkVars
<1> QED
  BY <1>1, <1>2, <1>3, <1>4, <1>5, <1>6, <1>7, <1>8 DEF LinkNext, DoLink, Unload

\* When every entry has an address, all functions are handled.
LEMMA AllHandled ==
  ASSUME FinitTypes, \A n \in 1..Len(finits) : finits[n].handle
  PROVE  Handled(finits) = FunctionsOf(finits)
<1> DEFINE T == {k \in Nat : k <= Len(finits) =>
                   /\ HandledTo(finits, k) \in Seq(Finits) /\ Len(HandledTo(finits, k)) = k
                   /\ \A n \in 1..k : HandledTo(finits, k)[n] = finits[n].function}
<1>0. finits \in Seq(Code(Finits)) /\ Len(finits) \in Nat /\ DOMAIN finits = 1..Len(finits)
      /\ \A n \in 1..Len(finits) : finits[n].function \in Finits
  <2>1. finits \in Seq(Code(Finits)) BY DEF FinitTypes
  <2>2. \A n \in 1..Len(finits) : finits[n] \in Code(Finits) BY <2>1, ElementOfSeq
  <2> QED BY <2>1, <2>2, LenProperties DEF Code
<1>1. 0 \in T
  <2>1. HandledTo(finits, 0) = <<>> BY <1>0, HandledStep
  <2>2. <<>> \in Seq(Finits) /\ Len(<<>>) = 0 OBVIOUS
  <2>3. 1..0 = {} OBVIOUS
  <2> QED BY <2>1, <2>2, <2>3
<1>2. ASSUME NEW k \in T PROVE k + 1 \in T
  <2> SUFFICES ASSUME k + 1 <= Len(finits)
               PROVE  /\ HandledTo(finits, k + 1) \in Seq(Finits)
                      /\ Len(HandledTo(finits, k + 1)) = k + 1
                      /\ \A n \in 1..k + 1 : HandledTo(finits, k + 1)[n] = finits[n].function
    OBVIOUS
  <2> DEFINE h == HandledTo(finits, k)
  <2>1. h \in Seq(Finits) /\ Len(h) = k /\ (\A n \in 1..k : h[n] = finits[n].function) /\ k \in Nat
    BY <1>0
  <2>2. k + 1 \in 1..Len(finits) /\ (k + 1) - 1 = k BY <1>0, <2>1
  <2>3. HandledTo(finits, k + 1) = Append(h, finits[k + 1].function)
    BY <1>0, <2>2, HandledStep
  <2> HIDE DEF h, T
  <2>4. finits[k + 1].function \in Finits BY <1>0, <2>2
  <2>5. /\ Append(h, finits[k + 1].function) \in Seq(Finits)
        /\ Len(Append(h, finits[k + 1].function)) = k + 1
        /\ Append(h, finits[k + 1].function)[k + 1] = finits[k + 1].function
        /\ \A n \in 1..k : Append(h, finits[k + 1].function)[n] = h[n]
    BY <2>1, <2>4, AppendProperties
  <2>6. \A n \in 1..k + 1 : n \in 1..k \/ n = k + 1 BY <2>1
  <2> QED BY <2>1, <2>3, <2>5, <2>6
<1> HIDE DEF T
<1>3. T = Nat
  <2>1. T \in SUBSET Nat BY DEF T
  <2> QED BY <1>1, <1>2, <2>1, SetInduction
<1>4. Len(finits) \in T BY <1>0, <1>3
<1> DEFINE h == Handled(finits)
<1>5. h \in Seq(Finits) /\ Len(h) = Len(finits)
      /\ \A n \in 1..Len(finits) : h[n] = finits[n].function
  BY <1>0, <1>4 DEF T, Handled
<1> HIDE DEF h
<1>6. h = [n \in 1..Len(finits) |-> finits[n].function]
  <2>1. h = [n \in 1..Len(h) |-> h[n]] BY <1>5, LenProperties
  <2> QED BY <1>5, <2>1
<1> QED BY <1>0, <1>6 DEF FunctionsOf, h

-----------------------------------------------------------------------------
\* The init functions of files are called in the order of their registration,
\* each once, and a loaded engine has called all of them, for any files
\* (do_link, ey_signature_add_init).
THEOREM InitsAlwaysInOrder == LinkSpec => []InitsInOrder
<1>1. LinkInv => InitsInOrder
  <2> SUFFICES ASSUME LinkInv PROVE InitsInOrder
    OBVIOUS
  <2>0. /\ inits \in Seq(Code(Inits)) /\ Len(inits) \in Nat /\ DOMAIN inits = 1..Len(inits)
        /\ entered \in Seq(Inits) /\ Len(entered) \in Nat /\ DOMAIN entered = 1..Len(entered)
        /\ Len(entered) <= Len(inits)
        /\ \A n \in 1..Len(entered) : entered[n] = inits[n].function
        /\ \A n \in 1..Len(inits) : inits[n].function \in Inits
    <3>1. inits \in Seq(Code(Inits)) /\ entered \in Seq(Inits)
      BY DEF LinkInv, LinkTypes
    <3>2. \A n \in 1..Len(inits) : inits[n] \in Code(Inits)
      BY <3>1, ElementOfSeq
    <3>3. \A n \in 1..Len(inits) : inits[n].function \in Inits
      BY <3>2 DEF Code
    <3>4. /\ Len(inits) \in Nat /\ DOMAIN inits = 1..Len(inits)
          /\ Len(entered) \in Nat /\ DOMAIN entered = 1..Len(entered)
      BY <3>1, LenProperties
    <3> QED BY <3>1, <3>3, <3>4 DEF LinkInv, InitProgress
  <2> DEFINE f == FunctionsOf(inits)
             g == SubSeq(f, 1, Len(entered))
  <2>1. \A n \in 1..Len(inits) : f[n] = inits[n].function
    BY <2>0 DEF FunctionsOf
  <2> HIDE DEF f
  <2>2. g \in Seq(Inits) /\ Len(g) = Len(entered) /\ \A n \in 1..Len(entered) : g[n] = f[n]
    <3>1. \A n \in 1..Len(entered) : f[n] \in Inits
      BY <2>0, <2>1
    <3> QED BY <2>0, <3>1, SubSeqProperties
  <2> HIDE DEF g
  <2>3. entered = g
    <3>1. \A n \in 1..Len(entered) : entered[n] = g[n]
      BY <2>0, <2>1, <2>2
    <3> QED BY <2>0, <2>2, <3>1, SeqEqual
  <2>4. \A m, n \in DOMAIN entered : entered[m] = entered[n] => m = n
    BY <2>0 DEF LinkInv, OneOfAName
  <2>5. phase = "loaded" => Len(entered) = Len(inits)
    BY DEF LinkInv, InitProgress
  <2> QED BY <2>3, <2>4, <2>5 DEF InitsInOrder, g, f
<1> QED BY <1>1, LinkInvariant, PTL

\* In a loaded engine a function without address is one of an event of which an
\* earlier kind came with its address; those of the works all have theirs
\* (do_link, the loops over works and events).
THEOREM HooksAlwaysBound == LinkSpec => []HooksBoundUnlessMixed
<1>1. LinkInv => HooksBoundUnlessMixed
  <2> SUFFICES ASSUME LinkInv, phase = "loaded", NEW s \in Slots, hook[s] # NoCode, ~hook[s].handle
               PROVE  /\ s[1] # Work
                      /\ \E t \in Slots : t[1] = s[1] /\ t[2] < s[2] /\ hook[t].handle
    BY DEF HooksBoundUnlessMixed
  <2>1. s[1] \in Owners
    BY SlotPairs
  <2> QED BY <2>1 DEF LinkInv, HooksDone, Done
<1> QED BY <1>1, LinkInvariant, PTL

\* Whoever registers first for a slot keeps it, and an address is never lost,
\* for any names and events (ey_event_set_runtime_init and its like, do_link).
THEOREM FirstKeeps == LinkSpec => FirstKeepsTheSlot
<1> DEFINE Keeps == \A s \in Slots : hook[s] # NoCode =>
                      /\ hook'[s].function = hook[s].function
                      /\ hook[s].handle => hook'[s].handle
<1>1. LinkInv /\ [LinkNext]_linkVars => [Keeps]_linkVars
  <2> SUFFICES ASSUME LinkInv, LinkNext PROVE Keeps
    OBVIOUS
  <2>1. CASE UNCHANGED hook
    BY <2>1
  <2>2. CASE Register
    <3>1. CASE \E s \in Slots, f \in FunctionNames, h \in BOOLEAN :
                 SetHook(s, [function |-> f, handle |-> h])
      BY <3>1, SetKeeps DEF SetHook, LinkInv
    <3> QED BY <2>1, <2>2, <3>1 DEF Register, AddInit, AddFinit
  <2>3. CASE LinkOwner
    BY <2>3, LinkOwnerKeeps DEF LinkInv
  <2> QED BY <2>1, <2>2, <2>3
          DEF LinkNext, DoLink, Unload, ParseFails, Relocate, CallInit, NoSuchInit, InitReturns,
              InitFails, InitsDone, LinkFinit, NoSuchFinit, FinitsDone, LinkDone, Fail,
              Destroy, CallFinit, Gone
<1> QED BY <1>1, LinkInvariant, PTL DEF LinkSpec, FirstKeepsTheSlot

\* When the engine is gone, the finit functions that have an address have been
\* called once each and in the order of registration; after a load that
\* succeeded that is all of them.  After one that failed, at most one of those
\* that came with an address is missing, the one whose lookup failed, and none
\* that came by its name alone is there before all file init functions have been
\* called (do_link, ey_signature_finit).
THEOREM FinitsAlwaysInOrder == LinkSpec => []FinitsInOrder
<1>1. FinitInv /\ GivenInv => FinitsInOrder
  <2> SUFFICES ASSUME FinitInv, GivenInv PROVE FinitsInOrder
    OBVIOUS
  <2>1. DOMAIN ended = 1..Len(ended) BY LenProperties DEF FinitInv, FinitTypes
  <2>2. phase = "loaded" => Handled(finits) = FunctionsOf(finits)
    BY AllHandled DEF FinitInv, FinitProgress
  <2>3. \A f : f \in Ended <=> \E m \in 1..Len(ended) : ended[m] = f
    BY <2>1 DEF Ended
  <2>4. ASSUME phase = "gone", NEW f \in given \ Ended, NEW g \in given \ Ended
        PROVE  f = g /\ f \in Static /\ Len(entered) = Len(inits)
    <3>1. PICK m \in 1..Len(finits) : finits[m].function = f
      BY DEF GivenInv, GivenBound
    <3>2. PICK n \in 1..Len(finits) : finits[n].function = g
      BY DEF GivenInv, GivenBound
    <3>3. ~finits[m].handle /\ ~finits[n].handle
      BY <2>3, <2>4, <3>1, <3>2 DEF GivenInv, Called
    <3>4. m = n /\ f \in Static /\ Len(entered) = Len(inits)
      BY <3>1, <3>2, <3>3 DEF GivenInv, GivenBound
    <3> QED BY <3>1, <3>2, <3>4
  <2>5. ASSUME NEW f \in Ended, f \notin given PROVE Len(entered) = Len(inits)
    <3>1. PICK n \in 1..Len(finits) : finits[n].function = f /\ finits[n].handle
      BY <2>3 DEF GivenInv, Called
    <3> QED BY <2>5, <3>1 DEF GivenInv, OthersBound
  <2> QED
    BY <2>1, <2>2, <2>4, <2>5 DEF FinitInv, FinitProgress, EndedOnce, FinitsInOrder
<1>2. LinkSpec => []FinitInv
  BY InitFinitInv, FinitNext, LinkInvariant, PTL DEF LinkSpec
<1>3. LinkSpec => []GivenInv
  BY <1>2, InitGivenInv, GivenNext, LinkInvariant, PTL DEF LinkSpec
<1> QED BY <1>1, <1>2, <1>3, PTL
=============================================================================
