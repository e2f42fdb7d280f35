------------------------------ MODULE HtmlProof ------------------------------
(***************************************************************************)
(* The theorems about the HTML decoder, for any pages, any cuts and any    *)
(* checks.                                                                 *)
(*                                                                         *)
(* NodesAccounted.  Whole says where the nodes are while none has been     *)
(* freed: each has one place, which is a frame of the parser, a position   *)
(* in the root, or the list of one other node; what is within a node was   *)
(* allocated after it; and a tag that is open has nothing in its own list  *)
(* yet.  From that, AllReached shows that freeing the lists with all that  *)
(* is below them frees every node.  PushResult shows that any token keeps  *)
(* a parser Whole, or leaves it with nothing on its stack; what the lexer  *)
(* makes of the characters does not matter for it.                         *)
(*                                                                         *)
(* TreeAsWritten and PlainArgumentsClean.  Read says that the lexer and    *)
(* the parser are at one place of the page: Place, within which item, and  *)
(* at which of its characters; Taken, that the parser has the tree of the  *)
(* items before it.  GoesOn is the core: one match of the lexer, with the  *)
(* token it makes, leads from a place of an item to a later one, or to its *)
(* end with the tree grown by it, or to a refusal that the item explains.  *)
(* ReadsOn says the same of the page.  It holds of a buffer that is a      *)
(* piece of the page, wherever the page was cut, but where an empty value  *)
(* is looked for without the character behind it: EmptyValueHeld and       *)
(* ValueHeld say when the buffer has it.  NextCorrect puts the calls       *)
(* together.                                                               *)
(***************************************************************************)
EXTENDS HtmlTree, SequenceTheorems, FiniteSetTheorems, WellFoundedInduction, TLAPS

-----------------------------------------------------------------------------
(* What is below a node.                                                   *)

\* What holds of 0 and passes from n to n + 1 holds of every number.
LEMMA SetInduction ==
  ASSUME NEW T \in SUBSET Nat, 0 \in T, \A n \in T : n + 1 \in T
  PROVE  T = Nat
<1> SUFFICES ASSUME Nat \ T # {} PROVE FALSE
  OBVIOUS
<1>1. IsWellFoundedOn(OpToRel(<, Nat), Nat)
  BY NatLessThanWellFounded
<1>2. PICK x \in Nat \ T : \A y \in Nat \ T : ~(<<y, x>> \in OpToRel(<, Nat))
  <2>1. Nat \ T \subseteq Nat OBVIOUS
  <2> QED BY <1>1, <2>1, WFMin, Zenon
<1>3. x # 0 /\ x - 1 \in Nat
  OBVIOUS
<1>4. x - 1 \in Nat \ T
  BY <1>3
<1>5. <<x - 1, x>> \in OpToRel(<, Nat)
  <2>1. x - 1 < x BY <1>3
  <2> QED BY <2>1, <1>3, Zenon DEF OpToRel
<1> QED BY <1>2, <1>4, <1>5

\* What holds of a number if it holds of all smaller ones holds of all of 1..N,
\* and so does what holds of a number if it holds of all greater ones.
LEMMA Upwards ==
  ASSUME NEW N \in Nat, NEW T \in SUBSET (1..N),
         \A n \in 1..N : (\A m \in 1..N : m < n => m \in T) => n \in T
  PROVE  T = 1..N
<1> DEFINE U == {n \in Nat : \A m \in 1..N : m <= n => m \in T}
<1>1. 0 \in U
  OBVIOUS
<1>2. ASSUME NEW n \in U PROVE n + 1 \in U
  <2>1. n \in Nat /\ \A m \in 1..N : m <= n => m \in T
    OBVIOUS
  <2>2. ASSUME NEW m \in 1..N, m <= n + 1 PROVE m \in T
    <3>1. CASE m <= n BY <2>1, <3>1
    <3>2. CASE m = n + 1
      <4>1. \A k \in 1..N : k < m => k <= n BY <2>1, <3>2
      <4> QED BY <2>1, <4>1
    <3> QED BY <2>1, <2>2, <3>1, <3>2
  <2> QED BY <2>1, <2>2
<1> HIDE DEF U
<1>3. U = Nat
  <2>1. U \in SUBSET Nat BY DEF U
  <2> QED BY <1>1, <1>2, <2>1, SetInduction
<1>4. N \in U
  BY <1>3
<1>5. \A m \in 1..N : m <= N => m \in T
  BY <1>4 DEF U
<1>6. \A m \in 1..N : m \in T
  BY <1>5
<1> QED BY <1>6, Zenon

LEMMA Downwards ==
  ASSUME NEW N \in Nat, NEW T \in SUBSET (1..N),
         \A n \in 1..N : (\A m \in 1..N : m > n => m \in T) => n \in T
  PROVE  T = 1..N
<1> DEFINE U == {n \in Nat : \A m \in 1..N : m > N - n => m \in T}
<1>1. 0 \in U
  OBVIOUS
<1>2. ASSUME NEW n \in U PROVE n + 1 \in U
  <2>1. n \in Nat /\ \A m \in 1..N : m > N - n => m \in T
    OBVIOUS
  <2>2. ASSUME NEW m \in 1..N, m > N - (n + 1) PROVE m \in T
    <3>1. CASE m > N - n BY <2>1, <3>1
    <3>2. CASE m = N - n
      <4>1. \A k \in 1..N : k > m => k > N - n BY <2>1, <3>2
      <4> QED BY <2>1, <4>1
    <3> QED BY <2>1, <2>2, <3>1, <3>2
  <2> QED BY <2>1, <2>2
<1> HIDE DEF U
<1>3. U = Nat
  <2>1. U \in SUBSET Nat BY DEF U
  <2> QED BY <1>1, <1>2, <2>1, SetInduction
<1>4. N \in U
  BY <1>3
<1>5. \A m \in 1..N : m > N - N => m \in T
  BY <1>4 DEF U
<1>6. \A m \in 1..N : m > N - N
  OBVIOUS
<1> QED BY <1>5, <1>6, Zenon

LEMMA BelowExists ==
  ASSUME NEW N \in Nat, NEW K, \A n \in 1..N : \A k \in K[n] : k \in 1..N /\ k > n
  PROVE  \E f : /\ f = [n \in 1..N |-> f[n]]
                /\ \A n \in 1..N : Below(f, K, n)
<1> DEFINE Known(m) == \E f : /\ f = [n \in 1..N |-> f[n]]
                             /\ \A n \in 1..N : n > N - m => Below(f, K, n)
           U == {m \in Nat : Known(m)}
<1>1. 0 \in U
  <2> DEFINE f == [n \in 1..N |-> {}]
  <2>1. f = [n \in 1..N |-> f[n]] OBVIOUS
  <2>2. \A n \in 1..N : ~(n > N - 0) OBVIOUS
  <2> HIDE DEF f
  <2>3. Known(0) BY <2>1, <2>2
  <2> QED BY <2>3
<1>2. ASSUME NEW m \in U PROVE m + 1 \in U
  <2>1. m \in Nat OBVIOUS
  <2>2. PICK f : /\ f = [n \in 1..N |-> f[n]]
                 /\ \A n \in 1..N : n > N - m => Below(f, K, n)
    OBVIOUS
  <2> DEFINE c == N - m
             b == {c} \cup UNION {f[k] : k \in K[c]}
             g == [n \in 1..N |-> IF n = c THEN b ELSE f[n]]
  <2>3. g = [n \in 1..N |-> g[n]] OBVIOUS
  <2>4. ASSUME NEW n \in 1..N, n > N - (m + 1) PROVE Below(g, K, n)
    <3>1. \A k \in K[n] : k \in 1..N /\ k > n OBVIOUS
    <3>2. n >= c BY <2>1, <2>4
    <3>3. \A k \in K[n] : g[k] = f[k] BY <3>1, <3>2
    <3>4. {g[k] : k \in K[n]} = {f[k] : k \in K[n]} BY <3>3, Zenon
    <3>5. CASE n = c
      <4>1. g[n] = b BY <3>5
      <4>2. b = {n} \cup UNION {f[k] : k \in K[n]} BY <3>5, Zenon
      <4> HIDE DEF g, b
      <4> QED BY <4>1, <4>2, <3>4, Zenon DEF Below
    <3>6. CASE n # c
      <4>1. n > N - m BY <2>1, <3>2, <3>6
      <4>2. g[n] = f[n] BY <3>6
      <4>3. Below(f, K, n) BY <2>2, <4>1
      <4> HIDE DEF g
      <4> QED BY <4>2, <4>3, <3>4, Zenon DEF Below
    <3> QED BY <3>5, <3>6
  <2> HIDE DEF g
  <2>5. Known(m + 1) BY <2>3, <2>4
  <2>6. m + 1 \in Nat BY <2>1
  <2> HIDE DEF Known
  <2> QED BY <2>5, <2>6
<1> HIDE DEF U
<1>3. U = Nat
  <2>1. U \in SUBSET Nat BY DEF U
  <2> QED BY <1>1, <1>2, <2>1, SetInduction
<1>4. N \in U
  BY <1>3
<1>5. PICK f : /\ f = [n \in 1..N |-> f[n]]
               /\ \A n \in 1..N : n > N - N => Below(f, K, n)
  BY <1>4 DEF U
<1>6. \A n \in 1..N : n > N - N OBVIOUS
<1> QED BY <1>5, <1>6

LEMMA NodesLen ==
  ASSUME NEW p, Typed(p)
  PROVE  /\ Len(p.nodes) \in Nat /\ DOMAIN p.nodes = 1..Len(p.nodes)
         /\ \A n \in 1..Len(p.nodes) :
              /\ p.nodes[n].kids \in Seq(Nat) /\ Len(p.nodes[n].kids) \in Nat
              /\ DOMAIN p.nodes[n].kids = 1..Len(p.nodes[n].kids)
<1>1. p.nodes \in Seq(ToSet(p.nodes))
  BY DEF Typed
<1>2. \A n \in 1..Len(p.nodes) : p.nodes[n].kids \in Seq(Nat)
  BY DEF Typed, NodeTyped
<1> QED BY <1>1, <1>2, LenProperties

\* A node and what is within its kids.
LEMMA SubtreeStep ==
  ASSUME NEW p, Typed(p), KidsWhole(p), NEW n \in 1..Len(p.nodes)
  PROVE  Subtree(p, n) = {n} \cup UNION {Subtree(p, k) : k \in ToSet(p.nodes[n].kids)}
<1> DEFINE N == Len(p.nodes)
           K == [m \in 1..N |-> ToSet(p.nodes[m].kids)]
           Eq(f) == f = [m \in DOMAIN p.nodes |->
                           {m} \cup UNION {f[k] : k \in ToSet(p.nodes[m].kids)}]
           below == CHOOSE f : Eq(f)
<1>1. N \in Nat /\ DOMAIN p.nodes = 1..N
  BY NodesLen
<1>2. ASSUME NEW m \in 1..N, NEW k \in K[m] PROVE k \in 1..N /\ k > m
  <2>1. PICK j \in DOMAIN p.nodes[m].kids : k = p.nodes[m].kids[j]
    BY DEF ToSet
  <2>2. j \in 1..Len(p.nodes[m].kids)
    BY <2>1, NodesLen
  <2>3. k \in (m + 1)..N
    BY <2>1, <2>2 DEF KidsWhole
  <2> QED BY <2>3, <1>1
<1>3. PICK f : /\ f = [m \in 1..N |-> f[m]]
               /\ \A m \in 1..N : Below(f, K, m)
  <2> HIDE DEF N, K
  <2> QED BY <1>1, <1>2, BelowExists
<1>4. Eq(f)
  <2>1. \A m \in 1..N : f[m] = {m} \cup UNION {f[k] : k \in ToSet(p.nodes[m].kids)}
    BY <1>3 DEF Below
  <2>2. f = [m \in 1..N |-> {m} \cup UNION {f[k] : k \in ToSet(p.nodes[m].kids)}]
    BY <1>3, <2>1, Zenon
  <2> QED BY <2>2, <1>1
<1>5. Eq(below)
  <2> HIDE DEF Eq
  <2> QED BY <1>4, Zenon
<1>6. \A m : Subtree(p, m) = below[m]
  BY Zenon DEF Subtree
<1> HIDE DEF below
<1>7. below[n] = {n} \cup UNION {below[k] : k \in ToSet(p.nodes[n].kids)}
  <2>1. n \in DOMAIN p.nodes
    BY <1>1
  <2> QED BY <1>5, <2>1, Zenon
<1> QED BY <1>6, <1>7, Zenon

\* What is below a node is a set of nodes, and what is within one of them is below, too.
LEMMA SubtreeClosed ==
  ASSUME NEW p, Typed(p), KidsWhole(p), NEW n \in 1..Len(p.nodes)
  PROVE  /\ n \in Subtree(p, n)
         /\ Subtree(p, n) \subseteq 1..Len(p.nodes)
         /\ \A m \in Subtree(p, n) : ToSet(p.nodes[m].kids) \subseteq Subtree(p, n)
<1> DEFINE N == Len(p.nodes)
           K(m) == ToSet(p.nodes[m].kids)
           Fine(m) == /\ m \in Subtree(p, m)
                      /\ Subtree(p, m) \subseteq 1..N
                      /\ \A k \in Subtree(p, m) : K(k) \subseteq Subtree(p, m)
           T == {m \in 1..N : Fine(m)}
<1>1. ASSUME NEW m \in 1..N, \A k \in 1..N : k > m => k \in T
      PROVE  m \in T
  <2>1. Subtree(p, m) = {m} \cup UNION {Subtree(p, k) : k \in K(m)}
    BY SubtreeStep
  <2>2. \A k \in K(m) : Fine(k)
    <3> SUFFICES ASSUME NEW k \in K(m) PROVE Fine(k)
      OBVIOUS
    <3>1. PICK j \in DOMAIN p.nodes[m].kids : k = p.nodes[m].kids[j]
      BY DEF ToSet
    <3>2. j \in 1..Len(p.nodes[m].kids)
      BY <3>1, NodesLen
    <3>3. k \in (m + 1)..N
      BY <3>1, <3>2 DEF KidsWhole
    <3>4. k \in 1..N /\ k > m
      BY <3>3, NodesLen
    <3> QED BY <3>4, <1>1
  <2> HIDE DEF K
  <2>3. Fine(m)
    <3>1. m \in Subtree(p, m)
      BY <2>1, Zenon
    <3>2. Subtree(p, m) \subseteq 1..N
      BY <2>1, <2>2, Zenon
    <3>3. \A k \in K(m) : k \in Subtree(p, m)
      BY <2>1, <2>2, Zenon
    <3>4. ASSUME NEW k \in Subtree(p, m) PROVE K(k) \subseteq Subtree(p, m)
      <4>1. CASE k = m BY <4>1, <3>3
      <4>2. CASE k # m
        <5>1. PICK i \in K(m) : k \in Subtree(p, i)
          BY <2>1, <4>2, Zenon
        <5>2. K(k) \subseteq Subtree(p, i)
          BY <2>2, <5>1, Zenon
        <5>3. Subtree(p, i) \subseteq Subtree(p, m)
          BY <2>1, <5>1, Zenon
        <5> QED BY <5>2, <5>3
      <4> QED BY <4>1, <4>2
    <3> QED BY <3>1, <3>2, <3>4
  <2> HIDE DEF Fine
  <2> QED BY <2>3
<1>2. T = 1..N
  <2>1. N \in Nat BY NodesLen
  <2>2. T \in SUBSET (1..N) OBVIOUS
  <2> HIDE DEF N, T
  <2> QED BY <1>1, <2>1, <2>2, Downwards
<1> QED BY <1>2

\* Freeing the root and what is on the stack frees all nodes.
LEMMA AllReached ==
  ASSUME NEW p, Typed(p), Whole(p)
  PROVE  Subtrees(p, p.root) \cup OnStack(p) = 1..Len(p.nodes)
<1> DEFINE N == Len(p.nodes)
           R == Subtrees(p, p.root) \cup OnStack(p)
<1>1. /\ KidsWhole(p) /\ FramesWhole(p) /\ OpenEmpty(p) /\ Placed(p)
      /\ N \in Nat
  BY NodesLen DEF Whole
<1>2. /\ DOMAIN p.root = 1..Len(p.root)
      /\ DOMAIN p.frames = 1..Len(p.frames)
      /\ \A k \in 1..Len(p.frames) :
           /\ p.frames[k] \in Frame
           /\ DOMAIN p.frames[k].list = 1..Len(p.frames[k].list)
  <2>1. p.root \in Seq(Nat) /\ p.frames \in Seq(Frame)
    BY DEF Typed
  <2>2. \A k \in 1..Len(p.frames) : p.frames[k] \in Frame /\ p.frames[k].list \in Seq(Nat)
    <3>1. \A k \in 1..Len(p.frames) : p.frames[k] \in Frame
      BY <2>1, ElementOfSeq
    <3> QED BY <3>1 DEF Frame
  <2> QED BY <2>1, <2>2, LenProperties
<1>3. \A i \in 1..Len(p.root) : Subtree(p, p.root[i]) \subseteq R
  BY <1>2, Zenon DEF Subtrees, ToSet
<1>4. \A k \in 1..Len(p.frames) : \A i \in 1..Len(p.frames[k].list) :
        Subtree(p, p.frames[k].list[i]) \subseteq R
  <2> SUFFICES ASSUME NEW k \in 1..Len(p.frames), NEW i \in 1..Len(p.frames[k].list)
               PROVE  Subtree(p, p.frames[k].list[i]) \subseteq R
    OBVIOUS
  <2>1. p.frames[k] \in ToSet(p.frames)
    BY <1>2 DEF ToSet
  <2>2. p.frames[k].list[i] \in ToSet(p.frames[k].list)
    BY <1>2, Zenon DEF ToSet
  <2>3. Subtree(p, p.frames[k].list[i]) \subseteq Subtrees(p, p.frames[k].list)
    BY <2>2, Zenon DEF Subtrees
  <2>4. Subtrees(p, p.frames[k].list) \subseteq OnStack(p)
    <3> DEFINE X(f) == Subtrees(p, f.list) \cup ({f.tag} \ {0})
    <3>1. OnStack(p) = UNION {X(f) : f \in ToSet(p.frames)}
      BY Zenon DEF OnStack
    <3>2. Subtrees(p, p.frames[k].list) \subseteq X(p.frames[k])
      OBVIOUS
    <3> HIDE DEF X
    <3> QED BY <2>1, <3>1, <3>2, Zenon
  <2> QED BY <2>3, <2>4
<1>5. \A k \in 1..Len(p.frames) : p.frames[k].tag # 0 => p.frames[k].tag \in R
  <2> SUFFICES ASSUME NEW k \in 1..Len(p.frames), p.frames[k].tag # 0
               PROVE  p.frames[k].tag \in R
    OBVIOUS
  <2>1. p.frames[k] \in ToSet(p.frames)
    BY <1>2 DEF ToSet
  <2>2. p.frames[k].tag \in OnStack(p)
    BY <2>1 DEF OnStack
  <2> QED BY <2>2
<1>6. ASSUME NEW r \in R
      PROVE  \/ \E i \in 1..Len(p.root) : r \in Subtree(p, p.root[i])
             \/ \E k \in 1..Len(p.frames) : \E i \in 1..Len(p.frames[k].list) :
                  r \in Subtree(p, p.frames[k].list[i])
             \/ \E k \in 1..Len(p.frames) : r = p.frames[k].tag /\ r # 0
  <2>1. CASE r \in Subtrees(p, p.root)
    BY <2>1, <1>2, Zenon DEF Subtrees, ToSet
  <2>2. CASE r \in OnStack(p)
    <3>1. PICK f \in ToSet(p.frames) : r \in Subtrees(p, f.list) \cup ({f.tag} \ {0})
      BY <2>2, Zenon DEF OnStack
    <3>2. PICK k \in 1..Len(p.frames) : f = p.frames[k]
      BY <1>2, <3>1, Zenon DEF ToSet
    <3>3. CASE r \in Subtrees(p, f.list)
      <4>1. PICK m \in ToSet(f.list) : r \in Subtree(p, m)
        BY <3>3, Zenon DEF Subtrees
      <4>2. PICK i \in 1..Len(p.frames[k].list) : m = p.frames[k].list[i]
        BY <1>2, <3>2, <4>1, Zenon DEF ToSet
      <4> QED BY <4>1, <4>2
    <3>4. CASE r \in {f.tag} \ {0}
      BY <3>2, <3>4
    <3> QED BY <3>1, <3>3, <3>4
  <2> QED BY <2>1, <2>2
<1>7. \A i \in 1..Len(p.root) : p.root[i] \in 1..N
  BY <1>1 DEF Placed
<1>8. \A k \in 1..Len(p.frames) :
        /\ p.frames[k].tag \in 0..N
        /\ \A i \in 1..Len(p.frames[k].list) : p.frames[k].list[i] \in 1..N
  <2> SUFFICES ASSUME NEW k \in 1..Len(p.frames)
               PROVE  /\ p.frames[k].tag \in 0..N
                      /\ \A i \in 1..Len(p.frames[k].list) : p.frames[k].list[i] \in 1..N
    OBVIOUS
  <2>1. FrameWhole(p.frames[k], N)
    BY <1>1 DEF FramesWhole
  <2> QED BY <2>1, <1>1 DEF FrameWhole
<1>9. \A n \in 1..N : /\ n \in Subtree(p, n)
                      /\ Subtree(p, n) \subseteq 1..N
                      /\ \A m \in Subtree(p, n) : ToSet(p.nodes[m].kids) \subseteq Subtree(p, n)
  BY <1>1, SubtreeClosed
<1> HIDE DEF N, R
<1>10. R \subseteq 1..N
  <2> SUFFICES ASSUME NEW r \in R PROVE r \in 1..N
    OBVIOUS
  <2>1. CASE \E i \in 1..Len(p.root) : r \in Subtree(p, p.root[i])
    BY <2>1, <1>7, <1>9, Zenon
  <2>2. CASE \E k \in 1..Len(p.frames) : \E i \in 1..Len(p.frames[k].list) :
               r \in Subtree(p, p.frames[k].list[i])
    BY <2>2, <1>8, <1>9, Zenon
  <2>3. CASE \E k \in 1..Len(p.frames) : r = p.frames[k].tag /\ r # 0
    BY <2>3, <1>8, <1>1
  <2> QED BY <1>6, <2>1, <2>2, <2>3
\* A node that is within one that is freed is freed, as tags that are open have no kids.
<1>11. ASSUME NEW r \in R, NEW n \in ToSet(p.nodes[r].kids)
       PROVE  n \in R
  <2>1. CASE \E i \in 1..Len(p.root) : r \in Subtree(p, p.root[i])
    BY <2>1, <1>3, <1>7, <1>9, <1>11, Zenon
  <2>2. CASE \E k \in 1..Len(p.frames) : \E i \in 1..Len(p.frames[k].list) :
               r \in Subtree(p, p.frames[k].list[i])
    BY <2>2, <1>4, <1>8, <1>9, <1>11, Zenon
  <2>3. CASE \E k \in 1..Len(p.frames) : r = p.frames[k].tag /\ r # 0
    <3>1. r \in 1..N
      BY <1>10
    <3>2. p.nodes[r].kids = <<>>
      BY <2>3, <3>1, <1>1 DEF OpenEmpty, N
    <3> QED BY <3>2, <1>11 DEF ToSet
  <2> QED BY <1>6, <2>1, <2>2, <2>3
<1>12. ASSUME NEW n \in 1..N, \A m \in 1..N : m < n => m \in R
       PROVE  n \in R
  <2>1. OneOf(Parents(p, n), AtRoot(p, n), Framed(p, n))
    BY <1>1 DEF Placed, N
  <2>2. CASE \E x : x \in Parents(p, n)
    <3>1. PICK m \in 1..N : n \in ToSet(p.nodes[m].kids)
      BY <2>2 DEF Parents, N
    <3>2. PICK j \in 1..Len(p.nodes[m].kids) : n = p.nodes[m].kids[j]
      BY <3>1, NodesLen DEF ToSet, N
    <3>3. n \in (m + 1)..N
      BY <3>2, <1>1 DEF KidsWhole, N
    <3>4. m \in R
      BY <3>3, <1>12, <1>1
    <3> QED BY <3>1, <3>4, <1>11
  <2>3. CASE \E x : x \in AtRoot(p, n)
    <3>1. PICK i \in 1..Len(p.root) : p.root[i] = n
      BY <2>3 DEF AtRoot, Positions
    <3>2. n \in Subtree(p, p.root[i])
      BY <3>1, <1>9
    <3> QED BY <3>2, <1>3
  <2>4. CASE \E x : x \in Framed(p, n)
    <3>1. PICK k \in 1..Len(p.frames) :
            p.frames[k].tag = n \/ n \in ToSet(p.frames[k].list)
      BY <2>4 DEF Framed
    <3>2. CASE p.frames[k].tag = n
      <4>1. n # 0 BY <1>1
      <4> QED BY <3>2, <4>1, <1>5
    <3>3. CASE n \in ToSet(p.frames[k].list)
      <4>1. PICK i \in 1..Len(p.frames[k].list) : n = p.frames[k].list[i]
        BY <3>3, <1>2, Zenon DEF ToSet
      <4>2. n \in Subtree(p, p.frames[k].list[i])
        BY <4>1, <1>9
      <4> QED BY <4>2, <1>4
    <3> QED BY <3>1, <3>2, <3>3
  <2> QED BY <2>1, <2>2, <2>3, <2>4 DEF OneOf
<1>13. 1..N = R
  <2>1. R \in SUBSET (1..N) BY <1>10
  <2> QED BY <2>1, <1>1, <1>12, Upwards
<1> QED BY <1>13 DEF N, R

-----------------------------------------------------------------------------
(* Steps of the parser that leave the nodes where they are.                *)

LEMMA SameWhole ==
  ASSUME NEW p, NEW q, Same(p, q), Typed(p), Whole(p)
  PROVE  Typed(q) /\ Whole(q)
<1>1. Typed(q)
  BY DEF Same, Typed
<1>2. FramesWhole(q) /\ OpenEmpty(q) /\ KidsWhole(q)
  BY DEF Whole, Same, FramesWhole, OpenEmpty, KidsWhole
<1>3. \A n : Parents(q, n) = Parents(p, n) /\ AtRoot(q, n) = AtRoot(p, n) /\ Framed(q, n) = Framed(p, n)
  BY Zenon DEF Same, Parents, AtRoot, Positions, Framed
<1>4. Placed(q)
  BY <1>3 DEF Whole, Same, Placed
<1> QED BY <1>1, <1>2, <1>4 DEF Whole, Same

LEMMA SameKeeps ==
  ASSUME NEW p, NEW q, Same(p, q), Growing(p), q.at \in {"end_name", "end"} => Len(p.frames) > 1
  PROVE  Growing(q)
<1>1. Typed(q) /\ Whole(q)
  BY SameWhole DEF Growing
<1> QED BY <1>1 DEF Growing, Same

LEMMA SameTrans ==
  ASSUME NEW p, NEW q, NEW r, Same(p, q), Same(q, r)
  PROVE  Same(p, r)
BY DEF Same

LEMMA ReduceSame ==
  ASSUME NEW p, Typed(p), NEW n
  PROVE  Same(p, Reduce(p, n)) /\ Reduce(p, n).at = p.at
BY DEF Reduce, Same, Typed

LEMMA AtSame ==
  ASSUME NEW p, Typed(p), NEW at
  PROVE  Same(p, [p EXCEPT !.at = at]) /\ [p EXCEPT !.at = at].at = at
BY DEF Same, Typed

LEMMA NameReadSame ==
  ASSUME NEW p, Typed(p), NEW at
  PROVE  Same(p, NameRead(p, at)) /\ NameRead(p, at).at = at
<1> DEFINE q == [p EXCEPT !.at = at]
<1>1. Same(p, q) /\ q.at = at
  BY AtSame
<1>2. Typed(q)
  BY <1>1 DEF Same, Typed
<1> HIDE DEF q
<1>3. Same(q, Reduce(q, 1)) /\ Reduce(q, 1).at = at
  BY <1>1, <1>2, ReduceSame
<1>4. NameRead(p, at) = Reduce(q, 1)
  BY Zenon DEF NameRead, q
<1> QED BY <1>1, <1>3, <1>4, SameTrans

LEMMA ProtEndsSame ==
  ASSUME NEW p, Typed(p), NEW v
  PROVE  Same(p, ProtEnds(p, v)) /\ ProtEnds(p, v).at = p.at
<1> DEFINE q == [p EXCEPT !.prots = IF p.dom THEN Append(@, v) ELSE @]
<1>1. Same(p, q) /\ q.at = p.at
  BY DEF Same, Typed
<1>2. Typed(q)
  BY <1>1 DEF Same, Typed
<1> HIDE DEF q
<1>3. Same(q, Reduce(q, 3 + Len(v))) /\ Reduce(q, 3 + Len(v)).at = q.at
  BY <1>2, ReduceSame
<1>4. ProtEnds(p, v) = Reduce(q, 3 + Len(v))
  BY Zenon DEF ProtEnds, q
<1> QED BY <1>1, <1>3, <1>4, SameTrans

-----------------------------------------------------------------------------
(* Steps that make a node.                                                 *)

LEMMA ToSetAppend ==
  ASSUME NEW S, NEW s \in Seq(S), NEW x \in S
  PROVE  ToSet(Append(s, x)) = ToSet(s) \cup {x}
<1>1. /\ Append(s, x) \in Seq(S) /\ Len(Append(s, x)) = Len(s) + 1 /\ Len(s) \in Nat
      /\ \A i \in 1..Len(s) : Append(s, x)[i] = s[i]
      /\ Append(s, x)[Len(s) + 1] = x
  BY AppendProperties, LenProperties
<1>2. DOMAIN Append(s, x) = 1..Len(s) + 1 /\ DOMAIN s = 1..Len(s)
  BY <1>1, LenProperties
<1> QED BY <1>1, <1>2 DEF ToSet

LEMMA ToSetConcat ==
  ASSUME NEW S, NEW s \in Seq(S), NEW t \in Seq(S)
  PROVE  ToSet(s \o t) = ToSet(s) \cup ToSet(t)
<1>1. /\ s \o t \in Seq(S) /\ Len(s \o t) = Len(s) + Len(t)
      /\ Len(s) \in Nat /\ Len(t) \in Nat
      /\ \A i \in 1..Len(s) + Len(t) : (s \o t)[i] = IF i <= Len(s) THEN s[i] ELSE t[i - Len(s)]
  BY ConcatProperties, LenProperties
<1>2. /\ DOMAIN (s \o t) = 1..Len(s) + Len(t) /\ DOMAIN s = 1..Len(s) /\ DOMAIN t = 1..Len(t)
  BY <1>1, LenProperties
<1>3. ASSUME NEW x \in ToSet(s \o t) PROVE x \in ToSet(s) \cup ToSet(t)
  <2>1. PICK i \in 1..Len(s) + Len(t) : x = (s \o t)[i]
    BY <1>2 DEF ToSet
  <2>2. CASE i <= Len(s)
    BY <1>1, <1>2, <2>1, <2>2 DEF ToSet
  <2>3. CASE i > Len(s)
    <3>1. i - Len(s) \in 1..Len(t) /\ x = t[i - Len(s)]
      BY <1>1, <2>1, <2>3
    <3> QED BY <3>1, <1>2 DEF ToSet
  <2> QED BY <1>1, <2>1, <2>2, <2>3
<1>4. ASSUME NEW x \in ToSet(s) PROVE x \in ToSet(s \o t)
  <2>1. PICK i \in 1..Len(s) : x = s[i]
    BY <1>2 DEF ToSet
  <2>2. i \in 1..Len(s) + Len(t) /\ (s \o t)[i] = x
    BY <1>1, <2>1
  <2> QED BY <2>2, <1>2 DEF ToSet
<1>5. ASSUME NEW x \in ToSet(t) PROVE x \in ToSet(s \o t)
  <2>1. PICK i \in 1..Len(t) : x = t[i]
    BY <1>2 DEF ToSet
  <2>2. Len(s) + i \in 1..Len(s) + Len(t) /\ (s \o t)[Len(s) + i] = x
    BY <1>1, <2>1
  <2> QED BY <2>2, <1>2 DEF ToSet
<1> QED BY <1>3, <1>4, <1>5

LEMMA FunctionSeq ==
  ASSUME NEW S, NEW n \in Nat, NEW f \in [1..n -> S]
  PROVE  f \in Seq(S) /\ Len(f) = n
<1>1. f \in Seq(S)
  BY SeqDef, Zenon
<1> QED BY <1>1, LenProperties

LEMMA FramesLen ==
  ASSUME NEW p, Typed(p)
  PROVE  /\ Len(p.frames) \in Nat /\ DOMAIN p.frames = 1..Len(p.frames)
         /\ \A k \in 1..Len(p.frames) :
              /\ p.frames[k] \in Frame /\ p.frames[k].tag \in Nat
              /\ p.frames[k].list \in Seq(Nat) /\ Len(p.frames[k].list) \in Nat
              /\ DOMAIN p.frames[k].list = 1..Len(p.frames[k].list)
<1>1. p.frames \in Seq(Frame)
  BY DEF Typed
<1>2. \A k \in 1..Len(p.frames) : p.frames[k] \in Frame
  BY <1>1, ElementOfSeq
<1>3. \A k \in 1..Len(p.frames) : p.frames[k].tag \in Nat /\ p.frames[k].list \in Seq(Nat)
  BY <1>2 DEF Frame
<1> QED BY <1>1, <1>2, <1>3, LenProperties

\* A stack of more than one frame is not one of one frame.
LEMMA GrowingDepth ==
  ASSUME NEW p, Growing(p)
  PROVE  /\ Len(p.frames) > 1 \/ Len(p.frames) = 1
         /\ Len(p.frames) > 1 => Len(p.frames) # 1
<1> DEFINE n == Len(p.frames)
<1>1. n \in Nat /\ n > 0
  BY FramesLen DEF Growing
<1> HIDE DEF n
<1>2. (n > 1 \/ n = 1) /\ (n > 1 => n # 1)
  BY <1>1
<1> QED BY <1>2 DEF n

\* A new node, in one place of the parser's stack.
LEMMA NewNode ==
  ASSUME NEW p, NEW q, NEW node, Growing(p), p.dom,
         DOMAIN q = DOMAIN p, NodeTyped(node), node.kids = <<>>,
         q.nodes = Append(p.nodes, node), q.live = p.live \cup {Len(p.nodes) + 1},
         q.root = p.root, q.dom = p.dom,
         q.frames \in Seq(Frame), FramesWhole(q),
         \A k \in 1..Len(q.frames) :
           \/ q.frames[k].tag = Len(p.nodes) + 1
           \/ \E j \in 1..Len(p.frames) : q.frames[k].tag = p.frames[j].tag,
         \A n \in 1..Len(p.nodes) : Framed(q, n) = Framed(p, n),
         \E x : Framed(q, Len(p.nodes) + 1) = {x}
  PROVE  Typed(q) /\ Whole(q)
<1> DEFINE N == Len(p.nodes)
<1>1. /\ Typed(p) /\ Whole(p) /\ Len(p.root) = 0
      /\ N \in Nat /\ p.nodes \in Seq(ToSet(p.nodes))
  BY NodesLen DEF Growing, Typed
<1>2. /\ q.nodes \in Seq(ToSet(p.nodes) \cup {node}) /\ Len(q.nodes) = N + 1
      /\ \A n \in 1..N : q.nodes[n] = p.nodes[n]
      /\ q.nodes[N + 1] = node
      /\ ToSet(q.nodes) = ToSet(p.nodes) \cup {node}
  <2>1. p.nodes \in Seq(ToSet(p.nodes) \cup {node})
    BY <1>1, SeqMonotonic
  <2>2. node \in ToSet(p.nodes) \cup {node}
    OBVIOUS
  <2> QED BY <2>1, <2>2, AppendProperties, ToSetAppend
<1>3. Typed(q)
  <2>1. \A n \in 1..N + 1 : NodeTyped(q.nodes[n])
    BY <1>1, <1>2 DEF Typed
  <2> QED BY <1>1, <1>2, <2>1 DEF Typed
<1>4. q.live = 1..N + 1
  BY <1>1 DEF Whole
<1>5. node.kids = <<>> /\ Len(node.kids) = 0 /\ ToSet(node.kids) = {}
  BY EmptySeq DEF ToSet
<1>6. OpenEmpty(q)
  <2> SUFFICES ASSUME NEW k \in 1..Len(q.frames), NEW m \in 1..N + 1, q.frames[k].tag = m
               PROVE  q.nodes[m].kids = <<>>
    BY <1>2 DEF OpenEmpty
  <2>1. CASE m = N + 1
    BY <1>2, <1>5, <2>1
  <2>2. CASE m # N + 1
    <3>1. m \in 1..N
      BY <2>2, <1>1
    <3>2. PICK j \in 1..Len(p.frames) : p.frames[j].tag = m
      BY <2>2
    <3>3. p.nodes[m].kids = <<>>
      BY <3>1, <3>2, <1>1 DEF Whole, OpenEmpty
    <3> QED BY <3>1, <3>3, <1>2
  <2> QED BY <2>1, <2>2
<1>7. KidsWhole(q)
  <2> SUFFICES ASSUME NEW m \in 1..N + 1, NEW j \in 1..Len(q.nodes[m].kids)
               PROVE  q.nodes[m].kids[j] \in (m + 1)..(N + 1)
    BY <1>2 DEF KidsWhole
  <2>1. m # N + 1
    BY <1>2, <1>5
  <2>2. m \in 1..N /\ q.nodes[m] = p.nodes[m]
    BY <2>1, <1>1, <1>2
  <2>3. p.nodes[m].kids[j] \in (m + 1)..N
    BY <2>2, <1>1 DEF Whole, KidsWhole
  <2> QED BY <2>2, <2>3, <1>1
<1>8. \A n : Parents(q, n) = Parents(p, n)
  <2> SUFFICES ASSUME NEW n PROVE Parents(q, n) = Parents(p, n)
    OBVIOUS
  <2>1. \A m \in 1..N + 1 : n \in ToSet(q.nodes[m].kids)
                              <=> m \in 1..N /\ n \in ToSet(p.nodes[m].kids)
    BY <1>1, <1>2, <1>5
  <2>2. 1..N \subseteq 1..N + 1
    BY <1>1
  <2> QED BY <2>1, <2>2, <1>2, Zenon DEF Parents
<1>9. \A n : AtRoot(q, n) = {} /\ AtRoot(p, n) = {}
  BY <1>1 DEF AtRoot, Positions
<1>10. Parents(p, N + 1) = {}
  <2> SUFFICES ASSUME NEW m \in 1..N, N + 1 \in ToSet(p.nodes[m].kids) PROVE FALSE
    BY DEF Parents
  <2>1. PICK j \in 1..Len(p.nodes[m].kids) : p.nodes[m].kids[j] = N + 1
    BY <1>1, NodesLen DEF ToSet
  <2>2. p.nodes[m].kids[j] \in (m + 1)..N
    BY <1>1 DEF Whole, KidsWhole
  <2> QED BY <2>1, <2>2, <1>1
<1>11. Placed(q)
  <2>1. \A n \in 1..N : OneOf(Parents(q, n), AtRoot(q, n), Framed(q, n))
    <3>1. \A n \in 1..N : OneOf(Parents(p, n), AtRoot(p, n), Framed(p, n))
      BY <1>1 DEF Whole, Placed
    <3> QED BY <3>1, <1>8, <1>9
  <2>2. OneOf(Parents(q, N + 1), AtRoot(q, N + 1), Framed(q, N + 1))
    BY <1>8, <1>9, <1>10 DEF OneOf
  <2>3. \A n \in 1..N + 1 : n \in 1..N \/ n = N + 1
    BY <1>1
  <2>4. \A n \in 1..N + 1 : OneOf(Parents(q, n), AtRoot(q, n), Framed(q, n))
    BY <2>1, <2>2, <2>3, Zenon
  <2> QED BY <2>4, <1>1, <1>2 DEF Placed
<1> QED BY <1>2, <1>3, <1>4, <1>6, <1>7, <1>11 DEF Whole

\* A list that gets a greater number stays in order.
LEMMA ListGrows ==
  ASSUME NEW list \in Seq(Nat), Distinct(list), NEW x \in Nat, NEW a \in Nat, NEW N \in Nat,
         \A i \in 1..Len(list) : list[i] \in (a + 1)..N,
         x \in (a + 1)..N, x \notin ToSet(list)
  PROVE  /\ Append(list, x) \in Seq(Nat)
         /\ \A i \in 1..Len(Append(list, x)) : Append(list, x)[i] \in (a + 1)..N
         /\ Distinct(Append(list, x))
<1>1. /\ Append(list, x) \in Seq(Nat) /\ Len(Append(list, x)) = Len(list) + 1 /\ Len(list) \in Nat
      /\ \A i \in 1..Len(list) : Append(list, x)[i] = list[i]
      /\ Append(list, x)[Len(list) + 1] = x
      /\ DOMAIN list = 1..Len(list)
  BY AppendProperties, LenProperties
<1>2. \A i \in 1..Len(list) : list[i] # x
  BY <1>1 DEF ToSet
<1>3. \A i \in 1..Len(list) + 1 : Append(list, x)[i] \in (a + 1)..N
  <2> SUFFICES ASSUME NEW i \in 1..Len(list) + 1 PROVE Append(list, x)[i] \in (a + 1)..N
    OBVIOUS
  <2>1. i \in 1..Len(list) \/ i = Len(list) + 1
    BY <1>1
  <2> QED BY <2>1, <1>1
<1>4. ASSUME NEW i \in 1..Len(list) + 1, NEW j \in 1..Len(list) + 1,
             Append(list, x)[i] = Append(list, x)[j]
      PROVE  i = j
  <2>1. (i \in 1..Len(list) \/ i = Len(list) + 1) /\ (j \in 1..Len(list) \/ j = Len(list) + 1)
    BY <1>1
  <2> QED BY <2>1, <1>1, <1>2, <1>4 DEF Distinct
<1> QED BY <1>1, <1>3, <1>4 DEF Distinct

LEMMA FrameWider ==
  ASSUME NEW f \in Frame, NEW M \in Nat, NEW N \in Nat, M <= N, FrameWhole(f, M)
  PROVE  FrameWhole(f, N)
<1>1. f.tag \in 0..N /\ f.tag \in Nat
  BY DEF FrameWhole, Frame
<1>2. ASSUME NEW i \in 1..Len(f.list) PROVE f.list[i] \in (f.tag + 1)..N
  <2>1. f.list[i] \in (f.tag + 1)..M
    BY DEF FrameWhole
  <2> QED BY <2>1, <1>1
<1> QED BY <1>1, <1>2 DEF FrameWhole

LEMMA ListedFrames ==
  ASSUME NEW p, Growing(p), NEW N \in Nat, NEW x \in Nat, NEW d \in 1..Len(p.frames),
         N >= Len(p.nodes), x \in (p.frames[d].tag + 1)..N, x \notin ToSet(p.frames[d].list)
  PROVE  ListedWell(p, d, x, N, Listed(p, d, x))
<1> DEFINE F == Listed(p, d, x)
<1>1. /\ Typed(p) /\ FramesWhole(p) /\ Len(p.frames) \in Nat /\ Len(p.nodes) \in Nat /\ d \in Nat
      /\ \A k \in 1..d : k \in 1..Len(p.frames)
  BY FramesLen, NodesLen DEF Growing, Whole
<1>2. \A k \in 1..d : /\ p.frames[k] \in Frame /\ p.frames[k].tag \in Nat
                      /\ p.frames[k].list \in Seq(Nat)
  BY <1>1, FramesLen
<1>3. \A k \in 1..d : FrameWhole(p.frames[k], N)
  <2> SUFFICES ASSUME NEW k \in 1..d PROVE FrameWhole(p.frames[k], N)
    OBVIOUS
  <2>1. FrameWhole(p.frames[k], Len(p.nodes))
    BY <1>1 DEF FramesWhole
  <2>2. p.frames[k] \in Frame /\ Len(p.nodes) <= N
    BY <1>1, <1>2
  <2> QED BY <2>1, <2>2, <1>1, FrameWider
<1>4. d \in 1..d
  BY <1>1
<1> DEFINE L == Append(p.frames[d].list, x)
<1>5. /\ L \in Seq(Nat) /\ Distinct(L) /\ ToSet(L) = ToSet(p.frames[d].list) \cup {x}
      /\ \A i \in 1..Len(L) : L[i] \in (p.frames[d].tag + 1)..N
  <2> DEFINE list == p.frames[d].list
             a == p.frames[d].tag
  <2>1. list \in Seq(Nat) /\ a \in Nat /\ Distinct(list)
    BY <1>2, <1>3, <1>4 DEF FrameWhole
  <2>2. \A i \in 1..Len(list) : list[i] \in (a + 1)..N
    BY <1>3, <1>4 DEF FrameWhole
  <2>3. x \in (a + 1)..N /\ x \notin ToSet(list)
    OBVIOUS
  <2> HIDE DEF list, a
  <2>4. ToSet(Append(list, x)) = ToSet(list) \cup {x}
    BY <2>1, ToSetAppend
  <2>5. /\ Append(list, x) \in Seq(Nat) /\ Distinct(Append(list, x))
        /\ \A i \in 1..Len(Append(list, x)) : Append(list, x)[i] \in (a + 1)..N
    BY <2>1, <2>2, <2>3, ListGrows
  <2> QED BY <2>4, <2>5 DEF list, a
<1>6. F[d] = [tag |-> p.frames[d].tag, list |-> L]
  BY <1>2, <1>4 DEF Frame, Listed
<1>7. \A k \in 1..d : k # d => F[k] = p.frames[k]
  BY DEF Listed
<1>16. F = Listed(p, d, x)
  OBVIOUS
<1> HIDE DEF L, F
<1>8. F[d] \in Frame /\ F[d].tag = p.frames[d].tag /\ F[d].list = L
  BY <1>2, <1>4, <1>5, <1>6 DEF Frame
<1>9. \A k \in 1..d : F[k] \in Frame
  BY <1>2, <1>7, <1>8
<1>10. F \in Seq(Frame) /\ Len(F) = d
  <2>1. F \in [1..d -> Frame]
    BY <1>9, <1>16 DEF Listed
  <2> QED BY <1>1, <2>1, FunctionSeq
<1>11. FrameWhole(F[d], N)
  BY <1>3, <1>4, <1>5, <1>8 DEF FrameWhole
<1>12. \A k \in 1..d : F[k].tag = p.frames[k].tag
  BY <1>7, <1>8
<1>13. ASSUME NEW k \in 1..d
       PROVE  /\ k = 1 => F[k].tag = 0
              /\ k > 1 /\ p.dom => F[k - 1].tag < F[k].tag
  <2>1. k > 1 => k - 1 \in 1..d
    BY <1>1
  <2>2. /\ k = 1 => p.frames[k].tag = 0
        /\ k > 1 /\ p.dom => p.frames[k - 1].tag < p.frames[k].tag
    BY <1>1 DEF FramesWhole
  <2> QED BY <2>1, <2>2, <1>12
<1>14. ASSUME NEW k \in 1..d
       PROVE  /\ ToSet(F[k].list) = IF k = d THEN ToSet(p.frames[k].list) \cup {x}
                                             ELSE ToSet(p.frames[k].list)
              /\ FrameWhole(F[k], N)
  BY <1>3, <1>5, <1>7, <1>8, <1>11
<1> QED BY <1>10, <1>12, <1>13, <1>14, <1>16 DEF ListedWell

LEMMA TextNodeKeeps ==
  ASSUME NEW p, Growing(p), p.at = "doc", NEW text
  PROVE  Growing(TextNode(p, text)) /\ TextNode(p, text).dom = p.dom
<1> DEFINE N == Len(p.nodes)
           d == Len(p.frames)
           node == Node("text", text, <<>>)
           F == Listed(p, d, N + 1)
           q == [Alloc(p, node) EXCEPT !.frames[Depth(p)].list = Append(@, N + 1)]
<1>1. /\ Typed(p) /\ Whole(p) /\ N \in Nat /\ d \in Nat /\ d \in 1..d
      /\ DOMAIN p.frames = 1..d
  BY NodesLen, FramesLen DEF Growing
<1>2. CASE ~p.dom
  <2>1. TextNode(p, text) = Reduce(p, 2)
    BY <1>2 DEF TextNode
  <2>2. Same(p, Reduce(p, 2)) /\ Reduce(p, 2).at = p.at
    BY <1>1, ReduceSame
  <2> QED BY <2>1, <2>2, SameKeeps DEF Same
<1>3. CASE p.dom
  <2>1. TextNode(p, text) = q
    BY <1>3 DEF TextNode
  <2>2. /\ DOMAIN q = DOMAIN p /\ q.nodes = Append(p.nodes, node)
        /\ q.live = p.live \cup {N + 1} /\ q.root = p.root /\ q.dom = p.dom /\ q.at = p.at
    BY <1>1 DEF Alloc, Typed
  <2>3. q.frames = F
    <3> DEFINE a == Alloc(p, node)
    <3>1. a.frames = p.frames /\ "frames" \in DOMAIN a
      BY <1>1 DEF Alloc, Typed
    <3>2. q = [a EXCEPT !.frames[d].list = Append(@, N + 1)]
      BY DEF Depth
    <3> DEFINE e == [p.frames[d] EXCEPT !.list = Append(@, N + 1)]
    <3> HIDE DEF a, q
    <3>3. q.frames = [a.frames EXCEPT ![d].list = Append(@, N + 1)]
      BY <3>1, <3>2
    <3>4. q.frames = [p.frames EXCEPT ![d] = e]
      BY <3>1, <3>3
    <3>5. F = [k \in 1..d |-> IF k = d THEN e ELSE p.frames[k]]
      BY DEF Listed
    <3> HIDE DEF e, F
    <3> QED BY <3>4, <3>5, <1>1
  <2>4. /\ NodeTyped(node) /\ node.kids = <<>>
    BY EmptySeq DEF Node, NodeTyped
  <2>5. /\ N + 1 \in (p.frames[d].tag + 1)..(N + 1) /\ N + 1 \notin ToSet(p.frames[d].list)
        /\ N + 1 \in Nat /\ N + 1 >= N
    <3>1. FrameWhole(p.frames[d], N) /\ p.frames[d].tag \in Nat
      BY <1>1, FramesLen DEF Whole, FramesWhole
    <3>2. DOMAIN p.frames[d].list = 1..Len(p.frames[d].list)
      BY <1>1, FramesLen
    <3>3. \A i \in 1..Len(p.frames[d].list) : p.frames[d].list[i] # N + 1
      BY <3>1, <1>1 DEF FrameWhole
    <3> QED BY <3>1, <3>2, <3>3, <1>1 DEF FrameWhole, ToSet
  <2> HIDE DEF q, node
  <2>6. /\ F \in Seq(Frame) /\ Len(F) = d
        /\ \A k \in 1..d :
             /\ F[k].tag = p.frames[k].tag
             /\ ToSet(F[k].list) = IF k = d THEN ToSet(p.frames[k].list) \cup {N + 1}
                                            ELSE ToSet(p.frames[k].list)
             /\ FrameWhole(F[k], N + 1)
             /\ k = 1 => F[k].tag = 0
             /\ k > 1 /\ p.dom => F[k - 1].tag < F[k].tag
    <3>1. F = Listed(p, d, N + 1) /\ d \in 1..Len(p.frames) /\ N + 1 >= Len(p.nodes)
      BY <1>1, <2>5
    <3> HIDE DEF F, d, N
    <3>2. d \in 1..Len(p.frames) /\ N + 1 \in Nat /\ N + 1 \in (p.frames[d].tag + 1)..(N + 1)
      BY <2>5, <3>1
    <3>3. ListedWell(p, d, N + 1, N + 1, Listed(p, d, N + 1))
      BY <2>5, <3>1, <3>2, ListedFrames
    <3> QED BY <3>1, <3>3, Zenon DEF ListedWell
  <2> HIDE DEF F
  <2>7. Len(q.nodes) = N + 1
    <3>1. p.nodes \in Seq(ToSet(p.nodes) \cup {node})
      BY <1>1, SeqMonotonic DEF Typed
    <3> QED BY <2>2, <3>1, AppendProperties
  <2>8. FramesWhole(q)
    BY <2>2, <2>3, <2>6, <2>7 DEF FramesWhole
  <2>9. \A n \in 1..N : Framed(q, n) = Framed(p, n)
    <3> SUFFICES ASSUME NEW n \in 1..N PROVE Framed(q, n) = Framed(p, n)
      OBVIOUS
    <3>1. n # N + 1
      BY <1>1
    <3>2. \A k \in 1..d : (F[k].tag = n \/ n \in ToSet(F[k].list))
                            <=> (p.frames[k].tag = n \/ n \in ToSet(p.frames[k].list))
      BY <3>1, <2>6
    <3> QED BY <3>2, <2>3, <2>6, Zenon DEF Framed
  <2>10. Framed(q, N + 1) = {d}
    <3>1. \A k \in 1..d : p.frames[k].tag # N + 1 /\ N + 1 \notin ToSet(p.frames[k].list)
      <4> SUFFICES ASSUME NEW k \in 1..d
                   PROVE  p.frames[k].tag # N + 1 /\ N + 1 \notin ToSet(p.frames[k].list)
        OBVIOUS
      <4>1. FrameWhole(p.frames[k], N)
        BY <1>1 DEF Whole, FramesWhole
      <4>2. DOMAIN p.frames[k].list = 1..Len(p.frames[k].list)
        BY <1>1, FramesLen
      <4> QED BY <4>1, <4>2, <1>1 DEF FrameWhole, ToSet
    <3>2. \A k \in 1..d : (F[k].tag = N + 1 \/ N + 1 \in ToSet(F[k].list)) <=> k = d
      BY <3>1, <2>6, <1>1
    <3>3. \A k : k \in Framed(q, N + 1) <=> k = d
      BY <3>2, <2>3, <2>6, <1>1, Zenon DEF Framed
    <3> QED BY <3>3
  <2>11. Typed(q) /\ Whole(q)
    <3>1. \A k \in 1..Len(q.frames) :
            \/ q.frames[k].tag = N + 1
            \/ \E j \in 1..Len(p.frames) : q.frames[k].tag = p.frames[j].tag
      BY <2>3, <2>6
    <3>2. q.frames \in Seq(Frame) /\ \E x : Framed(q, N + 1) = {x}
      BY <2>3, <2>6, <2>10
    <3> QED BY <1>3, <2>2, <2>4, <2>8, <2>9, <3>1, <3>2, NewNode
  <2> QED BY <2>1, <2>2, <2>3, <2>6, <2>11 DEF Growing
<1> QED BY <1>1, <1>2, <1>3 DEF Typed

LEMMA TagBeginsKeeps ==
  ASSUME NEW p, Growing(p)
  PROVE  Growing(TagBegins(p)) /\ TagBegins(p).dom = p.dom
<1> DEFINE N == Len(p.nodes)
           d == Len(p.frames)
           node == Node("tag", <<>>, p.prots)
           a == IF p.dom THEN Alloc(p, node) ELSE p
           f == [tag |-> Len(a.nodes), list |-> <<>>]
           q == [a EXCEPT !.at = "doc", !.prots = <<>>, !.frames = Append(@, f)]
<1>1. /\ Typed(p) /\ Whole(p) /\ N \in Nat /\ d \in Nat /\ d > 0
      /\ DOMAIN p.frames = 1..d /\ p.frames \in Seq(Frame) /\ p.dom \in BOOLEAN
      /\ p.nodes \in Seq(ToSet(p.nodes)) /\ Len(p.root) = 0
  BY NodesLen, FramesLen DEF Growing, Typed
<1>2. TagBegins(p) = Reduce(q, 4)
  BY Zenon DEF TagBegins
<1>3. /\ DOMAIN q = DOMAIN p /\ q.nodes = a.nodes /\ q.live = a.live
      /\ q.root = p.root /\ q.dom = p.dom /\ q.at = "doc"
      /\ q.frames = Append(p.frames, f)
  BY <1>1 DEF Alloc, Typed
<1>4. /\ a.nodes = IF p.dom THEN Append(p.nodes, node) ELSE p.nodes
      /\ a.live = IF p.dom THEN p.live \cup {N + 1} ELSE p.live
  BY <1>1 DEF Alloc, Typed
<1>5. NodeTyped(node) /\ node.kids = <<>>
  BY EmptySeq DEF Node, NodeTyped
<1> HIDE DEF q, a, node
<1>6. Len(a.nodes) = IF p.dom THEN N + 1 ELSE N
  <2>1. p.nodes \in Seq(ToSet(p.nodes) \cup {node})
    BY <1>1, SeqMonotonic
  <2> QED BY <2>1, <1>4, AppendProperties
<1>7. f \in Frame /\ f.tag = Len(a.nodes) /\ f.list = <<>>
  BY <1>1, <1>6, EmptySeq DEF Frame
<1> HIDE DEF f
<1>8. /\ q.frames \in Seq(Frame) /\ Len(q.frames) = d + 1
      /\ \A k \in 1..d : q.frames[k] = p.frames[k]
      /\ q.frames[d + 1] = f
  BY <1>1, <1>3, <1>7, AppendProperties
<1>9. ~p.dom => N = 0
  BY <1>1 DEF Whole
<1>10. \A k \in 1..d : /\ FrameWhole(p.frames[k], N) /\ p.frames[k].tag \in 0..N
                       /\ k = 1 => p.frames[k].tag = 0
                       /\ k > 1 /\ p.dom => p.frames[k - 1].tag < p.frames[k].tag
  BY <1>1 DEF Whole, FramesWhole, FrameWhole
<1>11. FramesWhole(q)
  <2> SUFFICES ASSUME NEW k \in 1..d + 1
               PROVE  /\ FrameWhole(q.frames[k], Len(a.nodes))
                      /\ k = 1 => q.frames[k].tag = 0
                      /\ k > 1 /\ p.dom => q.frames[k - 1].tag < q.frames[k].tag
    BY <1>3, <1>8 DEF FramesWhole
  <2>1. CASE k \in 1..d
    <3>1. FrameWhole(p.frames[k], Len(a.nodes))
      BY <1>1, <1>6, <1>10, <2>1 DEF FrameWhole
    <3>2. k > 1 => q.frames[k - 1] = p.frames[k - 1]
      <4>1. k > 1 => k - 1 \in 1..d
        BY <1>1, <2>1
      <4> QED BY <4>1, <1>8
    <3>3. q.frames[k] = p.frames[k]
      BY <1>8, <2>1
    <3>4. /\ k = 1 => p.frames[k].tag = 0
          /\ k > 1 /\ p.dom => p.frames[k - 1].tag < p.frames[k].tag
      BY <1>10, <2>1
    <3> QED BY <3>1, <3>2, <3>3, <3>4
  <2>2. CASE k = d + 1
    <3>1. q.frames[k] = f /\ d \in 1..d /\ q.frames[k - 1] = p.frames[d]
      BY <1>1, <1>8, <2>2
    <3>2. FrameWhole(f, Len(a.nodes))
      BY <1>1, <1>6, <1>7, EmptySeq DEF FrameWhole, Distinct
    <3>3. p.dom => p.frames[d].tag < f.tag
      BY <1>1, <1>6, <1>7, <1>10, <3>1
    <3> QED BY <3>1, <3>2, <3>3, <2>2, <1>1
  <2> QED BY <1>1, <2>1, <2>2
<1>12. Typed(q) /\ Whole(q)
  <2>1. CASE p.dom
    <3>1. ToSet(f.list) = {}
      BY <1>7, EmptySeq DEF ToSet
    <3>2. \A n \in 1..N : Framed(q, n) = Framed(p, n)
      <4> SUFFICES ASSUME NEW n \in 1..N PROVE Framed(q, n) = Framed(p, n)
        OBVIOUS
      <4>1. f.tag # n
        BY <1>1, <1>6, <1>7, <2>1
      <4>2. \A k \in 1..d + 1 :
              (q.frames[k].tag = n \/ n \in ToSet(q.frames[k].list))
                <=> k \in 1..d /\ (p.frames[k].tag = n \/ n \in ToSet(p.frames[k].list))
        <5> SUFFICES ASSUME NEW k \in 1..d + 1
                     PROVE  (q.frames[k].tag = n \/ n \in ToSet(q.frames[k].list))
                              <=> k \in 1..d /\ (p.frames[k].tag = n \/ n \in ToSet(p.frames[k].list))
          OBVIOUS
        <5>1. CASE k \in 1..d
          <6>1. q.frames[k] = p.frames[k] BY <1>8, <5>1
          <6> QED BY <5>1, <6>1
        <5>2. CASE k = d + 1
          <6>1. q.frames[k] = f /\ k \notin 1..d BY <1>1, <1>8, <5>2
          <6> QED BY <6>1, <4>1, <3>1
        <5> QED BY <1>1, <5>1, <5>2
      <4>3. 1..d \subseteq 1..d + 1
        BY <1>1
      <4> QED BY <4>2, <4>3, <1>8, Zenon DEF Framed
    <3>3. Framed(q, N + 1) = {d + 1}
      <4>1. \A k \in 1..d : p.frames[k].tag # N + 1 /\ N + 1 \notin ToSet(p.frames[k].list)
        <5> SUFFICES ASSUME NEW k \in 1..d
                     PROVE  p.frames[k].tag # N + 1 /\ N + 1 \notin ToSet(p.frames[k].list)
          OBVIOUS
        <5>1. FrameWhole(p.frames[k], N)
          BY <1>10
        <5>2. DOMAIN p.frames[k].list = 1..Len(p.frames[k].list)
          BY <1>1, FramesLen
        <5> QED BY <5>1, <5>2, <1>1 DEF FrameWhole, ToSet
      <4>2. q.frames[d + 1].tag = N + 1
        BY <1>6, <1>7, <1>8, <2>1
      <4>3. \A k \in 1..d + 1 : (q.frames[k].tag = N + 1 \/ N + 1 \in ToSet(q.frames[k].list))
                                <=> k = d + 1
        <5> SUFFICES ASSUME NEW k \in 1..d + 1
                     PROVE  (q.frames[k].tag = N + 1 \/ N + 1 \in ToSet(q.frames[k].list))
                              <=> k = d + 1
          OBVIOUS
        <5>1. CASE k \in 1..d
          <6>1. q.frames[k] = p.frames[k] /\ k # d + 1
            BY <1>1, <1>8, <5>1
          <6> QED BY <4>1, <5>1, <6>1
        <5>2. CASE k = d + 1
          BY <4>2, <5>2
        <5> QED BY <1>1, <5>1, <5>2
      <4>4. d + 1 \in 1..d + 1
        BY <1>1
      <4> QED BY <4>3, <4>4, <1>8, Zenon DEF Framed
    <3>4. \A k \in 1..Len(q.frames) :
            \/ q.frames[k].tag = N + 1
            \/ \E j \in 1..Len(p.frames) : q.frames[k].tag = p.frames[j].tag
      <4> SUFFICES ASSUME NEW k \in 1..d + 1
                   PROVE  \/ q.frames[k].tag = N + 1
                          \/ \E j \in 1..d : q.frames[k].tag = p.frames[j].tag
        BY <1>8
      <4>1. CASE k \in 1..d
        BY <1>8, <4>1
      <4>2. CASE k = d + 1
        BY <1>6, <1>7, <1>8, <2>1, <4>2
      <4> QED BY <1>1, <4>1, <4>2
    <3>5. q.nodes = Append(p.nodes, node) /\ q.live = p.live \cup {N + 1}
      BY <1>3, <1>4, <2>1
    <3>6. \E x : Framed(q, N + 1) = {x}
      BY <3>3
    <3> QED BY <1>3, <1>5, <1>8, <1>11, <2>1, <3>2, <3>4, <3>5, <3>6, NewNode
  <2>2. CASE ~p.dom
    <3>1. /\ q.nodes = p.nodes /\ q.live = p.live /\ N = 0
      BY <1>3, <1>4, <1>9, <2>2
    <3>2. Typed(q)
      BY <1>1, <1>3, <1>8, <3>1 DEF Typed
    <3> QED BY <1>1, <1>3, <1>11, <3>1, <3>2 DEF Whole, OpenEmpty, KidsWhole, Placed
  <2> QED BY <2>1, <2>2
<1>13. Growing(q)
  BY <1>1, <1>3, <1>8, <1>12 DEF Growing
<1>14. Same(q, Reduce(q, 4)) /\ Reduce(q, 4).at = "doc"
  BY <1>3, <1>12, ReduceSame
<1>15. Growing(Reduce(q, 4))
  BY <1>13, <1>14, SameKeeps
<1> QED BY <1>2, <1>3, <1>14, <1>15 DEF Same

-----------------------------------------------------------------------------
(* Steps that put the nodes of a frame into a list.                        *)

\* A node is within one other node, or in one place elsewhere.
LEMMA OnlyPlace ==
  ASSUME NEW p, Placed(p), NEW n \in 1..Len(p.nodes), NEW k \in Framed(p, n)
  PROVE  Framed(p, n) = {k} /\ Parents(p, n) = {} /\ AtRoot(p, n) = {}
BY DEF Placed, OneOf

LEMMA FrontFrames ==
  ASSUME NEW p, Typed(p), Len(p.frames) > 1
  PROVE  /\ Front(p.frames) = [k \in 1..Len(p.frames) - 1 |-> p.frames[k]]
         /\ Front(p.frames) \in Seq(Frame) /\ Len(Front(p.frames)) = Len(p.frames) - 1
<1> DEFINE d == Len(p.frames)
<1>1. d \in Nat /\ d > 1
  BY FramesLen
<1>2. Front(p.frames) = SubSeq(p.frames, 1, d - 1)
  BY DEF Front
<1>3. \A k \in 1..d - 1 : p.frames[k] \in Frame
  <2>1. \A k \in 1..d - 1 : k \in 1..d
    BY <1>1
  <2> QED BY <2>1, FramesLen
<1>4. /\ SubSeq(p.frames, 1, d - 1) \in Seq(Frame)
      /\ Len(SubSeq(p.frames, 1, d - 1)) = d - 1
      /\ \A k \in 1..d - 1 : SubSeq(p.frames, 1, d - 1)[k] = p.frames[k]
  <2>1. /\ SubSeq(p.frames, 1, d - 1) \in Seq(Frame)
        /\ Len(SubSeq(p.frames, 1, d - 1)) = IF 1 <= d - 1 THEN d - 1 - 1 + 1 ELSE 0
        /\ \A i \in 1..d - 1 - 1 + 1 : SubSeq(p.frames, 1, d - 1)[i] = p.frames[1 + i - 1]
    <3>1. 1 \in Int /\ d - 1 \in Int
      BY <1>1
    <3> HIDE DEF d
    <3> QED BY <1>3, <3>1, SubSeqProperties
  <2>2. 1 <= d - 1 /\ d - 1 - 1 + 1 = d - 1 /\ \A i \in 1..d - 1 : 1 + i - 1 = i
    BY <1>1
  <2> QED BY <2>1, <2>2
<1> HIDE DEF d
<1>5. DOMAIN SubSeq(p.frames, 1, d - 1) = 1..d - 1
  BY <1>4, LenProperties
<1>6. SubSeq(p.frames, 1, d - 1) = [k \in 1..d - 1 |-> SubSeq(p.frames, 1, d - 1)[k]]
  BY <1>4, <1>5
<1>7. /\ Front(p.frames) = [k \in 1..d - 1 |-> p.frames[k]]
      /\ Front(p.frames) \in Seq(Frame) /\ Len(Front(p.frames)) = d - 1
  BY <1>2, <1>4, <1>6
<1> QED BY <1>7 DEF d

LEMMA TagEndsKeeps ==
  ASSUME NEW p, Growing(p), Len(p.frames) > 1, NEW c
  PROVE  Growing(TagEnds(p, c)) /\ TagEnds(p, c).dom = p.dom
<1> DEFINE N == Len(p.nodes)
           d == Len(p.frames)
           t == p.frames[d].tag
           list == p.frames[d].list
           F == Listed(p, d - 1, t)
           a == [p EXCEPT !.at = "doc", !.frames = Front(@)]
           q == IF p.dom
                THEN [a EXCEPT !.nodes[t].kids = @ \o list,
                               !.frames[d - 1].list = Append(@, t)]
                ELSE a
<1>1. /\ Typed(p) /\ Whole(p) /\ N \in Nat /\ d \in Nat /\ d > 1
      /\ DOMAIN p.frames = 1..d /\ p.frames \in Seq(Frame) /\ p.dom \in BOOLEAN
      /\ p.nodes \in Seq(ToSet(p.nodes)) /\ Len(p.root) = 0 /\ DOMAIN p.nodes = 1..N
      /\ d \in 1..d /\ d - 1 \in 1..d
      /\ t \in Nat /\ list \in Seq(Nat) /\ DOMAIN list = 1..Len(list) /\ Len(list) \in Nat
  <2>1. /\ Typed(p) /\ Whole(p) /\ p.frames \in Seq(Frame) /\ p.dom \in BOOLEAN
        /\ p.nodes \in Seq(ToSet(p.nodes)) /\ Len(p.root) = 0
    BY DEF Growing, Typed
  <2>2. N \in Nat /\ DOMAIN p.nodes = 1..N
    BY <2>1, NodesLen
  <2>3. d \in Nat /\ d > 1 /\ DOMAIN p.frames = 1..d
    BY <2>1, FramesLen
  <2>4. d \in 1..d /\ d - 1 \in 1..d
    BY <2>3
  <2>5. t \in Nat /\ list \in Seq(Nat) /\ DOMAIN list = 1..Len(list) /\ Len(list) \in Nat
    BY <2>1, <2>4, FramesLen
  <2> QED BY <2>1, <2>2, <2>3, <2>4, <2>5
<1>2. TagEnds(p, c) = Reduce(q, c)
  BY Zenon DEF TagEnds, Depth
<1>3. /\ Front(p.frames) = [k \in 1..d - 1 |-> p.frames[k]]
      /\ Front(p.frames) \in Seq(Frame) /\ Len(Front(p.frames)) = d - 1
  BY <1>1, FrontFrames
<1>4. /\ DOMAIN a = DOMAIN p /\ a.nodes = p.nodes /\ a.live = p.live
      /\ a.root = p.root /\ a.dom = p.dom /\ a.at = "doc" /\ a.frames = Front(p.frames)
  BY <1>1 DEF Typed
<1>5. /\ DOMAIN q = DOMAIN p /\ q.live = p.live /\ q.root = p.root /\ q.dom = p.dom /\ q.at = "doc"
      /\ p.dom => /\ q.nodes = [p.nodes EXCEPT ![t].kids = @ \o list]
                  /\ q.frames = [Front(p.frames) EXCEPT ![d - 1].list = Append(@, t)]
      /\ ~p.dom => q.nodes = p.nodes /\ q.frames = Front(p.frames)
  <2> HIDE DEF a, t, list, d
  <2> QED BY <1>1, <1>4 DEF Typed
<1> HIDE DEF q, a
<1>6. \A k \in 1..d : /\ FrameWhole(p.frames[k], N) /\ p.frames[k].tag \in 0..N
                      /\ k = 1 => p.frames[k].tag = 0
                      /\ k > 1 /\ p.dom => p.frames[k - 1].tag < p.frames[k].tag
                      /\ p.frames[k].tag \in Nat
                      /\ DOMAIN p.frames[k].list = 1..Len(p.frames[k].list)
  BY <1>1, FramesLen DEF Whole, FramesWhole, FrameWhole
<1>7. q.root = p.root /\ Len(q.root) = 0
  BY <1>1, <1>5, Zenon
<1>8. Typed(q) /\ Whole(q) /\ Len(q.frames) = d - 1
  <2>1. CASE p.dom
    <3>1. /\ t \in 1..N /\ p.frames[d - 1].tag < t /\ p.frames[d - 1].tag \in Nat
      BY <1>1, <1>6, <2>1
    <3>2. Framed(p, t) = {d} /\ Parents(p, t) = {} /\ AtRoot(p, t) = {}
      <4>1. d \in Framed(p, t)
        BY <1>1 DEF Framed
      <4> QED BY <1>1, <3>1, <4>1, OnlyPlace DEF Whole
    <3>3. \A k \in 1..d - 1 : p.frames[k].tag # t /\ t \notin ToSet(p.frames[k].list)
      <4>1. \A k \in 1..d - 1 : k \in 1..d /\ k # d
        BY <1>1
      <4> QED BY <3>2, <4>1 DEF Framed
    <3>4. ListedWell(p, d - 1, t, N, F)
      <4>1. t \in (p.frames[d - 1].tag + 1)..N /\ t \notin ToSet(p.frames[d - 1].list)
        <5> DEFINE x == p.frames[d - 1].tag
        <5>1. d - 1 \in 1..d - 1
          BY <1>1
        <5>2. t \notin ToSet(p.frames[d - 1].list)
          BY <3>3, <5>1
        <5>3. x \in Nat /\ x < t /\ t \in 1..N /\ N \in Nat
          BY <1>1, <3>1
        <5> HIDE DEF x, t, N
        <5>4. t \in (x + 1)..N
          BY <5>3
        <5> QED BY <5>2, <5>4 DEF x
      <4>2. d - 1 \in 1..Len(p.frames) /\ N \in Nat /\ t \in Nat /\ N >= Len(p.nodes)
        BY <1>1
      <4> HIDE DEF t, d, N
      <4> QED BY <4>1, <4>2, ListedFrames
    <3>5. q.frames = F
      <4> DEFINE e == [p.frames[d - 1] EXCEPT !.list = Append(@, t)]
                 G == Front(p.frames)
      <4>1. F = [k \in 1..d - 1 |-> IF k = d - 1 THEN e ELSE p.frames[k]]
        BY DEF Listed
      <4>2. d - 1 \in 1..d - 1 /\ G[d - 1] = p.frames[d - 1]
        BY <1>1, <1>3
      <4>3. q.frames = [G EXCEPT ![d - 1] = e]
        BY <1>5, <2>1, <4>2, Zenon
      <4>4. G = [k \in 1..d - 1 |-> p.frames[k]]
        BY <1>3
      <4> HIDE DEF e, F, G
      <4> QED BY <4>1, <4>3, <4>4, Zenon
    <3> HIDE DEF F
    <3>6. p.nodes[t].kids = <<>> /\ NodeTyped(p.nodes[t])
      BY <1>1, <3>1, Zenon DEF Whole, OpenEmpty, Typed
    <3>7. /\ DOMAIN q.nodes = 1..N /\ Len(q.nodes) = N
          /\ q.nodes \in Seq(ToSet(q.nodes))
          /\ q.nodes[t].kids = list /\ NodeTyped(q.nodes[t])
          /\ \A m \in 1..N : m # t => q.nodes[m] = p.nodes[m]
      <4> DEFINE e == [p.nodes[t] EXCEPT !.kids = @ \o list]
      <4>1. q.nodes = [p.nodes EXCEPT ![t] = e]
        BY <1>5, <2>1, Zenon
      <4>2. e.kids = list /\ NodeTyped(e)
        <5>1. <<>> \o list = list
          BY <1>1, ConcatEmptySeq
        <5> QED BY <5>1, <1>1, <3>6 DEF NodeTyped
      <4> HIDE DEF e
      <4>3. /\ DOMAIN q.nodes = 1..N /\ q.nodes[t] = e
            /\ \A m \in 1..N : m # t => q.nodes[m] = p.nodes[m]
        BY <4>1, <1>1, <3>1
      <4>4. q.nodes \in [1..N -> ToSet(q.nodes)]
        <5>1. q.nodes = [m \in 1..N |-> q.nodes[m]]
          BY <4>1, <1>1, <4>3
        <5>2. \A m \in 1..N : q.nodes[m] \in ToSet(q.nodes)
          BY <4>3 DEF ToSet
        <5> QED BY <5>1, <5>2, Zenon
      <4>5. q.nodes \in Seq(ToSet(q.nodes)) /\ Len(q.nodes) = N
        <5> HIDE DEF N
        <5> QED BY <4>4, <1>1, FunctionSeq
      <4> QED BY <4>2, <4>3, <4>5
    <3>8. Typed(q)
      <4>1. \A n \in 1..N : NodeTyped(q.nodes[n])
        BY <1>1, <3>7, Zenon DEF Typed
      <4>2. q.frames \in Seq(Frame)
        BY <3>4, <3>5 DEF ListedWell
      <4> QED BY <1>1, <1>5, <3>7, <4>1, <4>2 DEF Typed
    <3>9. FramesWhole(q)
      BY <1>5, <3>4, <3>5, <3>7, Zenon DEF ListedWell, FramesWhole
    <3>10. \A k \in 1..d - 1 : q.frames[k].tag = p.frames[k].tag
      BY <3>4, <3>5 DEF ListedWell
    <3>11. Len(q.frames) = d - 1
      BY <3>4, <3>5 DEF ListedWell
    <3>12. OpenEmpty(q)
      <4> SUFFICES ASSUME NEW k \in 1..d - 1, NEW m \in 1..N, q.frames[k].tag = m
                   PROVE  q.nodes[m].kids = <<>>
        BY <3>7, <3>11 DEF OpenEmpty
      <4>1. p.frames[k].tag = m /\ m # t /\ k \in 1..d
        <5>1. p.frames[k].tag = m
          BY <3>10
        <5>2. p.frames[k].tag # t
          BY <3>3
        <5>3. k \in 1..d
          BY <1>1
        <5> QED BY <5>1, <5>2, <5>3
      <4>2. p.nodes[m].kids = <<>>
        BY <1>1, <4>1 DEF Whole, OpenEmpty
      <4> QED BY <4>1, <4>2, <3>7
    <3>13. KidsWhole(q)
      <4> SUFFICES ASSUME NEW m \in 1..N, NEW j \in 1..Len(q.nodes[m].kids)
                   PROVE  q.nodes[m].kids[j] \in (m + 1)..N
        BY <3>7 DEF KidsWhole
      <4>1. CASE m = t
        <5>1. FrameWhole(p.frames[d], N)
          BY <1>1, <1>6
        <5> QED BY <4>1, <5>1, <3>7 DEF FrameWhole
      <4>2. CASE m # t
        <5>1. q.nodes[m] = p.nodes[m]
          BY <3>7, <4>2
        <5> QED BY <5>1, <1>1 DEF Whole, KidsWhole
      <4> QED BY <4>1, <4>2
    <3>14. ASSUME NEW n \in 1..N
           PROVE  OneOf(Parents(q, n), AtRoot(q, n), Framed(q, n))
      <4>1. AtRoot(q, n) = {}
        BY <1>7 DEF AtRoot, Positions
      <4>2. \A m : m \in Parents(q, n) <=> (IF m = t THEN n \in ToSet(list) ELSE m \in Parents(p, n))
        BY <3>1, <3>7, Zenon DEF Parents
      <4>3. \A k : k \in Framed(q, n) <=>
                     /\ k \in 1..d - 1
                     /\ k \in Framed(p, n) \/ (k = d - 1 /\ n = t)
        <5> SUFFICES ASSUME NEW k \in 1..d - 1
                     PROVE  k \in Framed(q, n) <=> k \in Framed(p, n) \/ (k = d - 1 /\ n = t)
          BY <3>11 DEF Framed
        <5>1. k \in 1..d
          BY <1>1
        <5>2. ToSet(F[k].list) = IF k = d - 1 THEN ToSet(p.frames[k].list) \cup {t}
                                              ELSE ToSet(p.frames[k].list)
          BY <3>4 DEF ListedWell
        <5>3. n \in ToSet(q.frames[k].list)
                <=> n \in ToSet(p.frames[k].list) \/ (k = d - 1 /\ n = t)
          BY <5>2, <3>5
        <5> QED BY <5>1, <5>3, <3>10, <3>11 DEF Framed
      <4>4. t \notin Parents(p, n)
        <5>1. ToSet(<<>>) = {}
          BY DEF ToSet
        <5> QED BY <5>1, <3>6 DEF Parents
      <4>5. OneOf(Parents(p, n), AtRoot(p, n), Framed(p, n))
        BY <1>1 DEF Whole, Placed
      <4>6. CASE d \in Framed(p, n)
        <5>1. Framed(p, n) = {d} /\ Parents(p, n) = {}
          BY <1>1, <4>6, OnlyPlace DEF Whole
        <5>2. n = t \/ n \in ToSet(list)
          BY <4>6 DEF Framed
        <5>3. d \notin 1..d - 1 /\ d - 1 \in 1..d - 1
          BY <1>1
        <5>4. CASE n = t
          <6>1. n \notin ToSet(list)
            <7>1. FrameWhole(p.frames[d], N)
              BY <1>1, <1>6
            <7>2. \A i \in 1..Len(list) : list[i] # t
              BY <7>1, <1>1 DEF FrameWhole
            <7> QED BY <7>2, <5>4, <1>1 DEF ToSet
          <6>2. Parents(q, n) = {}
            BY <4>2, <5>1, <6>1
          <6>3. Framed(q, n) = {d - 1}
            BY <4>3, <5>1, <5>3, <5>4
          <6> QED BY <6>2, <6>3, <4>1 DEF OneOf
        <5>5. CASE n # t
          <6>1. Parents(q, n) = {t}
            BY <4>2, <5>1, <5>2, <5>5
          <6>2. Framed(q, n) = {}
            BY <4>3, <5>1, <5>3, <5>5
          <6> QED BY <6>1, <6>2, <4>1 DEF OneOf
        <5> QED BY <5>4, <5>5
      <4>7. CASE d \notin Framed(p, n)
        <5>1. n # t /\ n \notin ToSet(list)
          BY <4>7, <1>1 DEF Framed
        <5>2. Parents(q, n) = Parents(p, n)
          BY <4>2, <4>4, <5>1
        <5>3. Framed(q, n) = Framed(p, n)
          <6>1. \A k \in Framed(p, n) : k \in 1..d - 1
            BY <4>7, <1>1 DEF Framed
          <6> QED BY <6>1, <4>3, <5>1
        <5>4. AtRoot(p, n) = {}
          BY <1>1 DEF AtRoot, Positions
        <5> QED BY <4>1, <4>5, <5>2, <5>3, <5>4
      <4> QED BY <4>6, <4>7
    <3>15. Placed(q)
      BY <1>7, <3>7, <3>14 DEF Placed
    <3> QED BY <1>1, <1>5, <2>1, <3>7, <3>8, <3>9, <3>11, <3>12, <3>13, <3>15, Zenon DEF Whole
  <2>2. CASE ~p.dom
    <3>1. N = 0 /\ q.nodes = p.nodes /\ q.frames = Front(p.frames)
      BY <1>1, <1>5, <2>2, Zenon DEF Whole
    <3>2. Typed(q)
      BY <1>1, <1>3, <1>5, <3>1 DEF Typed
    <3>3. \A k \in 1..d - 1 : q.frames[k] = p.frames[k] /\ k \in 1..d
      BY <1>1, <1>3, <3>1
    <3>4. FramesWhole(q)
      <4>1. Len(q.frames) = d - 1 /\ Len(q.nodes) = N /\ ~q.dom
        BY <1>3, <1>5, <2>2, <3>1, Zenon
      <4>2. \A k \in 1..d - 1 : FrameWhole(q.frames[k], N) /\ (k = 1 => q.frames[k].tag = 0)
        <5> TAKE k \in 1..d - 1
        <5>1. q.frames[k] = p.frames[k] /\ k \in 1..d
          BY <3>3
        <5>2. FrameWhole(p.frames[k], N) /\ (k = 1 => p.frames[k].tag = 0)
          BY <1>6, <5>1
        <5> QED BY <5>1, <5>2
      <4> QED BY <4>1, <4>2 DEF FramesWhole
    <3>5. Len(q.nodes) = 0
      BY <3>1
    <3>6. OpenEmpty(q) /\ KidsWhole(q) /\ Placed(q)
      BY <1>7, <3>5 DEF OpenEmpty, KidsWhole, Placed
    <3>7. q.live = 1..Len(q.nodes)
      BY <1>1, <1>5, <3>1, Zenon DEF Whole
    <3> QED BY <1>3, <3>1, <3>2, <3>4, <3>5, <3>6, <3>7 DEF Whole
  <2> QED BY <1>1, <2>1, <2>2
<1>9. Growing(q)
  <2>1. q.at \notin {"end_name", "end"}
    BY <1>5, Zenon
  <2>2. Len(q.frames) > 0
    <3> HIDE DEF d
    <3> QED BY <1>1, <1>8
  <2> QED BY <1>7, <1>8, <2>1, <2>2 DEF Growing
<1>10. Same(q, Reduce(q, c)) /\ Reduce(q, c).at = "doc"
  BY <1>5, <1>8, ReduceSame, Zenon
<1>11. Growing(Reduce(q, c))
  BY <1>9, <1>10, SameKeeps
<1> QED BY <1>2, <1>5, <1>10, <1>11, Zenon DEF Same

\* The positions of a node in a list without repetition.
LEMMA OnePosition ==
  ASSUME NEW list \in Seq(Nat), Distinct(list), NEW n
  PROVE  /\ n \in ToSet(list) => \E x : Positions(list, n) = {x}
         /\ n \notin ToSet(list) => Positions(list, n) = {}
<1>1. DOMAIN list = 1..Len(list)
  BY LenProperties
<1>2. ASSUME n \in ToSet(list)
      PROVE  \E x : Positions(list, n) = {x}
  <2>1. PICK x \in 1..Len(list) : list[x] = n
    BY <1>1, <1>2 DEF ToSet
  <2>2. Positions(list, n) = {x}
    BY <2>1 DEF Distinct, Positions
  <2> QED BY <2>2
<1>3. ASSUME n \notin ToSet(list)
      PROVE  Positions(list, n) = {}
  BY <1>1, <1>3 DEF ToSet, Positions
<1> QED BY <1>2, <1>3

\* The document becomes the root, if no tag is open.
LEMMA DocumentEnds ==
  ASSUME NEW p, Growing(p), Len(p.frames) = 1
  PROVE  Ended(Document(p)) /\ Whole(Document(p)) /\ Document(p).dom = p.dom
<1> DEFINE N == Len(p.nodes)
           list == p.frames[1].list
           q == [p EXCEPT !.root = @ \o p.frames[1].list, !.frames = <<>>]
<1>1. /\ Typed(p) /\ Whole(p) /\ N \in Nat /\ Len(p.root) = 0 /\ p.root \in Seq(Nat)
      /\ list \in Seq(Nat) /\ DOMAIN list = 1..Len(list)
  <2>1. Typed(p) /\ Whole(p) /\ Len(p.root) = 0 /\ p.root \in Seq(Nat)
    BY DEF Growing, Typed
  <2>2. 1 \in 1..Len(p.frames)
    OBVIOUS
  <2>3. list \in Seq(Nat) /\ DOMAIN list = 1..Len(list)
    BY <2>1, <2>2, FramesLen
  <2> QED BY <2>1, <2>3, NodesLen
<1>2. Document(p) = Reduce(q, 1)
  BY Zenon DEF Document
<1>3. p.root \o list = list
  <2>1. p.root = <<>>
    BY <1>1, EmptySeq
  <2> QED BY <1>1, <2>1, ConcatEmptySeq
<1>4. /\ DOMAIN q = DOMAIN p /\ q.nodes = p.nodes /\ q.live = p.live /\ q.dom = p.dom
      /\ q.frames = <<>> /\ q.root = list
  BY <1>1, <1>3 DEF Typed
<1> HIDE DEF q
<1>5. Len(q.frames) = 0 /\ q.frames \in Seq(Frame)
  BY <1>4, EmptySeq
<1>6. Typed(q)
  BY <1>1, <1>4, <1>5 DEF Typed
<1>7. FrameWhole(p.frames[1], N) /\ p.frames[1].tag = 0
  BY <1>1 DEF Whole, FramesWhole
<1>8. Distinct(list) /\ \A i \in 1..Len(list) : list[i] \in 1..N
  BY <1>1, <1>7 DEF FrameWhole
<1>9. ASSUME NEW n \in 1..N
      PROVE  OneOf(Parents(q, n), AtRoot(q, n), Framed(q, n))
  <2>1. Framed(q, n) = {}
    BY <1>5 DEF Framed
  <2>2. Parents(q, n) = Parents(p, n)
    BY <1>4 DEF Parents
  <2>3. AtRoot(q, n) = Positions(list, n)
    BY <1>4 DEF AtRoot, Positions
  <2>4. OneOf(Parents(p, n), AtRoot(p, n), Framed(p, n)) /\ AtRoot(p, n) = {}
    BY <1>1 DEF Whole, Placed, AtRoot, Positions
  <2>5. CASE n \in ToSet(list)
    <3>1. 1 \in Framed(p, n)
      BY <2>5, <1>1 DEF Framed
    <3>2. Parents(p, n) = {}
      BY <3>1, <1>1, OnlyPlace DEF Whole
    <3>3. \E x : AtRoot(q, n) = {x}
      <4> HIDE DEF list
      <4> QED BY <2>3, <2>5, <1>1, <1>8, OnePosition
    <3> QED BY <2>1, <2>2, <3>2, <3>3 DEF OneOf
  <2>6. CASE n \notin ToSet(list)
    <3>1. Framed(p, n) = {}
      BY <2>6, <1>1, <1>7 DEF Framed
    <3>2. AtRoot(q, n) = {}
      <4> HIDE DEF list
      <4> QED BY <2>3, <2>6, <1>1, <1>8, OnePosition
    <3> QED BY <2>1, <2>2, <2>4, <3>1, <3>2
  <2> QED BY <2>5, <2>6
<1>10. Whole(q)
  <2>1. Placed(q)
    BY <1>4, <1>8, <1>9 DEF Placed
  <2>2. FramesWhole(q) /\ OpenEmpty(q)
    BY <1>5 DEF FramesWhole, OpenEmpty
  <2>3. KidsWhole(q)
    BY <1>1, <1>4 DEF Whole, KidsWhole
  <2> QED BY <1>1, <1>4, <2>1, <2>2, <2>3 DEF Whole
<1>11. Same(q, Reduce(q, 1))
  BY <1>6, ReduceSame
<1>12. Typed(Reduce(q, 1)) /\ Whole(Reduce(q, 1)) /\ Len(Reduce(q, 1).frames) = 0
  BY <1>5, <1>6, <1>10, <1>11, SameWhole DEF Same
<1> QED BY <1>2, <1>4, <1>11, <1>12 DEF Same, Ended

-----------------------------------------------------------------------------
(* The end of the input.                                                   *)

LEMMA IntoWhole ==
  ASSUME NEW p, Growing(p), NEW k \in 1..Len(p.frames)
  PROVE  /\ Into(p, k) \in Seq(Nat) /\ Distinct(Into(p, k))
         /\ \A i \in 1..Len(Into(p, k)) : Into(p, k)[i] \in (p.frames[k].tag + 1)..Len(p.nodes)
         /\ ToSet(Into(p, k)) = ToSet(p.frames[k].list) \cup
              (IF p.dom /\ k < Len(p.frames) THEN {p.frames[k + 1].tag} ELSE {})
<1> DEFINE N == Len(p.nodes)
           d == Len(p.frames)
           list == p.frames[k].list
           t == p.frames[k].tag
           x == p.frames[k + 1].tag
<1>1. /\ Typed(p) /\ Whole(p) /\ N \in Nat /\ d \in Nat
      /\ list \in Seq(Nat) /\ t \in Nat /\ DOMAIN list = 1..Len(list)
  BY NodesLen, FramesLen DEF Growing
<1>2. FrameWhole(p.frames[k], N)
  BY <1>1 DEF Whole, FramesWhole
<1>3. CASE p.dom /\ k < d
  <2>1. k + 1 \in 1..d /\ k + 1 > 1 /\ (k + 1) - 1 = k
    BY <1>1, <1>3
  <2>2. x \in Nat /\ x \in 0..N /\ t < x
    <3>1. x \in Nat
      BY <1>1, <2>1, FramesLen
    <3>2. FrameWhole(p.frames[k + 1], N)
      BY <1>1, <2>1 DEF Whole, FramesWhole
    <3>3. p.frames[(k + 1) - 1].tag < p.frames[k + 1].tag
      BY <1>1, <1>3, <2>1 DEF Whole, FramesWhole
    <3> QED BY <3>1, <3>2, <3>3, <2>1 DEF FrameWhole
  <2>3. x \notin ToSet(list)
    <3>1. k + 1 \in Framed(p, x) /\ x \in 1..N
      <4>1. k + 1 \in Framed(p, x)
        BY <2>1 DEF Framed
      <4>2. x \in 1..N
        <5> HIDE DEF x, t, N
        <5> QED BY <2>2, <1>1
      <4> QED BY <4>1, <4>2
    <3>2. Framed(p, x) = {k + 1}
      BY <3>1, <1>1, OnlyPlace DEF Whole
    <3>3. k # k + 1
      BY <1>1
    <3> QED BY <3>2, <3>3 DEF Framed
  <2>4. Into(p, k) = list \o <<x>>
    BY <1>3 DEF Into, Depth
  <2>5. Distinct(list) /\ \A i \in 1..Len(list) : list[i] \in (t + 1)..N
    BY <1>2 DEF FrameWhole
  <2>6. x \in (t + 1)..N
    BY <1>1, <2>2
  <2> HIDE DEF list, x, t, N
  <2>7. Into(p, k) = Append(list, x)
    BY <1>1, <2>2, <2>4, AppendIsConcat
  <2>8. ToSet(Append(list, x)) = ToSet(list) \cup {x}
    BY <1>1, <2>2, ToSetAppend
  <2>9. /\ Append(list, x) \in Seq(Nat) /\ Distinct(Append(list, x))
        /\ \A i \in 1..Len(Append(list, x)) : Append(list, x)[i] \in (t + 1)..N
    BY <1>1, <2>2, <2>3, <2>5, <2>6, ListGrows
  <2> QED BY <1>3, <2>7, <2>8, <2>9 DEF list, x, t, N
<1>4. CASE ~(p.dom /\ k < d)
  <2>1. Into(p, k) = list
    BY <1>1, <1>4, ConcatEmptySeq DEF Into, Depth
  <2> QED BY <1>1, <1>2, <1>4, <2>1 DEF FrameWhole
<1> QED BY <1>3, <1>4

\* The tags that are open are in different frames.
LEMMA OpenOnce ==
  ASSUME NEW p, Growing(p), NEW m \in 1..Len(p.nodes), NEW k \in OpenAs(p, m)
  PROVE  OpenAs(p, m) = {k} /\ NewKids(p, m) = Into(p, k) /\ k \in 1..Len(p.frames)
<1>1. \A j \in OpenAs(p, m) : j \in Framed(p, m) /\ j \in 1..Len(p.frames)
  BY DEF OpenAs, Framed, Depth
<1>2. Framed(p, m) = {k}
  BY <1>1, OnlyPlace DEF Growing, Whole
<1>3. OpenAs(p, m) = {k}
  BY <1>1, <1>2
<1>4. (CHOOSE j \in OpenAs(p, m) : TRUE) = k
  BY <1>3
<1> QED BY <1>1, <1>3, <1>4 DEF NewKids

\* What the nodes have within them at the end.
LEMMA NewKidsWhole ==
  ASSUME NEW p, Growing(p), NEW m \in 1..Len(p.nodes), NEW s, s = p.nodes[m].kids \o NewKids(p, m)
  PROVE  /\ s \in Seq(Nat)
         /\ \A j \in 1..Len(s) : s[j] \in (m + 1)..Len(p.nodes)
         /\ \A n : n \in ToSet(s) <=> ComesWithin(p, m, n)
<1>1. /\ Typed(p) /\ Whole(p) /\ p.nodes[m].kids \in Seq(Nat)
  BY NodesLen DEF Growing
<1>2. CASE OpenAs(p, m) = {}
  <2>1. s = p.nodes[m].kids
    BY <1>1, <1>2, ConcatEmptySeq DEF NewKids
  <2>2. ~ \E k \in 1..Len(p.frames) : p.frames[k].tag = m
    BY <1>2 DEF OpenAs, Depth
  <2>3. \A j \in 1..Len(s) : s[j] \in (m + 1)..Len(p.nodes)
    BY <1>1, <2>1 DEF Whole, KidsWhole
  <2> QED BY <1>1, <2>1, <2>2, <2>3 DEF ComesWithin
<1>3. ASSUME NEW k \in OpenAs(p, m)
      PROVE  /\ s \in Seq(Nat)
             /\ \A j \in 1..Len(s) : s[j] \in (m + 1)..Len(p.nodes)
             /\ \A n : n \in ToSet(s) <=> ComesWithin(p, m, n)
  <2>1. OpenAs(p, m) = {k} /\ NewKids(p, m) = Into(p, k) /\ k \in 1..Len(p.frames)
    BY OpenOnce
  <2>2. p.frames[k].tag = m
    BY DEF OpenAs
  <2>3. p.nodes[m].kids = <<>>
    BY <1>1, <2>1, <2>2 DEF Whole, OpenEmpty
  <2>4. /\ Into(p, k) \in Seq(Nat)
        /\ \A i \in 1..Len(Into(p, k)) : Into(p, k)[i] \in (p.frames[k].tag + 1)..Len(p.nodes)
    BY <2>1, IntoWhole
  <2>5. s = Into(p, k)
    BY <2>1, <2>3, <2>4, ConcatEmptySeq
  <2>6. ToSet(p.nodes[m].kids) = {}
    BY <2>3 DEF ToSet
  <2>7. \A i \in 1..Len(p.frames) : p.frames[i].tag = m => i = k
    BY <2>1 DEF OpenAs, Depth
  <2>8. ASSUME NEW n
        PROVE  n \in ToSet(s) <=> ComesWithin(p, m, n)
    BY <2>1, <2>2, <2>5, <2>6, <2>7, Zenon DEF ComesWithin
  <2> QED BY <2>2, <2>4, <2>5, <2>8
<1> QED BY <1>2, <1>3

\* A node on the stack goes into one list, and no other does.
LEMMA IntoOnce ==
  ASSUME NEW p, Growing(p), p.dom, NEW n \in 1..Len(p.nodes)
  PROVE  \/ /\ Framed(p, n) = {}
            /\ \A k \in 1..Len(p.frames) : n \notin ToSet(Into(p, k))
         \/ /\ Parents(p, n) = {}
            /\ \E i \in 1..Len(p.frames) :
                 \A k \in 1..Len(p.frames) : n \in ToSet(Into(p, k)) <=> k = i
<1> DEFINE N == Len(p.nodes)
           d == Len(p.frames)
           In(k) == n \in ToSet(Into(p, k))
<1>1. /\ Typed(p) /\ Whole(p) /\ N \in Nat /\ d \in Nat
  BY NodesLen, FramesLen DEF Growing
<1>2. ASSUME NEW k \in 1..d
      PROVE  In(k) <=> n \in ToSet(p.frames[k].list) \/ (k < d /\ n = p.frames[k + 1].tag)
  <2>1. ToSet(Into(p, k)) = ToSet(p.frames[k].list) \cup
              (IF p.dom /\ k < Len(p.frames) THEN {p.frames[k + 1].tag} ELSE {})
    BY IntoWhole
  <2> QED BY <2>1
<1>3. \A k \in 1..d : k < d => k + 1 \in 1..d
  BY <1>1
<1>4. \A k \in 1..d : k \in Framed(p, n) <=> p.frames[k].tag = n \/ n \in ToSet(p.frames[k].list)
  BY DEF Framed
<1>5. CASE Framed(p, n) = {}
  <2>1. \A k \in 1..d : ~In(k)
    BY <1>2, <1>3, <1>4, <1>5
  <2> QED BY <1>5, <2>1
<1>6. ASSUME NEW j \in Framed(p, n)
      PROVE  /\ Parents(p, n) = {}
             /\ \E i \in 1..d : \A k \in 1..d : In(k) <=> k = i
  <2>1. Framed(p, n) = {j} /\ Parents(p, n) = {} /\ j \in 1..d
    BY <1>1, <1>6, OnlyPlace DEF Whole, Framed
  <2>2. p.frames[j].tag = n => n \notin ToSet(p.frames[j].list)
    <3>1. FrameWhole(p.frames[j], N)
      BY <1>1, <2>1 DEF Whole, FramesWhole
    <3>2. DOMAIN p.frames[j].list = 1..Len(p.frames[j].list) /\ p.frames[j].tag \in Nat
      BY <1>1, <2>1, FramesLen
    <3>3. \A i \in 1..Len(p.frames[j].list) : p.frames[j].list[i] # p.frames[j].tag
      BY <3>1, <3>2 DEF FrameWhole
    <3> QED BY <3>2, <3>3 DEF ToSet
  <2>3. \A k \in 1..d : n \in ToSet(p.frames[k].list) => k = j
    BY <1>4, <2>1
  <2>4. \A k \in 1..d : k < d /\ n = p.frames[k + 1].tag => k + 1 = j
    BY <1>3, <1>4, <2>1
  <2>5. CASE n \in ToSet(p.frames[j].list)
    <3>1. \A k \in 1..d : In(k) <=> k = j
      <4>1. \A k \in 1..d : ~(k < d /\ n = p.frames[k + 1].tag)
        BY <2>2, <2>4, <2>5
      <4>2. \A k \in 1..d : In(k) <=> n \in ToSet(p.frames[k].list)
        BY <4>1, <1>2
      <4> HIDE DEF In
      <4> QED BY <4>2, <2>1, <2>3, <2>5
    <3> HIDE DEF In
    <3> QED BY <2>1, <3>1
  <2>6. CASE p.frames[j].tag = n
    <3>1. j # 1
      <4>1. j = 1 => p.frames[j].tag = 0
        BY <1>1, <2>1 DEF Whole, FramesWhole
      <4> QED BY <4>1, <2>6
    <3>2. j - 1 \in 1..d /\ j - 1 < d /\ (j - 1) + 1 = j
      BY <3>1, <2>1, <1>1
    <3>3. \A k \in 1..d : n \notin ToSet(p.frames[k].list)
      BY <2>2, <2>3, <2>6
    <3>4. \A k \in 1..d : k + 1 = j => k = j - 1
      BY <2>1, <1>1
    <3>5. \A k \in 1..d : In(k) <=> k = j - 1
      <4>1. In(j - 1)
        BY <1>2, <3>2, <2>6
      <4>2. \A k \in 1..d : In(k) => k = j - 1
        BY <1>2, <2>4, <3>3, <3>4
      <4> HIDE DEF In
      <4> QED BY <4>1, <4>2
    <3> HIDE DEF In
    <3> QED BY <2>1, <3>2, <3>5
  <2> QED BY <2>1, <2>5, <2>6, <1>4
<1> QED BY <1>5, <1>6

LEMMA EndInputIs ==
  ASSUME NEW p, Growing(p)
  PROVE  \E s : EndsAs(p, s)
<1> DEFINE N == Len(p.nodes)
           d == Len(p.frames)
           all == [k \in 1..Depth(p) |->
                     p.frames[k].list \o
                       (IF p.dom /\ k < Depth(p) THEN <<p.frames[k + 1].tag>> ELSE <<>>)]
           open(n) == {k \in 1..Depth(p) : p.frames[k].tag = n}
           kids == [n \in DOMAIN p.nodes |->
                      IF open(n) = {} THEN <<>> ELSE all[CHOOSE k \in open(n) : TRUE]]
           q == [p EXCEPT !.at = "doc",
                          !.nodes = [n \in DOMAIN p.nodes |->
                                       [p.nodes[n] EXCEPT !.kids = @ \o kids[n]]],
                          !.frames[1].list = all[1]]
           r == Reduce(q, 4 * (Depth(p) - 1))
           s == [r EXCEPT !.root = @ \o r.frames[1].list, !.frames = <<>>]
<1>1. /\ Typed(p) /\ Whole(p) /\ N \in Nat /\ d \in Nat /\ Len(p.root) = 0 /\ 1 \in 1..d
      /\ p.dom \in BOOLEAN /\ DOMAIN p.nodes = 1..N /\ DOMAIN p.frames = 1..d /\ p.root = <<>>
  <2>1. /\ Typed(p) /\ Whole(p) /\ Len(p.root) = 0 /\ p.dom \in BOOLEAN /\ p.root \in Seq(Nat)
    BY DEF Growing, Typed
  <2>2. N \in Nat /\ d \in Nat /\ DOMAIN p.nodes = 1..N /\ DOMAIN p.frames = 1..d
    BY <2>1, NodesLen, FramesLen
  <2>3. 1 \in 1..d
    BY <2>2 DEF Growing
  <2>4. p.root = <<>>
    BY <2>1, EmptySeq
  <2> QED BY <2>1, <2>2, <2>3, <2>4
<1>2. EndInput(p) = [parser |-> Reduce(s, 1), out |-> "accepted"]
  BY Zenon DEF EndInput, Document
<1>3. all[1] = Into(p, 1) /\ \A n \in 1..N : kids[n] = NewKids(p, n)
  <2>1. \A k \in 1..d : all[k] = Into(p, k)
    BY Zenon DEF Into, Depth
  <2>2. ASSUME NEW n \in 1..N PROVE kids[n] = NewKids(p, n)
    <3>1. open(n) = OpenAs(p, n)
      BY DEF OpenAs
    <3>2. kids[n] = IF open(n) = {} THEN <<>> ELSE all[CHOOSE k \in open(n) : TRUE]
      BY <1>1, Zenon
    <3>3. CASE open(n) = {}
      BY <3>1, <3>2, <3>3, Zenon DEF NewKids
    <3>4. CASE open(n) # {}
      <4>1. (CHOOSE k \in open(n) : TRUE) \in open(n)
        BY <3>4
      <4>2. (CHOOSE k \in open(n) : TRUE) \in 1..d
        BY <4>1 DEF Depth
      <4> HIDE DEF all, open, kids
      <4> QED BY <2>1, <3>1, <3>2, <3>4, <4>2 DEF NewKids
    <3> QED BY <3>3, <3>4, Zenon
  <2> QED BY <1>1, <2>1, <2>2, Zenon
<1> HIDE DEF all, kids, open
<1>4. /\ DOMAIN q = DOMAIN p /\ q.live = p.live /\ q.root = p.root /\ q.dom = p.dom
      /\ q.reduced = p.reduced
      /\ q.nodes = [n \in 1..N |-> [p.nodes[n] EXCEPT !.kids = @ \o kids[n]]]
      /\ q.frames[1].list = all[1]
  <2>1. q.frames = [p.frames EXCEPT ![1].list = all[1]]
    BY <1>1 DEF Typed
  <2>2. "list" \in DOMAIN p.frames[1]
    <3>1. p.frames[1] \in Frame
      BY <1>1, FramesLen
    <3> QED BY <3>1 DEF Frame
  <2>3. q.frames[1].list = all[1]
    <3> HIDE DEF q
    <3> QED BY <2>1, <2>2, <1>1
  <2> QED BY <1>1, <2>3 DEF Typed
<1>5. Same(q, r) /\ r.reduced = IF p.dom THEN p.reduced ELSE p.reduced + 4 * (d - 1)
  <2> HIDE DEF q
  <2>1. Same(q, r)
    BY <1>4 DEF Reduce, Same, Typed
  <2>2. r.reduced = IF p.dom THEN p.reduced ELSE p.reduced + 4 * (Depth(p) - 1)
    <3> DEFINE m == 4 * (Depth(p) - 1)
    <3>1. r = Reduce(q, m)
      OBVIOUS
    <3>2. "reduced" \in DOMAIN q
      BY <1>1, <1>4 DEF Typed
    <3> HIDE DEF m, r
    <3>3. r.reduced = IF p.dom THEN p.reduced ELSE p.reduced + m
      BY <1>4, <3>1, <3>2 DEF Reduce
    <3> QED BY <3>3 DEF m
  <2> QED BY <2>1, <2>2 DEF Depth
<1>6. /\ DOMAIN s = DOMAIN p /\ s.live = p.live /\ s.dom = p.dom
      /\ s.reduced = r.reduced
      /\ s.nodes = [n \in 1..N |-> [p.nodes[n] EXCEPT !.kids = @ \o kids[n]]]
      /\ s.frames = <<>> /\ s.root = Into(p, 1)
  <2>1. /\ Into(p, 1) \in Seq(Nat) /\ p.root \o Into(p, 1) = Into(p, 1)
    BY <1>1, IntoWhole, ConcatEmptySeq
  <2>2. /\ DOMAIN r = DOMAIN p /\ r.live = p.live /\ r.root = p.root /\ r.dom = p.dom
        /\ r.nodes = [n \in 1..N |-> [p.nodes[n] EXCEPT !.kids = @ \o kids[n]]]
        /\ r.frames[1].list = Into(p, 1)
    <3> HIDE DEF q, r
    <3> QED BY <1>3, <1>4, <1>5 DEF Same
  <2> HIDE DEF r
  <2> QED BY <1>1, <2>1, <2>2 DEF Typed
<1> HIDE DEF s, r, q
<1>7. ASSUME NEW n \in 1..N
      PROVE  /\ NodeTyped(s.nodes[n])
             /\ s.nodes[n].kids = p.nodes[n].kids \o NewKids(p, n)
             /\ s.nodes[n].kind = p.nodes[n].kind
             /\ s.nodes[n].text = p.nodes[n].text
             /\ s.nodes[n].prots = p.nodes[n].prots
  <2>1. s.nodes[n] = [p.nodes[n] EXCEPT !.kids = @ \o kids[n]]
    BY <1>6
  <2>2. NodeTyped(p.nodes[n])
    BY <1>1 DEF Typed
  <2>3. p.nodes[n].kids \o NewKids(p, n) \in Seq(Nat)
    BY NewKidsWhole
  <2>4. kids[n] = NewKids(p, n)
    BY <1>3
  <2> DEFINE m == p.nodes[n]
             k == NewKids(p, n)
  <2>5. s.nodes[n] = [m EXCEPT !.kids = m.kids \o k]
    BY <2>1, <2>4
  <2>6. NodeTyped(m) /\ m.kids \o k \in Seq(Nat)
    BY <2>2, <2>3
  <2> HIDE DEF m, k
  <2>7. DOMAIN m = {"kind", "text", "prots", "kids"}
    BY <2>6 DEF NodeTyped
  <2>8. /\ s.nodes[n].kids = m.kids \o k /\ DOMAIN s.nodes[n] = DOMAIN m
        /\ s.nodes[n].kind = m.kind /\ s.nodes[n].text = m.text /\ s.nodes[n].prots = m.prots
    BY <2>5, <2>7
  <2>9. NodeTyped(s.nodes[n])
    BY <2>6, <2>7, <2>8 DEF NodeTyped
  <2> QED BY <2>8, <2>9 DEF m, k
<1>8. s.nodes = [n \in 1..N |-> s.nodes[n]]
  BY <1>6
<1>9. s.reduced = IF p.dom THEN p.reduced ELSE p.reduced + 4 * (d - 1)
  BY <1>5, <1>6
<1>10. EndsAs(p, s)
  BY <1>2, <1>6, <1>7, <1>8, <1>9, Zenon DEF EndsAs
<1> QED BY <1>10

LEMMA EndInputEnds ==
  ASSUME NEW p, Growing(p)
  PROVE  /\ Ended(EndInput(p).parser) /\ EndInput(p).parser.dom = p.dom
         /\ EndInput(p).out = "accepted"
<1> DEFINE N == Len(p.nodes)
           d == Len(p.frames)
<1>1. /\ Typed(p) /\ Whole(p) /\ N \in Nat /\ d \in Nat /\ Len(p.root) = 0 /\ 1 \in 1..d
      /\ p.dom \in BOOLEAN /\ DOMAIN p.nodes = 1..N /\ DOMAIN p.frames = 1..d /\ p.root = <<>>
  <2>1. /\ Typed(p) /\ Whole(p) /\ Len(p.root) = 0 /\ p.dom \in BOOLEAN /\ p.root \in Seq(Nat)
    BY DEF Growing, Typed
  <2>2. N \in Nat /\ d \in Nat /\ DOMAIN p.nodes = 1..N /\ DOMAIN p.frames = 1..d
    BY <2>1, NodesLen, FramesLen
  <2>3. 1 \in 1..d
    BY <2>2 DEF Growing
  <2>4. p.root = <<>>
    BY <2>1, EmptySeq
  <2> QED BY <2>1, <2>2, <2>3, <2>4
<1>2. PICK s : EndsAs(p, s)
  BY EndInputIs
<1>3. EndInput(p) = [parser |-> Reduce(s, 1), out |-> "accepted"]
  BY <1>2 DEF EndsAs
<1>4. /\ DOMAIN s = DOMAIN p /\ s.live = p.live /\ s.dom = p.dom
      /\ s.nodes = [n \in 1..N |-> s.nodes[n]]
      /\ s.frames = <<>> /\ s.root = Into(p, 1)
  BY <1>2 DEF EndsAs
<1>5. \A n \in 1..N : /\ NodeTyped(s.nodes[n])
                      /\ s.nodes[n].kids = p.nodes[n].kids \o NewKids(p, n)
  BY <1>2 DEF EndsAs
<1>6. Len(s.nodes) = N /\ s.nodes \in Seq(ToSet(s.nodes)) /\ DOMAIN s.nodes = 1..N
  <2>1. s.nodes = [n \in 1..N |-> s.nodes[n]] /\ DOMAIN s.nodes = 1..N
    BY <1>4
  <2>2. \A n \in 1..N : s.nodes[n] \in ToSet(s.nodes)
    BY <2>1 DEF ToSet
  <2>3. s.nodes \in [1..N -> ToSet(s.nodes)]
    BY <2>1, <2>2, Zenon
  <2> HIDE DEF N
  <2> QED BY <1>1, <2>1, <2>3, FunctionSeq
<1>7. /\ Into(p, 1) \in Seq(Nat) /\ Distinct(Into(p, 1))
      /\ \A i \in 1..Len(Into(p, 1)) : Into(p, 1)[i] \in 1..N
  <2>1. p.frames[1].tag = 0
    BY <1>1 DEF Whole, FramesWhole
  <2>2. /\ Into(p, 1) \in Seq(Nat) /\ Distinct(Into(p, 1))
        /\ \A i \in 1..Len(Into(p, 1)) : Into(p, 1)[i] \in (p.frames[1].tag + 1)..Len(p.nodes)
    BY <1>1, IntoWhole
  <2> QED BY <2>1, <2>2
<1>8. Len(s.frames) = 0 /\ s.frames \in Seq(Frame)
  BY <1>4, EmptySeq
<1>9. Typed(s)
  BY <1>1, <1>4, <1>5, <1>6, <1>7, <1>8 DEF Typed
<1>10. KidsWhole(s)
  <2> SUFFICES ASSUME NEW m \in 1..N, NEW j \in 1..Len(s.nodes[m].kids)
               PROVE  s.nodes[m].kids[j] \in (m + 1)..N
    BY <1>6 DEF KidsWhole
  <2> QED BY <1>5, NewKidsWhole
<1>11. FramesWhole(s) /\ OpenEmpty(s)
  BY <1>8 DEF FramesWhole, OpenEmpty
<1>12. ASSUME NEW n \in 1..N
       PROVE  OneOf(Parents(s, n), AtRoot(s, n), Framed(s, n))
  <2>1. p.dom
    BY <1>1 DEF Whole
  <2>2. Framed(s, n) = {}
    BY <1>8 DEF Framed
  <2>3. AtRoot(s, n) = Positions(Into(p, 1), n)
    BY <1>4 DEF AtRoot
  <2>4. \A m : m \in Parents(s, n) <=> m \in 1..N /\ ComesWithin(p, m, n)
    <3> SUFFICES ASSUME NEW m \in 1..N
                 PROVE  n \in ToSet(s.nodes[m].kids) <=> ComesWithin(p, m, n)
      BY <1>6, Zenon DEF Parents
    <3>1. s.nodes[m].kids = p.nodes[m].kids \o NewKids(p, m)
      BY <1>5
    <3> QED BY <3>1, NewKidsWhole
  <2>5. \A m : m \in Parents(p, n) <=> m \in 1..N /\ n \in ToSet(p.nodes[m].kids)
    BY DEF Parents
  <2>6. CASE Framed(p, n) = {} /\ \A k \in 1..d : n \notin ToSet(Into(p, k))
    <3>1. AtRoot(s, n) = {}
      BY <1>1, <1>7, <2>3, <2>6, OnePosition
    <3>2. Parents(s, n) = Parents(p, n)
      <4>1. \A m \in 1..N : ComesWithin(p, m, n) <=> n \in ToSet(p.nodes[m].kids)
        BY <2>6 DEF ComesWithin
      <4> QED BY <2>4, <2>5, <4>1
    <3>3. OneOf(Parents(p, n), AtRoot(p, n), Framed(p, n)) /\ AtRoot(p, n) = {}
      BY <1>1 DEF Whole, Placed, AtRoot, Positions
    <3> QED BY <2>2, <2>6, <3>1, <3>2, <3>3
  <2>7. ASSUME Parents(p, n) = {}, NEW i \in 1..d,
               \A k \in 1..d : n \in ToSet(Into(p, k)) <=> k = i
        PROVE  OneOf(Parents(s, n), AtRoot(s, n), Framed(s, n))
    <3>1. \A m : m \in Parents(s, n) <=> m \in 1..N /\ p.frames[i].tag = m
      <4>1. \A m \in 1..N : ComesWithin(p, m, n) <=> p.frames[i].tag = m
        BY <2>5, <2>7 DEF ComesWithin
      <4> QED BY <2>4, <4>1
    <3>2. CASE i = 1
      <4>1. \E x : AtRoot(s, n) = {x}
        <5>1. n \in ToSet(Into(p, 1))
          BY <1>1, <2>7, <3>2
        <5> QED BY <5>1, <1>7, <2>3, OnePosition
      <4>2. p.frames[1].tag = 0
        BY <1>1 DEF Whole, FramesWhole
      <4>3. Parents(s, n) = {}
        BY <3>1, <3>2, <4>2
      <4> QED BY <2>2, <4>1, <4>3 DEF OneOf
    <3>3. CASE i # 1
      <4>1. AtRoot(s, n) = {}
        BY <1>1, <1>7, <2>3, <2>7, <3>3, OnePosition
      <4>2. p.frames[i].tag \in 1..N
        <5>1. i - 1 \in 1..d /\ i > 1
          BY <1>1, <3>3
        <5>2. p.frames[i - 1].tag < p.frames[i].tag
          BY <1>1, <2>1, <5>1 DEF Whole, FramesWhole
        <5>3. FrameWhole(p.frames[i], N) /\ p.frames[i - 1].tag \in Nat
          BY <1>1, <5>1, FramesLen DEF Whole, FramesWhole
        <5> QED BY <5>2, <5>3, <1>1 DEF FrameWhole
      <4>3. Parents(s, n) = {p.frames[i].tag}
        BY <3>1, <4>2
      <4> QED BY <2>2, <4>1, <4>3 DEF OneOf
    <3> QED BY <3>2, <3>3
  <2> QED BY <2>1, <2>6, <2>7, IntoOnce
<1>13. Placed(s)
  BY <1>4, <1>6, <1>7, <1>12 DEF Placed
<1>14. Whole(s)
  BY <1>1, <1>4, <1>6, <1>10, <1>11, <1>13 DEF Whole
<1>15. Same(s, Reduce(s, 1))
  BY <1>9, ReduceSame
<1>16. Typed(Reduce(s, 1)) /\ Whole(Reduce(s, 1)) /\ Len(Reduce(s, 1).frames) = 0
  BY <1>8, <1>9, <1>14, <1>15, SameWhole DEF Same
<1> QED BY <1>3, <1>4, <1>15, <1>16 DEF Same, Ended

-----------------------------------------------------------------------------
(* Tokens.                                                                 *)

LEMMA OnResult ==
  ASSUME NEW p, NEW q, Growing(q), q.dom = p.dom
  PROVE  Result(p, On(q))
BY DEF Result, On

LEMMA EmptyList ==
  ASSUME NEW S, NEW list \in Seq(S), Len(list) = 0
  PROVE  list = <<>> /\ ToSet(list) = {} /\ \A p : Subtrees(p, list) = {}
<1>1. list = <<>>
  BY EmptySeq
<1>2. ToSet(list) = {}
  BY <1>1 DEF ToSet
<1> QED BY <1>1, <1>2 DEF Subtrees

\* An error frees all that is on the stack, which are all nodes.
LEMMA RefuseGrowing ==
  ASSUME NEW p, Growing(p)
  PROVE  Result(p, Refuse(p))
<1> DEFINE q == [p EXCEPT !.frames = <<>>, !.live = @ \ OnStack(p)]
<1>1. Typed(p) /\ Whole(p) /\ Len(p.root) = 0 /\ p.root \in Seq(Nat)
  BY DEF Growing, Typed
<1>2. OnStack(p) = p.live
  BY <1>1, EmptyList, AllReached DEF Whole
<1>3. /\ DOMAIN q = DOMAIN p /\ q.nodes = p.nodes /\ q.root = p.root /\ q.dom = p.dom
      /\ q.frames = <<>> /\ q.live = {}
  BY <1>1, <1>2 DEF Typed
<1>4. Refuse(p) = [parser |-> q, out |-> "refused"]
  BY DEF Refuse
<1> HIDE DEF q
<1>5. Len(q.frames) = 0 /\ q.frames \in Seq(Frame)
  BY <1>3, EmptySeq
<1>6. Bare(q)
  BY <1>1, <1>3, <1>5 DEF Bare, Typed
<1> QED BY <1>3, <1>4, <1>6 DEF Result, Ended, Bare

LEMMA RefuseDocument ==
  ASSUME NEW p, Growing(p), Len(p.frames) = 1
  PROVE  Result(p, Refuse(Document(p)))
<1> DEFINE e == Document(p)
           q == [e EXCEPT !.frames = <<>>, !.live = @ \ OnStack(e)]
<1>1. Ended(e) /\ Typed(e) /\ Whole(e) /\ e.dom = p.dom
  BY DocumentEnds DEF Ended
<1>2. Refuse(e) = [parser |-> q, out |-> "refused"]
  BY DEF Refuse
<1> HIDE DEF e
<1>3. e.frames = <<>> /\ OnStack(e) = {}
  <2>1. Len(e.frames) = 0 /\ e.frames \in Seq(Frame)
    BY <1>1 DEF Ended, Typed
  <2>2. e.frames = <<>> /\ ToSet(e.frames) = {}
    BY <2>1, EmptyList
  <2> QED BY <2>2 DEF OnStack
<1>4. Same(e, q)
  BY <1>1, <1>3 DEF Same, Typed
<1> HIDE DEF q
<1>5. Typed(q) /\ Whole(q) /\ Len(q.frames) = 0 /\ q.dom = p.dom
  BY <1>1, <1>4, SameWhole DEF Same, Ended
<1> QED BY <1>2, <1>5 DEF Result, Ended, e

LEMMA InTagResult ==
  ASSUME NEW p, Growing(p), NEW type
  PROVE  Result(p, InTag(p, type))
<1>1. CASE type = "PROT"
  <2>1. Same(p, NameRead(p, "prot")) /\ NameRead(p, "prot").at = "prot"
    BY NameReadSame DEF Growing
  <2>2. Growing(NameRead(p, "prot")) /\ NameRead(p, "prot").dom = p.dom
    BY <2>1, SameKeeps DEF Same
  <2>3. InTag(p, type) = On(NameRead(p, "prot"))
    BY <1>1 DEF InTag, TagEndFlags
  <2> QED BY <2>2, <2>3, OnResult
<1>2. CASE type \in TagEndFlags
  <2>1. InTag(p, type) = On(TagBegins(p))
    BY <1>2 DEF InTag, TagEndFlags
  <2> QED BY <2>1, TagBeginsKeeps, OnResult
<1>3. CASE type # "PROT" /\ type \notin TagEndFlags
  <2>1. InTag(p, type) = Refuse(p)
    BY <1>3 DEF InTag
  <2> QED BY <2>1, RefuseGrowing
<1> QED BY <1>1, <1>2, <1>3

\* Whatever the token, the nodes stay whole, or the parser has ended.
LEMMA PushResult ==
  ASSUME NEW p, Growing(p), NEW type, NEW text
  PROVE  Result(p, Push(p, type, text))
<1>1. Typed(p) /\ Len(p.frames) \in Nat /\ Len(p.frames) > 0
  BY FramesLen DEF Growing
<1>2. CASE p.at = "doc"
  <2>1. CASE type = "TEXT"
    <3>1. Push(p, type, text) = On(TextNode(p, text))
      BY <1>2, <2>1 DEF Push
    <3> QED BY <1>2, <3>1, TextNodeKeeps, OnResult
  <2>2. CASE type = "TAG_START_FLAG"
    <3> DEFINE q == [p EXCEPT !.at = "name"]
    <3>1. Push(p, type, text) = On(q)
      BY <1>2, <2>2 DEF Push
    <3>2. Same(p, q) /\ q.at = "name"
      BY <1>1, AtSame
    <3>3. Growing(q) /\ q.dom = p.dom
      <4> HIDE DEF q
      <4> QED BY <3>2, SameKeeps DEF Same
    <3> QED BY <3>1, <3>3, OnResult
  <2>3. CASE type = "TAG_START_FLAG2" /\ Len(p.frames) > 1
    <3> DEFINE q == [p EXCEPT !.at = "end_name"]
    <3>1. Push(p, type, text) = On(q)
      <4>1. Len(p.frames) > 1 /\ Len(p.frames) # 1
        BY <1>1, <2>3, GrowingDepth
      <4> QED BY <4>1, <1>2, <2>3 DEF Push, Depth
    <3>2. Same(p, q) /\ q.at = "end_name"
      BY <1>1, AtSame
    <3>3. Growing(q) /\ q.dom = p.dom
      <4> HIDE DEF q
      <4> QED BY <2>3, <3>2, SameKeeps DEF Same
    <3> QED BY <3>1, <3>3, OnResult
  <2>4. CASE type = "TAG_START_FLAG2" /\ Len(p.frames) = 1
    <3>1. Push(p, type, text) = Refuse(Document(p))
      BY <1>1, <1>2, <2>4 DEF Push, Depth
    <3> QED BY <2>4, <3>1, RefuseDocument
  <2>5. CASE type \in {"EOF", "BAD"}
    <3>1. Push(p, type, text) = EndInput(p)
      BY <1>2, <2>5 DEF Push
    <3> QED BY <3>1, EndInputEnds DEF Result
  <2>6. CASE type \notin {"TEXT", "TAG_START_FLAG", "TAG_START_FLAG2", "EOF", "BAD"}
    <3>1. Push(p, type, text) = Refuse(p)
      BY <1>2, <2>6 DEF Push
    <3> QED BY <3>1, RefuseGrowing
  <2>7. Len(p.frames) > 1 \/ Len(p.frames) = 1
    BY <1>1, GrowingDepth
  <2> QED BY <2>1, <2>2, <2>3, <2>4, <2>5, <2>6, <2>7
<1>3. CASE p.at = "name" /\ type = "TAG_NAME"
  <2> DEFINE q == NameRead(p, "prots")
  <2>1. Push(p, type, text) = On(Reduce(q, 2))
    BY <1>3 DEF Push
  <2>2. Same(p, q) /\ q.at = "prots"
    BY <1>1, NameReadSame
  <2> HIDE DEF q
  <2>3. Growing(q) /\ q.dom = p.dom
    BY <2>2, SameKeeps DEF Same
  <2>4. Same(q, Reduce(q, 2)) /\ Reduce(q, 2).at = "prots"
    BY <2>2, <2>3, ReduceSame DEF Growing
  <2>5. Growing(Reduce(q, 2)) /\ Reduce(q, 2).dom = p.dom
    BY <2>3, <2>4, SameKeeps DEF Same
  <2> QED BY <2>1, <2>5, OnResult
<1>4. CASE p.at = "prots"
  <2>1. Push(p, type, text) = InTag(p, type)
    BY <1>4 DEF Push
  <2> QED BY <2>1, InTagResult
<1>5. CASE p.at = "prot" /\ type = "EQUAL"
  <2> DEFINE q == [p EXCEPT !.at = "value"]
  <2>1. Push(p, type, text) = On(q)
    BY <1>5 DEF Push
  <2>2. Same(p, q) /\ q.at = "value"
    BY <1>1, AtSame
  <2>3. Growing(q) /\ q.dom = p.dom
    <3> HIDE DEF q
    <3> QED BY <2>2, SameKeeps DEF Same
  <2> QED BY <2>1, <2>3, OnResult
<1>6. CASE p.at = "prot" /\ type # "EQUAL"
  <2> DEFINE q == ProtEnds(p, <<>>)
  <2>1. Push(p, type, text) = InTag(q, type)
    BY <1>6 DEF Push
  <2>2. Same(p, q) /\ q.at = "prot"
    BY <1>1, <1>6, ProtEndsSame
  <2> HIDE DEF q
  <2>3. Growing(q) /\ q.dom = p.dom
    BY <2>2, SameKeeps DEF Same
  <2>4. Result(q, InTag(q, type))
    BY <2>3, InTagResult
  <2> QED BY <2>1, <2>3, <2>4 DEF Result
<1>7. CASE p.at = "value" /\ type = "TEXT"
  <2> DEFINE q == ProtEnds(p, <<text>>)
             r == [q EXCEPT !.at = "prots"]
  <2>1. Push(p, type, text) = On(r)
    BY <1>7 DEF Push
  <2>2. Same(p, q) /\ q.at = "value"
    BY <1>1, <1>7, ProtEndsSame
  <2> HIDE DEF q
  <2>3. Growing(q) /\ q.dom = p.dom
    BY <2>2, SameKeeps DEF Same
  <2>4. Same(q, r) /\ r.at = "prots"
    BY <2>3, AtSame DEF Growing
  <2> HIDE DEF r
  <2>5. Growing(r) /\ r.dom = p.dom
    BY <2>3, <2>4, SameKeeps DEF Same
  <2> QED BY <2>1, <2>5, OnResult
<1>8. CASE p.at = "end_name" /\ type = "TAG_NAME"
  <2> DEFINE q == NameRead(p, "end")
  <2>1. Push(p, type, text) = On(q)
    BY <1>8 DEF Push
  <2>2. Same(p, q) /\ q.at = "end"
    BY <1>1, NameReadSame
  <2> HIDE DEF q
  <2>3. Growing(q) /\ q.dom = p.dom
    BY <1>8, <2>2, SameKeeps DEF Same, Growing
  <2> QED BY <2>1, <2>3, OnResult
<1>9. CASE p.at = "end" /\ type \in TagEndFlags
  <2>1. Push(p, type, text) = On(TagEnds(p, 4))
    BY <1>9 DEF Push
  <2>2. Len(p.frames) > 1
    BY <1>9 DEF Growing
  <2> QED BY <2>1, <2>2, TagEndsKeeps, OnResult
<1>10. CASE /\ p.at # "doc" /\ p.at # "prots" /\ p.at # "prot"
            /\ ~(p.at = "name" /\ type = "TAG_NAME")
            /\ ~(p.at = "value" /\ type = "TEXT")
            /\ ~(p.at = "end_name" /\ type = "TAG_NAME")
            /\ ~(p.at = "end" /\ type \in TagEndFlags)
  <2>1. Push(p, type, text) = Refuse(p)
    BY <1>10 DEF Push
  <2> QED BY <2>1, RefuseGrowing
<1> QED BY <1>2, <1>3, <1>4, <1>5, <1>6, <1>7, <1>8, <1>9, <1>10

-----------------------------------------------------------------------------
(* Sessions.                                                               *)

LEMMA FreshGrowing ==
  ASSUME NEW dom \in BOOLEAN
  PROVE  Growing(FreshParser(dom)) /\ FreshParser(dom).dom = dom
<1> DEFINE p == FreshParser(dom)
           f == [tag |-> 0, list |-> <<>>]
<1>1. /\ DOMAIN p = {"at", "frames", "prots", "nodes", "live", "root", "dom", "reduced"}
      /\ p.at = "doc" /\ p.frames = <<f>> /\ p.nodes = <<>> /\ p.live = {}
      /\ p.root = <<>> /\ p.dom = dom
  BY DEF FreshParser
<1> HIDE DEF p
<1>2. f \in Frame /\ f.tag = 0 /\ Len(f.list) = 0
  BY EmptySeq DEF Frame
<1> HIDE DEF f
<1>3. p.frames \in Seq(Frame) /\ Len(p.frames) = 1 /\ p.frames[1] = f
  BY <1>1, <1>2
<1>4. /\ Len(p.nodes) = 0 /\ p.nodes \in Seq(ToSet(p.nodes))
      /\ Len(p.root) = 0 /\ p.root \in Seq(Nat)
  BY <1>1, EmptySeq
<1>5. Typed(p)
  BY <1>1, <1>3, <1>4 DEF Typed
<1>6. FrameWhole(f, 0)
  BY <1>2 DEF FrameWhole, Distinct
<1>7. FramesWhole(p)
  <2>1. \A k \in 1..Len(p.frames) : k = 1
    BY <1>3
  <2> QED BY <2>1, <1>2, <1>3, <1>4, <1>6 DEF FramesWhole
<1>8. OpenEmpty(p) /\ KidsWhole(p) /\ Placed(p)
  BY <1>4 DEF OpenEmpty, KidsWhole, Placed
<1>9. Whole(p)
  BY <1>1, <1>4, <1>7, <1>8 DEF Whole
<1>10. Growing(p)
  BY <1>1, <1>3, <1>4, <1>5, <1>9 DEF Growing
<1> QED BY <1>1, <1>10 DEF p

LEMMA InitInv == Init => Inv
<1> SUFFICES ASSUME Init PROVE Inv
  OBVIOUS
<1>1. /\ parser = FreshParser(~IsCheck) /\ status = "idle" /\ last = FALSE
      /\ (~IsCheck) \in BOOLEAN
  <2>1. parser = FreshParser(~IsCheck) /\ status = "idle" /\ last = FALSE
    BY Zenon DEF Init
  <2>2. (~IsCheck) \in BOOLEAN
    OBVIOUS
  <2> QED BY <2>1, <2>2
<1>2. Growing(parser) /\ parser.dom = ~IsCheck
  BY <1>1, FreshGrowing
<1> QED BY <1>1, <1>2 DEF Inv

\* A parser that ended without a tree has no nodes.
LEMMA EndedPlain ==
  ASSUME NEW p, Ended(p), ~p.dom
  PROVE  Bare(p)
<1>1. CASE Bare(p)
  BY <1>1
<1>2. CASE Whole(p)
  <2>1. Typed(p) /\ Len(p.frames) = 0 /\ Len(p.nodes) = 0 /\ p.root \in Seq(Nat)
    BY <1>2 DEF Ended, Whole, Typed
  <2>2. p.live = {}
    BY <1>2, <2>1 DEF Whole
  <2>3. Len(p.root) = 0
    <3>1. \A i \in 1..Len(p.root) : p.root[i] \in 1..0
      BY <1>2, <2>1 DEF Whole, Placed
    <3>2. Len(p.root) \in Nat
      BY <2>1, LenProperties
    <3> QED BY <3>1, <3>2
  <2> QED BY <2>1, <2>2, <2>3 DEF Bare
<1> QED BY <1>1, <1>2 DEF Ended

LEMMA DestroyInv ==
  ASSUME Inv, Destroy
  PROVE  Inv'
<1> DEFINE p == parser
           q == Destroyed(parser)
<1>1. /\ status \in {"idle", "accepted", "refused"} /\ status' = "gone" /\ parser' = q
      /\ last' = last /\ job' = job /\ ~IsCheck
  BY DEF Destroy
<1>2. Typed(p)
  BY <1>1 DEF Inv, Growing, Ended
<1>3. /\ DOMAIN q = DOMAIN p /\ q.nodes = p.nodes /\ q.frames = p.frames /\ q.dom = p.dom
      /\ q.live = p.live \ Subtrees(p, p.root) /\ q.root = <<>>
  BY <1>2 DEF Destroyed, Typed
<1>4. Len(q.root) = 0 /\ q.root \in Seq(Nat)
  BY <1>3, EmptySeq
<1> HIDE DEF q, p
<1>5. Typed(q)
  BY <1>2, <1>3, <1>4 DEF Typed
<1>6. CASE status = "idle"
  <2>1. Growing(p) /\ ~last
    BY <1>6 DEF Inv, p
  <2>2. p.root = <<>> /\ Subtrees(p, p.root) = {}
    BY <2>1, EmptyList DEF Growing, Typed
  <2>3. Same(p, q)
    BY <1>3, <2>2 DEF Same
  <2>4. Growing(q)
    <3>1. q.at = p.at
      BY <1>2 DEF q, p, Destroyed, Typed
    <3> QED BY <2>1, <2>3, <3>1, SameKeeps DEF Growing
  <2> QED BY <1>1, <2>1, <2>4 DEF Inv, IsCheck
<1>7. CASE status # "idle"
  <2>1. Ended(p)
    BY <1>1, <1>7 DEF Inv, p
  <2>2. q.live = {}
    <3>1. CASE p.live = {}
      BY <1>3, <3>1
    <3>2. CASE Whole(p)
      <4>1. p.frames \in Seq(Frame) /\ Len(p.frames) = 0
        BY <1>2, <2>1 DEF Ended, Typed
      <4>2. OnStack(p) = {}
        BY <4>1, EmptyList DEF OnStack
      <4>3. Subtrees(p, p.root) = p.live
        BY <1>2, <3>2, <4>2, AllReached DEF Whole
      <4> QED BY <1>3, <4>3
    <3> QED BY <2>1, <3>1, <3>2 DEF Ended, Bare
  <2>3. Bare(q)
    BY <1>3, <1>4, <1>5, <2>1, <2>2 DEF Bare, Ended
  <2> QED BY <1>1, <2>3 DEF Inv, IsCheck
<1> QED BY <1>6, <1>7

LEMMA PushInv ==
  ASSUME Inv, status = "call", NEW type, NEW text, NEW r, r = Push(parser, type, text),
         parser' = r.parser, status' = IF r.out = "more" THEN "call" ELSE r.out,
         job' = job
  PROVE  Inv'
<1>1. Result(parser, r)
  BY PushResult DEF Inv
<1>2. CASE r.out = "more"
  BY <1>1, <1>2 DEF Result, Inv, IsCheck
<1>3. CASE r.out # "more"
  BY <1>1, <1>3 DEF Result, Inv, IsCheck
<1> QED BY <1>2, <1>3

LEMMA TokenInv ==
  ASSUME Inv, Token
  PROVE  Inv'
<1>1. PICK m \in {LongestMatch(lex, buf)} :
        /\ Lex(m)
        /\ \E r \in {Push(parser, m.token, m.text)} :
             /\ parser' = r.parser
             /\ status' = IF r.out = "more" THEN "call" ELSE r.out
  BY Zenon DEF Token
<1>2. PICK r \in {Push(parser, m.token, m.text)} :
        /\ parser' = r.parser
        /\ status' = IF r.out = "more" THEN "call" ELSE r.out
  BY <1>1
<1>3. r = Push(parser, m.token, m.text) /\ status = "call" /\ job' = job
  BY <1>1, <1>2 DEF Token, Lex
<1> QED BY <1>2, <1>3, PushInv

LEMMA EndOfInputInv ==
  ASSUME Inv, EndOfInput
  PROVE  Inv'
<1>1. PICK r \in {Push(parser, "EOF", <<>>)} : parser' = r.parser /\ status' = r.out
  BY Zenon DEF EndOfInput
<1>2. r = Push(parser, "EOF", <<>>) /\ status = "call" /\ job' = job /\ last' = last /\ last
  BY <1>1 DEF EndOfInput
<1>3. Result(parser, r)
  BY <1>2, PushResult DEF Inv
<1>4. status' \in {"more", "accepted", "refused"} /\ parser'.dom = parser.dom
  BY <1>1, <1>3 DEF Result
<1>5. r.out # "more"
  <2>1. parser.at = "doc" => Push(parser, "EOF", <<>>) = EndInput(parser)
    BY DEF Push
  <2>2. parser.at # "doc" => r.out # "more"
    BY <1>2 DEF Push, InTag, TagEndFlags, Refuse
  <2>3. EndInput(parser).out = "accepted"
    BY <1>2, EndInputEnds DEF Inv
  <2> QED BY <1>2, <2>1, <2>2, <2>3
<1> QED BY <1>1, <1>2, <1>3, <1>4, <1>5 DEF Result, Inv, IsCheck

LEMMA CheckInv ==
  ASSUME Inv, Trained \/ Checked
  PROVE  Inv'
<1>1. IsCheck /\ status \in {"accepted", "refused"} /\ job' = job
  BY DEF Trained, Checked
<1>2. Bare(parser)
  BY <1>1, EndedPlain DEF Inv
<1>3. CASE UNCHANGED <<parser, last>> /\ status' = "gone"
  BY <1>1, <1>2, <1>3 DEF Inv, IsCheck
<1>4. CASE parser' = FreshParser(FALSE) /\ last' = FALSE /\ status' = "idle"
  <2>1. Growing(FreshParser(FALSE)) /\ FreshParser(FALSE).dom = FALSE
    BY FreshGrowing
  <2> QED BY <1>1, <1>4, <2>1 DEF Inv, IsCheck
<1>5. \/ UNCHANGED <<parser, last>> /\ status' = "gone"
      \/ parser' = FreshParser(FALSE) /\ last' = FALSE /\ status' = "idle"
  BY Zenon DEF Trained, Checked, NewWork
<1> QED BY <1>3, <1>4, <1>5, Zenon

LEMMA NextInv == Inv /\ [Next]_vars => Inv'
<1> SUFFICES ASSUME Inv, [Next]_vars PROVE Inv'
  OBVIOUS
<1>1. ASSUME NEW n, NEW l, Feed(n, l) PROVE Inv'
  <2>1. status = "idle" /\ status' = "call" /\ parser' = parser /\ job' = job
    BY <1>1 DEF Feed
  <2> QED BY <2>1 DEF Inv, IsCheck
<1>2. CASE Suspend
  <2>1. status = "call" /\ status' = "idle" /\ ~last' /\ parser' = parser /\ job' = job
    BY <1>2 DEF Suspend
  <2> QED BY <2>1 DEF Inv, IsCheck
<1>3. CASE Eat
  <2>1. status = "call" /\ status' = "call" /\ parser' = parser /\ job' = job
    BY <1>3 DEF Eat, Lex
  <2> QED BY <2>1 DEF Inv, IsCheck
<1>4. CASE Token
  BY <1>4, TokenInv
<1>5. CASE PutBack
  <2>1. /\ status = "call" /\ status' \in {"crashed", "call"}
        /\ parser' = parser /\ job' = job
    BY <1>5 DEF PutBack
  <2> QED BY <2>1 DEF Inv, IsCheck
<1>6. CASE EndOfInput
  BY <1>6, EndOfInputInv
<1>7. CASE Destroy
  BY <1>7, DestroyInv
<1>8. CASE Trained \/ Checked
  BY <1>8, CheckInv
<1>9. CASE UNCHANGED vars
  <2>1. status' = status /\ parser' = parser /\ job' = job /\ last' = last
    BY <1>9 DEF vars
  <2> QED BY <2>1 DEF Inv, IsCheck
<1> QED BY <1>1, <1>2, <1>3, <1>4, <1>5, <1>6, <1>7, <1>8, <1>9 DEF Next

-----------------------------------------------------------------------------
(* The nodes.                                                              *)

LEMMA OneCounted ==
  ASSUME NEW A, NEW B, NEW C, OneOf(A, B, C)
  PROVE  Cardinality(A) + Cardinality(B) + Cardinality(C) = 1
<1>1. PICK x : \/ A = {x} /\ B = {} /\ C = {}
               \/ A = {} /\ B = {x} /\ C = {}
               \/ A = {} /\ B = {} /\ C = {x}
  BY DEF OneOf
<1>2. Cardinality({x}) = 1 /\ Cardinality({}) = 0
  BY FS_Singleton, FS_EmptySet
<1> QED BY <1>1, <1>2

LEMMA WholeCounted ==
  ASSUME NEW p, Typed(p), Whole(p)
  PROVE  Counted(p)
<1>1. p.live = 1..Len(p.nodes) /\ p.live = Subtrees(p, p.root) \cup OnStack(p)
  BY AllReached DEF Whole
<1>2. DOMAIN p.root = 1..Len(p.root) /\ DOMAIN p.frames = 1..Len(p.frames)
  <2>1. p.root \in Seq(Nat)
    BY DEF Typed
  <2> QED BY <2>1, FramesLen, LenProperties
<1>3. ASSUME NEW n \in p.live
      PROVE  Cardinality({m \in p.live : n \in ToSet(p.nodes[m].kids)})
               + Cardinality({i \in DOMAIN p.root : p.root[i] = n})
               + Cardinality({i \in DOMAIN p.frames :
                                \/ p.frames[i].tag = n
                                \/ n \in ToSet(p.frames[i].list)}) = 1
  <2>1. /\ {m \in p.live : n \in ToSet(p.nodes[m].kids)} = Parents(p, n)
        /\ {i \in DOMAIN p.root : p.root[i] = n} = AtRoot(p, n)
        /\ {i \in DOMAIN p.frames : \/ p.frames[i].tag = n
                                    \/ n \in ToSet(p.frames[i].list)} = Framed(p, n)
    BY <1>1, <1>2 DEF Parents, AtRoot, Positions, Framed
  <2>2. OneOf(Parents(p, n), AtRoot(p, n), Framed(p, n))
    BY <1>1 DEF Whole, Placed
  <2>3. Cardinality(Parents(p, n)) + Cardinality(AtRoot(p, n)) + Cardinality(Framed(p, n)) = 1
    BY <2>2, OneCounted
  <2> QED BY <2>1, <2>3
<1> QED BY <1>1, <1>3 DEF Counted

LEMMA BareCounted ==
  ASSUME NEW p, Bare(p)
  PROVE  Counted(p)
<1>1. /\ p.frames \in Seq(Frame) /\ Len(p.frames) = 0
      /\ p.root \in Seq(Nat) /\ Len(p.root) = 0 /\ p.live = {}
  BY DEF Bare, Typed
<1>2. Subtrees(p, p.root) = {} /\ OnStack(p) = {}
  BY <1>1, EmptyList DEF OnStack
<1> QED BY <1>1, <1>2 DEF Counted

LEMMA InvCounted == Inv => NodesAccounted
<1> SUFFICES ASSUME Inv, status # "crashed"
             PROVE  Counted(parser) /\ (status = "gone" /\ last => parser.live = {})
  BY Zenon DEF NodesAccounted, Counted
<1>1. \/ Growing(parser) \/ Ended(parser) \/ Bare(parser)
  BY DEF Inv
<1>2. Counted(parser)
  BY <1>1, WholeCounted, BareCounted DEF Growing, Ended
<1>3. status = "gone" /\ last => parser.live = {}
  BY DEF Inv, Bare
<1> QED BY <1>2, <1>3

\* Whatever the page, its cuts and the point at which the work is destroyed, and
\* whatever the arguments of a check: a node that is allocated and not freed is in
\* exactly one place of the tree or of the parser's stack, what is freed is all that
\* is left, and a work whose last piece has come leaves no node behind.
THEOREM NodesAlwaysAccounted == Spec => []NodesAccounted
<1>1. Init => Inv
  BY InitInv
<1>2. Inv /\ [Next]_vars => Inv'
  BY NextInv
<1>3. Inv => NodesAccounted
  BY InvCounted
<1> QED BY <1>1, <1>2, <1>3, PTL DEF Spec

-----------------------------------------------------------------------------
(* The tree of the first c items.                                          *)

LEMMA RecursionExists ==
  ASSUME NEW S, NEW b \in S, NEW n \in Nat, NEW g \in [Nat \X S -> S]
  PROVE  \E f \in [0..n -> S] : Recursive(f, b, g, n)
<1> DEFINE T == {k \in Nat : \E f \in [0..k -> S] : Recursive(f, b, g, k)}
<1>1. 0 \in T
  <2> DEFINE f == [i \in 0..0 |-> b]
  <2>1. f \in [0..0 -> S] /\ Recursive(f, b, g, 0)
    BY DEF Recursive
  <2> QED BY <2>1, Zenon
<1>2. ASSUME NEW k \in T PROVE k + 1 \in T
  <2>1. PICK f \in [0..k -> S] : Recursive(f, b, g, k)
    OBVIOUS
  <2> DEFINE h == [i \in 0..k + 1 |-> IF i <= k THEN f[i] ELSE g[<<i, f[i - 1]>>]]
  <2>2. h \in [0..k + 1 -> S]
    <3> SUFFICES ASSUME NEW i \in 0..k + 1
                 PROVE  (IF i <= k THEN f[i] ELSE g[<<i, f[i - 1]>>]) \in S
      OBVIOUS
    <3>1. CASE i <= k  BY <3>1
    <3>2. CASE i = k + 1
      <4>1. i - 1 \in 0..k /\ i \in Nat BY <3>2
      <4>2. f[i - 1] \in S BY <4>1
      <4> QED BY <3>2, <4>1, <4>2
    <3> QED BY <3>1, <3>2
  <2>3. Recursive(h, b, g, k + 1)
    <3>1. h[0] = b BY <2>1 DEF Recursive
    <3>2. ASSUME NEW i \in 1..k + 1 PROVE h[i] = g[<<i, h[i - 1]>>]
      <4>1. i - 1 \in 0..k /\ i - 1 <= k /\ i - 1 \in 0..k + 1 OBVIOUS
      <4>2. h[i - 1] = f[i - 1] BY <4>1
      <4>3. CASE i <= k
        <5>1. i \in 1..k /\ h[i] = f[i] BY <4>3
        <5> QED BY <4>2, <5>1, <2>1 DEF Recursive
      <4>4. CASE i = k + 1
        <5>1. h[i] = g[<<i, f[i - 1]>>] BY <4>4
        <5> QED BY <5>1, <4>2
      <4> QED BY <4>3, <4>4
    <3> QED BY <3>1, <3>2 DEF Recursive
  <2>4. k + 1 \in Nat OBVIOUS
  <2> HIDE DEF h
  <2> QED BY <2>2, <2>3, <2>4, Zenon
<1> HIDE DEF T
<1>3. T = Nat
  <2>1. T \in SUBSET Nat BY DEF T
  <2> QED BY <1>1, <1>2, <2>1, SetInduction
<1>4. n \in T
  BY <1>3
<1> QED BY <1>4 DEF T

LEMMA SumsAre ==
  ASSUME NEW S \in Seq(Nat)
  PROVE  SumsOf(Sums(S), S)
<1> DEFINE g == [p \in Nat \X Nat |-> IF p[1] \in 1..Len(S) THEN p[2] + S[p[1]] ELSE p[2]]
           Eq(f) == f = [k \in 0..Len(S) |-> IF k = 0 THEN 0 ELSE f[k - 1] + S[k]]
           sum == CHOOSE f : Eq(f)
<1>1. g \in [Nat \X Nat -> Nat]
  <2> SUFFICES ASSUME NEW i \in Nat, NEW x \in Nat, i \in 1..Len(S) PROVE x + S[i] \in Nat
    OBVIOUS
  <2>1. S[i] \in Nat BY ElementOfSeq
  <2> QED BY <2>1
<1>2. Len(S) \in Nat OBVIOUS
<1> HIDE DEF g
<1>3. PICK f \in [0..Len(S) -> Nat] : Recursive(f, 0, g, Len(S))
  BY <1>1, <1>2, RecursionExists
<1>4. \A k \in 1..Len(S) : f[k] = f[k - 1] + S[k]
  <2> SUFFICES ASSUME NEW k \in 1..Len(S) PROVE f[k] = f[k - 1] + S[k]
    OBVIOUS
  <2>1. f[k] = g[<<k, f[k - 1]>>] BY <1>3 DEF Recursive
  <2>2. f[k - 1] \in Nat /\ k \in Nat
    <3>1. k - 1 \in 0..Len(S) /\ k \in Nat BY <1>2
    <3> QED BY <3>1, <1>3
  <2>3. g[<<k, f[k - 1]>>] = f[k - 1] + S[k] BY <2>2 DEF g
  <2> QED BY <2>1, <2>3
<1>5. f[0] = 0 BY <1>3 DEF Recursive
<1>6. Eq(f)
  <2>1. \A k \in 0..Len(S) : f[k] = IF k = 0 THEN 0 ELSE f[k - 1] + S[k]
    BY <1>2, <1>4, <1>5
  <2>2. f = [k \in 0..Len(S) |-> f[k]] BY <1>3
  <2> QED BY <2>1, <2>2
<1>7. Eq(sum)
  <2> HIDE DEF Eq
  <2> QED BY <1>6, Zenon
<1>8. Sums(S) = sum
  BY Zenon DEF Sums
<1> DEFINE U == {k \in Nat : k <= Len(S) => sum[k] = f[k]}
<1> HIDE DEF sum
<1>9. 0 \in U
  <2>1. sum[0] = 0 BY <1>2, <1>7
  <2> QED BY <2>1, <1>5
<1>10. ASSUME NEW k \in U PROVE k + 1 \in U
  <2> SUFFICES ASSUME k + 1 <= Len(S) PROVE sum[k + 1] = f[k + 1]
    OBVIOUS
  <2>1. k + 1 \in 1..Len(S) /\ k + 1 \in 0..Len(S) /\ k + 1 # 0 /\ (k + 1) - 1 = k /\ sum[k] = f[k]
    BY <1>2
  <2>2. sum[k + 1] = sum[k] + S[k + 1] BY <1>7, <2>1
  <2>3. f[k + 1] = f[k] + S[k + 1] BY <1>4, <2>1
  <2> QED BY <2>1, <2>2, <2>3
<1>11. U = Nat
  <2> HIDE DEF U
  <2>1. U \in SUBSET Nat BY DEF U
  <2> QED BY <1>9, <1>10, <2>1, SetInduction
<1>12. \A k \in 0..Len(S) : sum[k] = f[k]
  BY <1>2, <1>11
<1>13. sum = f
  <2>1. sum = [k \in 0..Len(S) |-> sum[k]] BY <1>7, Zenon
  <2>2. f = [k \in 0..Len(S) |-> f[k]] BY <1>3
  <2> QED BY <1>12, <2>1, <2>2, Zenon
<1>14. SumsOf(f, S)
  BY <1>3, <1>4, <1>5 DEF SumsOf
<1> QED BY <1>8, <1>13, <1>14

\* Sums do not decrease.
LEMMA SumsGrow ==
  ASSUME NEW S \in Seq(Nat), NEW f, SumsOf(f, S), NEW j \in 0..Len(S), NEW k \in j..Len(S)
  PROVE  f[j] <= f[k]
<1> DEFINE U == {i \in Nat : i <= k - j => f[j] <= f[j + i]}
<1>1. Len(S) \in Nat /\ j \in Nat /\ k \in Nat /\ j <= k /\ k <= Len(S)
  BY LenProperties
<1>2. 0 \in U
  <2>1. f[j] \in Nat BY <1>1 DEF SumsOf
  <2> QED BY <1>1, <2>1
<1>3. ASSUME NEW i \in U PROVE i + 1 \in U
  <2> SUFFICES ASSUME i + 1 <= k - j PROVE f[j] <= f[j + (i + 1)]
    OBVIOUS
  <2>1. i \in Nat /\ j + (i + 1) \in 1..Len(S) /\ (j + (i + 1)) - 1 = j + i /\ j + i \in 0..Len(S)
        /\ f[j] <= f[j + i]
    BY <1>1
  <2>2. f[j + (i + 1)] = f[j + i] + S[j + (i + 1)] BY <2>1 DEF SumsOf
  <2>3. S[j + (i + 1)] \in Nat BY <2>1, ElementOfSeq
  <2>4. f[j + i] \in Nat /\ f[j] \in Nat BY <2>1 DEF SumsOf
  <2> HIDE DEF U
  <2> QED BY <2>1, <2>2, <2>3, <2>4
<1>4. U = Nat
  <2> HIDE DEF U
  <2>1. U \in SUBSET Nat BY DEF U
  <2> QED BY <1>2, <1>3, <2>1, SetInduction
<1>5. k - j \in U
  <2>1. k - j \in Nat BY <1>1
  <2> HIDE DEF U
  <2> QED BY <1>4, <2>1
<1>6. j + (k - j) = k /\ k - j <= k - j
  BY <1>1
<1> QED BY <1>5, <1>6

LEMMA Concat ==
  ASSUME NEW S, NEW s \in Seq(S), NEW t \in Seq(S)
  PROVE  Joins(S, s \o t, s, t)
<1>1. /\ s \o t \in Seq(S) /\ Len(s \o t) = Len(s) + Len(t)
      /\ Len(s) \in Nat /\ Len(t) \in Nat
      /\ \A i \in 1..Len(s) + Len(t) : (s \o t)[i] = IF i <= Len(s) THEN s[i] ELSE t[i - Len(s)]
  BY ConcatProperties, LenProperties
<1>2. \A i \in 1..Len(s) : i \in 1..Len(s) + Len(t) /\ i <= Len(s)
  BY <1>1
<1>3. \A i \in 1..Len(t) : /\ Len(s) + i \in 1..Len(s) + Len(t)
                           /\ ~(Len(s) + i <= Len(s)) /\ (Len(s) + i) - Len(s) = i
  BY <1>1
<1> QED BY <1>1, <1>2, <1>3 DEF Joins

-----------------------------------------------------------------------------
(* Strings written one after the other.                                    *)

LEMMA FlatteningExists ==
  ASSUME NEW S, NEW s \in Seq(Seq(S))
  PROVE  \E f : IsFlattening(f, s, S)
<1> DEFINE g == [p \in Nat \X Seq(S) |->
                   IF p[1] \in 1..Len(s) THEN p[2] \o s[p[1]] ELSE p[2]]
<1>1. g \in [Nat \X Seq(S) -> Seq(S)]
  <2> SUFFICES ASSUME NEW i \in Nat, NEW x \in Seq(S), i \in 1..Len(s) PROVE x \o s[i] \in Seq(S)
    OBVIOUS
  <2>1. s[i] \in Seq(S) BY ElementOfSeq
  <2> QED BY <2>1
<1>2. Len(s) \in Nat /\ <<>> \in Seq(S) OBVIOUS
<1> HIDE DEF g
<1>3. PICK f \in [0..Len(s) -> Seq(S)] : Recursive(f, <<>>, g, Len(s))
  BY <1>1, <1>2, RecursionExists
<1>4. \A i \in 1..Len(s) : f[i] = f[i - 1] \o s[i]
  <2> SUFFICES ASSUME NEW i \in 1..Len(s) PROVE f[i] = f[i - 1] \o s[i]
    OBVIOUS
  <2>1. f[i] = g[<<i, f[i - 1]>>] BY <1>3 DEF Recursive
  <2>2. f[i - 1] \in Seq(S) /\ i \in Nat
    <3>1. i - 1 \in 0..Len(s) /\ i \in Nat BY <1>2
    <3> QED BY <3>1, <1>3
  <2>3. g[<<i, f[i - 1]>>] = f[i - 1] \o s[i] BY <2>2 DEF g
  <2> QED BY <2>1, <2>3
<1>5. IsFlattening(f, s, S) BY <1>3, <1>4 DEF Recursive, IsFlattening
<1> QED BY <1>5

LEMMA Flattening ==
  ASSUME NEW S, NEW s \in Seq(Seq(S)), NEW f, IsFlattening(f, s, S)
  PROVE  FlattenSeq(s) = f[Len(s)]
<1>1. CASE Len(s) = 0
  BY <1>1, EmptySeq DEF FlattenSeq, IsFlattening
<1>2. CASE Len(s) # 0
  <2> DEFINE Eq(F) == F = [i \in 1..Len(s) |-> IF i = 1 THEN s[i] ELSE F[i - 1] \o s[i]]
             w == [i \in 1..Len(s) |-> f[i]]
             F == CHOOSE F : Eq(F)
  <2>1. Eq(w)
    <3> SUFFICES ASSUME NEW i \in 1..Len(s)
                 PROVE  f[i] = IF i = 1 THEN s[i] ELSE w[i - 1] \o s[i]
      BY Zenon
    <3>1. f[i] = f[i - 1] \o s[i] BY DEF IsFlattening
    <3>2. CASE i = 1
      <4>1. s[1] \in Seq(S) BY <3>2, ElementOfSeq
      <4>2. f[0] = <<>> BY DEF IsFlattening
      <4>3. i - 1 = 0 BY <3>2
      <4>4. f[i] = <<>> \o s[1] BY <3>1, <3>2, <4>2, <4>3
      <4>5. <<>> \o s[1] = s[1] BY <4>1, ConcatEmptySeq
      <4> QED BY <4>4, <4>5, <3>2
    <3>3. CASE i # 1
      <4>1. w[i - 1] = f[i - 1] BY <3>3
      <4> QED BY <3>1, <3>3, <4>1
    <3> QED BY <3>2, <3>3
  <2>2. Eq(F)
    <3> HIDE DEF Eq, w
    <3> QED BY <2>1, Zenon
  <2>3. FlattenSeq(s) = F[Len(s)] BY <1>2, Zenon DEF FlattenSeq
  <2> DEFINE T == {k \in Nat : k + 1 <= Len(s) => F[k + 1] = w[k + 1]}
  <2> HIDE DEF F
  <2>4. 0 \in T
    <3>1. F[1] = s[1] /\ w[1] = s[1]
      <4>1. 1 \in 1..Len(s) BY <1>2
      <4> HIDE DEF w
      <4> QED BY <4>1, <2>1, <2>2
    <3> QED BY <3>1
  <2>5. ASSUME NEW k \in T PROVE k + 1 \in T
    <3> SUFFICES ASSUME (k + 1) + 1 <= Len(s) PROVE F[(k + 1) + 1] = w[(k + 1) + 1]
      OBVIOUS
    <3>1. F[k + 1] = w[k + 1] OBVIOUS
    <3>2. (k + 1) + 1 \in 1..Len(s) /\ (k + 1) + 1 # 1 /\ ((k + 1) + 1) - 1 = k + 1 OBVIOUS
    <3> HIDE DEF w, T
    <3>3. F[(k + 1) + 1] = F[k + 1] \o s[(k + 1) + 1] BY <3>2, <2>2
    <3>4. w[(k + 1) + 1] = w[k + 1] \o s[(k + 1) + 1] BY <3>2, <2>1
    <3> QED BY <3>1, <3>3, <3>4
  <2>6. T = Nat
    <3> HIDE DEF T
    <3>1. T \in SUBSET Nat BY DEF T
    <3> QED BY <2>4, <2>5, <3>1, SetInduction
  <2>7. Len(s) - 1 \in Nat /\ (Len(s) - 1) + 1 = Len(s) BY <1>2, LenProperties
  <2>8. Len(s) - 1 \in T
    <3> HIDE DEF T
    <3> QED BY <2>6, <2>7
  <2>9. F[Len(s)] = w[Len(s)]
    <3> HIDE DEF w
    <3> QED BY <2>7, <2>8
  <2>10. w[Len(s)] = f[Len(s)] BY <2>7
  <2> QED BY <2>3, <2>9, <2>10
<1> QED BY <1>1, <1>2

LEMMA LengthsSeq ==
  ASSUME NEW S, NEW s \in Seq(Seq(S))
  PROVE  /\ [k \in DOMAIN s |-> Len(s[k])] \in Seq(Nat)
         /\ Len([k \in DOMAIN s |-> Len(s[k])]) = Len(s)
         /\ \A k \in 1..Len(s) : [i \in DOMAIN s |-> Len(s[i])][k] = Len(s[k])
<1> DEFINE L == [k \in DOMAIN s |-> Len(s[k])]
<1>1. Len(s) \in Nat /\ DOMAIN s = 1..Len(s)
  BY LenProperties
<1>2. \A k \in 1..Len(s) : Len(s[k]) \in Nat
  <2>1. \A k \in 1..Len(s) : s[k] \in Seq(S)
    BY ElementOfSeq
  <2> QED BY <2>1, LenProperties
<1>3. L \in [1..Len(s) -> Nat]
  BY <1>1, <1>2
<1>4. \A k \in 1..Len(s) : L[k] = Len(s[k])
  BY <1>1
<1> HIDE DEF L
<1>5. L \in Seq(Nat) /\ Len(L) = Len(s)
  BY <1>1, <1>3, FunctionSeq
<1> QED BY <1>4, <1>5 DEF L

LEMMA EndsAre ==
  ASSUME NEW S, NEW s \in Seq(Seq(S))
  PROVE  EndsOf(Ends(s), s)
<1> DEFINE L == [k \in DOMAIN s |-> Len(s[k])]
<1>1. L \in Seq(Nat) /\ Len(L) = Len(s) /\ \A k \in 1..Len(s) : L[k] = Len(s[k])
  BY LengthsSeq
<1>2. Ends(s) = Sums(L)
  BY Zenon DEF Ends
<1> HIDE DEF L
<1>3. SumsOf(Sums(L), L)
  BY <1>1, SumsAre
<1>4. \A j \in 0..Len(L) : \A k \in j..Len(L) : Sums(L)[j] <= Sums(L)[k]
  BY <1>1, <1>3, SumsGrow
<1> QED BY <1>1, <1>2, <1>3, <1>4 DEF SumsOf, EndsOf

LEMMA FlattenLaid ==
  ASSUME NEW S, NEW s \in Seq(Seq(S))
  PROVE  FlattenSeq(s) \in Seq(S) /\ Laid(FlattenSeq(s), s, Ends(s))
<1> DEFINE E == Ends(s)
           N == Len(s)
           Fine(f, i) == /\ Len(f[i]) = E[i]
                         /\ \A k \in 1..i : \A j \in 1..Len(s[k]) : f[i][E[k - 1] + j] = s[k][j]
<1>1. PICK f : IsFlattening(f, s, S)
  BY FlatteningExists
<1>2. N \in Nat /\ EndsOf(E, s)
  BY EndsAre, LenProperties
<1> HIDE DEF E
<1> DEFINE U == {i \in Nat : i <= N => Fine(f, i)}
<1>3. 0 \in U
  <2>1. f[0] = <<>> /\ Len(f[0]) = 0 /\ E[0] = 0
    BY <1>1, <1>2, EmptySeq DEF IsFlattening, EndsOf
  <2> QED BY <2>1
<1>4. ASSUME NEW i \in U PROVE i + 1 \in U
  <2> SUFFICES ASSUME i + 1 <= N PROVE Fine(f, i + 1)
    OBVIOUS
  <2>1. /\ i \in Nat /\ i + 1 \in 1..N /\ i \in 0..N /\ (i + 1) - 1 = i
        /\ Fine(f, i)
    BY <1>2
  <2> HIDE DEF U
  <2>2. s[i + 1] \in Seq(S) /\ f[i] \in Seq(S) /\ f[i + 1] = f[i] \o s[i + 1]
        /\ E[i + 1] = E[i] + Len(s[i + 1])
    BY <1>1, <1>2, <2>1, ElementOfSeq DEF IsFlattening, EndsOf
  <2>3. /\ Len(f[i + 1]) = Len(f[i]) + Len(s[i + 1])
        /\ \A j \in 1..Len(f[i]) : f[i + 1][j] = f[i][j]
        /\ \A j \in 1..Len(s[i + 1]) : f[i + 1][Len(f[i]) + j] = s[i + 1][j]
    <3> DEFINE a == f[i]
               b == s[i + 1]
    <3>1. a \in Seq(S) /\ b \in Seq(S) /\ f[i + 1] = a \o b
      BY <2>2
    <3> HIDE DEF a, b
    <3>2. Joins(S, a \o b, a, b)
      BY <3>1, Concat
    <3>3. /\ Len(f[i + 1]) = Len(a) + Len(b)
          /\ \A j \in 1..Len(a) : f[i + 1][j] = a[j]
          /\ \A j \in 1..Len(b) : f[i + 1][Len(a) + j] = b[j]
      BY <3>1, <3>2 DEF Joins
    <3> QED BY <3>3 DEF a, b
  <2>4. Len(f[i + 1]) = E[i + 1] /\ Len(f[i]) = E[i]
    BY <2>1, <2>2, <2>3
  <2>5. ASSUME NEW k \in 1..i + 1, NEW j \in 1..Len(s[k])
        PROVE  f[i + 1][E[k - 1] + j] = s[k][j]
    <3>1. CASE k = i + 1
      <4>1. E[k - 1] = Len(f[i]) /\ k - 1 = i
        BY <2>1, <3>1
      <4> QED BY <2>3, <3>1, <4>1
    <3>2. CASE k # i + 1
      <4>1. k \in 1..i /\ k \in 1..N /\ k - 1 \in 0..N /\ i \in k..N /\ k \in 0..N
        BY <1>2, <2>1, <3>2
      <4>2. E[k] <= E[i] /\ E[k] = E[k - 1] + Len(s[k]) /\ E[k - 1] \in Nat /\ E[i] \in Nat
        BY <1>2, <4>1, <2>1 DEF EndsOf
      <4>3. Len(s[k]) \in Nat
        BY <4>1, ElementOfSeq, LenProperties
      <4>4. E[k - 1] + j \in 1..Len(f[i])
        <5> DEFINE A == E[k - 1]
                   B == Len(s[k])
                   C == E[k]
                   D == Len(f[i])
        <5>1. /\ C <= D /\ C = A + B /\ A \in Nat /\ D \in Nat /\ B \in Nat
              /\ j \in 1..B
          BY <2>4, <4>2, <4>3
        <5> HIDE DEF Fine, A, B, C, D
        <5>2. A + j \in 1..D
          BY <5>1
        <5> QED BY <5>2 DEF A, D
      <4>5. f[i][E[k - 1] + j] = s[k][j]
        BY <2>1, <4>1
      <4> QED BY <2>3, <4>4, <4>5
    <3> QED BY <3>1, <3>2
  <2> QED BY <2>4, <2>5
<1>5. U = Nat
  <2> HIDE DEF U
  <2>1. U \in SUBSET Nat BY DEF U
  <2> QED BY <1>3, <1>4, <2>1, SetInduction
<1>6. Fine(f, N)
  BY <1>2, <1>5
<1>7. FlattenSeq(s) = f[N]
  BY <1>1, Flattening
<1>8. f[N] \in Seq(S)
  BY <1>1, <1>2 DEF IsFlattening
<1> QED BY <1>6, <1>7, <1>8 DEF Laid, E

-----------------------------------------------------------------------------
(* What is written for an item, character by character.                    *)

LEMMA Literals ==
  /\ <<"s", "w">> \in Seq(Chars) /\ <<"=", "q">> \in Seq(Chars) /\ <<"q">> \in Seq(Chars)
  /\ <<"=">> \in Seq(Chars) /\ <<"<", "w">> \in Seq(Chars) /\ <<"s", "/", ">">> \in Seq(Chars)
  /\ <<">">> \in Seq(Chars) /\ <<"<", "/", "w", ">">> \in Seq(Chars)
  /\ <<"<", "!", "-", "-">> \in Seq(Chars) /\ <<"-", "-", ">">> \in Seq(Chars)
  /\ <<"<", "!">> \in Seq(Chars) /\ <<>> \in Seq(Chars)
BY DEF Chars

LEMMA WrittenProtSpelled ==
  ASSUME NEW p, NEW ends, OrdinaryValue(p, ends)
  PROVE  ProtSpelled(p, <<"s", "w">> \o WrittenValue(p))
<1> DEFINE V == WrittenValue(p)
           P == <<"s", "w">> \o V
<1>1. ASSUME V \in Seq(Chars)
      PROVE  /\ P \in Seq(Chars) /\ Len(P) = 2 + Len(V) /\ Len(V) \in Nat
             /\ P[1] = "s" /\ P[2] = "w"
             /\ \A j \in 1..Len(V) : P[2 + j] = V[j]
  <2> DEFINE s == <<"s", "w">>
  <2>1. s \in Seq(Chars) /\ Len(s) = 2 /\ s[1] = "s" /\ s[2] = "w"
    BY Literals
  <2> HIDE DEF s, V
  <2>2. /\ s \o V \in Seq(Chars)
        /\ Len(V) \in Nat /\ Len(s \o V) = Len(s) + Len(V)
        /\ \A i \in 1..Len(s) : (s \o V)[i] = s[i]
        /\ \A i \in 1..Len(V) : (s \o V)[Len(s) + i] = V[i]
    <3>1. Joins(Chars, s \o V, s, V)
      BY <1>1, <2>1, Concat
    <3> QED BY <3>1 DEF Joins
  <2>3. 1 \in 1..Len(s) /\ 2 \in 1..Len(s)
    BY <2>1
  <2>4. P = s \o V
    BY DEF s
  <2> QED BY <2>1, <2>2, <2>3, <2>4
<1>2. CASE p.form = "bare"
  <2>1. V = <<>> /\ V \in Seq(Chars) /\ Len(V) = 0
    BY <1>2, EmptySeq DEF WrittenValue
  <2> HIDE DEF P, V
  <2>2. p.form # "quoted" /\ p.form # "plain"
    BY <1>2
  <2>3. ProtSpelled(p, P)
    BY <1>1, <2>1, <2>2 DEF ProtSpelled
  <2> QED BY <2>3 DEF P, V
<1>3. CASE p.form = "quoted"
  <2> DEFINE v == p.value
             a == <<"=", "q">>
             b == <<"q">>
  <2>1. v \in Seq(Chars \ {"q"}) /\ v \in Seq(Chars) /\ V = (a \o v) \o b
    <3>1. v \in Seq(Chars \ {"q"})
      BY <1>3 DEF OrdinaryValue
    <3>2. v \in Seq(Chars)
      BY <3>1, SeqMonotonic
    <3> QED BY <1>3, <3>1, <3>2 DEF WrittenValue
  <2>2. a \in Seq(Chars) /\ b \in Seq(Chars) /\ Len(a) = 2 /\ Len(b) = 1
        /\ a[1] = "=" /\ a[2] = "q" /\ b[1] = "q"
    BY Literals
  <2> HIDE DEF a, b, v, V
  <2>3. /\ a \o v \in Seq(Chars) /\ Len(v) \in Nat /\ Len(a \o v) = Len(a) + Len(v)
        /\ \A i \in 1..Len(a) : (a \o v)[i] = a[i]
        /\ \A i \in 1..Len(v) : (a \o v)[Len(a) + i] = v[i]
    <3>1. Joins(Chars, a \o v, a, v)
      BY <2>1, <2>2, Concat
    <3> QED BY <3>1 DEF Joins
  <2>4. /\ (a \o v) \o b \in Seq(Chars) /\ Len((a \o v) \o b) = Len(a \o v) + Len(b)
        /\ \A i \in 1..Len(a \o v) : ((a \o v) \o b)[i] = (a \o v)[i]
        /\ \A i \in 1..Len(b) : ((a \o v) \o b)[Len(a \o v) + i] = b[i]
    <3>1. Joins(Chars, (a \o v) \o b, a \o v, b)
      BY <2>2, <2>3, Concat
    <3> QED BY <3>1 DEF Joins
  <2>5. V \in Seq(Chars) /\ Len(V) = 3 + Len(v)
    BY <2>1, <2>2, <2>3, <2>4
  <2>6. V[1] = "=" /\ V[2] = "q"
    <3>1. 1 \in 1..Len(a) /\ 2 \in 1..Len(a) /\ 1 \in 1..Len(a \o v) /\ 2 \in 1..Len(a \o v)
      BY <2>2, <2>3
    <3> QED BY <3>1, <2>1, <2>2, <2>3, <2>4
  <2>7. V[3 + Len(v)] = "q"
    <3>1. 1 \in 1..Len(b) /\ Len(a \o v) + 1 = 3 + Len(v)
      BY <2>2, <2>3
    <3> QED BY <3>1, <2>1, <2>2, <2>4
  <2>8. ASSUME NEW j \in 1..Len(v) PROVE V[2 + j] = v[j]
    <3>1. 2 + j \in 1..Len(a \o v) /\ Len(a) + j = 2 + j
      BY <2>2, <2>3
    <3> QED BY <3>1, <2>1, <2>3, <2>4
  <2>9. /\ P \in Seq(Chars) /\ Len(P) = 2 + Len(V)
        /\ P[1] = "s" /\ P[2] = "w"
        /\ \A j \in 1..Len(V) : P[2 + j] = V[j]
    BY <1>1, <2>5
  <2> HIDE DEF P
  <2>10. P[3] = "=" /\ P[4] = "q" /\ P[5 + Len(v)] = "q" /\ Len(P) = 5 + Len(v)
    <3>1. /\ 1 \in 1..Len(V) /\ 2 \in 1..Len(V) /\ 3 + Len(v) \in 1..Len(V)
          /\ 2 + 1 = 3 /\ 2 + 2 = 4 /\ 2 + (3 + Len(v)) = 5 + Len(v)
      BY <2>3, <2>5
    <3>2. P[2 + 1] = V[1] /\ P[2 + 2] = V[2] /\ P[2 + (3 + Len(v))] = V[3 + Len(v)]
      BY <2>9, <3>1
    <3> QED BY <3>1, <3>2, <2>3, <2>5, <2>6, <2>7, <2>9
  <2>11. ASSUME NEW j \in 1..Len(v) PROVE P[4 + j] = v[j]
    <3>1. 2 + j \in 1..Len(V) /\ 2 + (2 + j) = 4 + j
      BY <2>3, <2>5
    <3>2. P[2 + (2 + j)] = V[2 + j]
      BY <2>9, <3>1
    <3> QED BY <3>1, <3>2, <2>8
  <2>12. ProtSpelled(p, P)
    <3>1. p.form # "bare" /\ p.form # "plain"
      BY <1>3
    <3> QED BY <3>1, <2>1, <2>3, <2>9, <2>10, <2>11 DEF ProtSpelled, v
  <2> QED BY <2>12 DEF P, V
<1>4. CASE p.form = "plain"
  <2> DEFINE v == p.value
             a == <<"=">>
  <2>1. v \in Seq(Chars \ {"s", "<", ">"}) /\ v \in Seq(Chars) /\ V = a \o v
    <3>1. v \in Seq(Chars \ {"s", "<", ">"})
      BY <1>4 DEF OrdinaryValue
    <3>2. v \in Seq(Chars)
      BY <3>1, SeqMonotonic
    <3> QED BY <1>4, <3>1, <3>2 DEF WrittenValue
  <2>2. a \in Seq(Chars) /\ Len(a) = 1 /\ a[1] = "="
    BY Literals
  <2> HIDE DEF a, v, V
  <2>3. /\ a \o v \in Seq(Chars) /\ Len(v) \in Nat /\ Len(a \o v) = Len(a) + Len(v)
        /\ \A i \in 1..Len(a) : (a \o v)[i] = a[i]
        /\ \A i \in 1..Len(v) : (a \o v)[Len(a) + i] = v[i]
    <3>1. Joins(Chars, a \o v, a, v)
      BY <2>1, <2>2, Concat
    <3> QED BY <3>1 DEF Joins
  <2>5. V \in Seq(Chars) /\ Len(V) = 1 + Len(v) /\ V[1] = "="
    <3>1. 1 \in 1..Len(a)
      BY <2>2
    <3> QED BY <3>1, <2>1, <2>2, <2>3
  <2>9. /\ P \in Seq(Chars) /\ Len(P) = 2 + Len(V)
        /\ P[1] = "s" /\ P[2] = "w"
        /\ \A j \in 1..Len(V) : P[2 + j] = V[j]
    BY <1>1, <2>5
  <2> HIDE DEF P
  <2>10. P[3] = "=" /\ Len(P) = 3 + Len(v)
    <3>1. 1 \in 1..Len(V) /\ 2 + 1 = 3
      BY <2>3, <2>5
    <3>2. P[2 + 1] = V[1]
      BY <2>9, <3>1
    <3> QED BY <3>1, <3>2, <2>3, <2>5, <2>9
  <2>11. ASSUME NEW j \in 1..Len(v) PROVE P[3 + j] = v[j]
    <3>1. 1 + j \in 1..Len(V) /\ 2 + (1 + j) = 3 + j
      BY <2>3, <2>5
    <3>2. P[2 + (1 + j)] = V[1 + j] /\ V[1 + j] = v[j]
      BY <2>1, <2>2, <2>3, <2>9, <3>1
    <3> QED BY <3>1, <3>2
  <2>12. ProtSpelled(p, P)
    <3>1. p.form # "bare" /\ p.form # "quoted"
      BY <1>4
    <3> QED BY <3>1, <2>1, <2>3, <2>9, <2>10, <2>11 DEF ProtSpelled, v
  <2> QED BY <2>12 DEF P, V
<1> QED BY <1>2, <1>3, <1>4 DEF OrdinaryValue

LEMMA WrittenText ==
  ASSUME NEW item, OrdinaryItem(item), item.kind = "text"
  PROVE  TextSpelled(item, Written(item))
<1>1. item.text \in Seq(Chars \ {"<"}) /\ item.text # <<>>
  BY DEF OrdinaryItem
<1>2. item.text \in Seq(Chars) /\ Len(item.text) \in Nat \ {0}
  BY <1>1, SeqMonotonic, EmptySeq
<1>3. Written(item) = item.text
  BY DEF Written
<1> QED BY <1>1, <1>2, <1>3 DEF TextSpelled

LEMMA WrittenClose ==
  ASSUME NEW item, item.kind = "close"
  PROVE  CloseSpelled(Written(item))
<1>1. Written(item) = <<"<", "/", "w", ">">>
  BY DEF Written
<1> QED BY <1>1, Literals DEF CloseSpelled

LEMMA WrittenComment ==
  ASSUME NEW item, OrdinaryItem(item), item.kind = "comment"
  PROVE  CommentSpelled(item, Written(item))
<1> DEFINE a == <<"<", "!", "-", "-">>
           b == <<"-", "-", ">">>
           t == item.text
           W == (a \o t) \o b
<1>1. t \in Seq(Chars)
  BY DEF OrdinaryItem
<1>2. \A i \in DOMAIN t : ~((t \o b)[i] = "-" /\ (t \o b)[i + 1] = "-" /\ (t \o b)[i + 2] = ">")
  BY Zenon DEF OrdinaryItem
<1>3. Written(item) = W
  BY Zenon DEF Written
<1>4. a \in Seq(Chars) /\ b \in Seq(Chars) /\ Len(a) = 4 /\ Len(b) = 3
      /\ a[1] = "<" /\ a[2] = "!" /\ a[3] = "-" /\ a[4] = "-"
      /\ b[1] = "-" /\ b[2] = "-" /\ b[3] = ">"
  BY Literals
<1> HIDE DEF a, b, t
<1>5. Len(t) \in Nat /\ DOMAIN t = 1..Len(t)
  BY <1>1, LenProperties
<1>6. /\ a \o t \in Seq(Chars) /\ Len(a \o t) = 4 + Len(t)
      /\ \A i \in 1..Len(a) : (a \o t)[i] = a[i]
      /\ \A i \in 1..Len(t) : (a \o t)[4 + i] = t[i]
  <2>1. /\ a \o t \in Seq(Chars) /\ Len(a \o t) = Len(a) + Len(t)
        /\ \A i \in 1..Len(a) : (a \o t)[i] = a[i]
        /\ \A i \in 1..Len(t) : (a \o t)[Len(a) + i] = t[i]
    <3>1. Joins(Chars, a \o t, a, t)
      BY <1>1, <1>4, Concat
    <3> QED BY <3>1 DEF Joins
  <2> QED BY <2>1, <1>4
<1>7. /\ W \in Seq(Chars) /\ Len(W) = 7 + Len(t)
      /\ \A i \in 1..4 + Len(t) : W[i] = (a \o t)[i]
      /\ \A i \in 1..3 : W[4 + Len(t) + i] = b[i]
  <2>1. /\ W \in Seq(Chars) /\ Len(W) = Len(a \o t) + Len(b)
        /\ \A i \in 1..Len(a \o t) : W[i] = (a \o t)[i]
        /\ \A i \in 1..Len(b) : W[Len(a \o t) + i] = b[i]
    <3>1. Joins(Chars, W, a \o t, b)
      BY <1>4, <1>6, Concat
    <3> QED BY <3>1 DEF Joins
  <2> QED BY <2>1, <1>4, <1>5, <1>6
<1> HIDE DEF W
<1>8. W[1] = "<" /\ W[2] = "!" /\ W[3] = "-" /\ W[4] = "-"
  <2>1. \A i \in 1..4 : W[i] = a[i]
    BY <1>4, <1>5, <1>6, <1>7
  <2> QED BY <2>1, <1>4
<1>9. W[4 + Len(t) + 1] = "-" /\ W[4 + Len(t) + 2] = "-" /\ W[4 + Len(t) + 3] = ">"
  BY <1>4, <1>7
<1>10. \A i \in 1..Len(t) + 3 : W[4 + i] = (t \o b)[i]
  <2>1. /\ \A i \in 1..Len(t) : (t \o b)[i] = t[i]
        /\ \A i \in 1..Len(b) : (t \o b)[Len(t) + i] = b[i]
    <3>1. Joins(Chars, t \o b, t, b)
      BY <1>1, <1>4, Concat
    <3> QED BY <3>1 DEF Joins
  <2> SUFFICES ASSUME NEW i \in 1..Len(t) + 3 PROVE W[4 + i] = (t \o b)[i]
    OBVIOUS
  <2>2. CASE i <= Len(t)
    <3>1. i \in 1..Len(t) /\ 4 + i \in 1..4 + Len(t)
      BY <1>5, <2>2
    <3> QED BY <3>1, <2>1, <1>6, <1>7
  <2>3. CASE ~(i <= Len(t))
    <3>1. i - Len(t) \in 1..3 /\ Len(t) + (i - Len(t)) = i /\ 4 + Len(t) + (i - Len(t)) = 4 + i
      BY <1>5, <2>3
    <3>2. W[4 + Len(t) + (i - Len(t))] = b[i - Len(t)]
      BY <3>1, <1>7
    <3>3. (t \o b)[Len(t) + (i - Len(t))] = b[i - Len(t)]
      BY <3>1, <2>1, <1>4
    <3> QED BY <3>1, <3>2, <3>3
  <2> QED BY <2>2, <2>3
<1>11. ASSUME NEW i \in 1..Len(t)
       PROVE  ~(W[4 + i] = "-" /\ W[4 + i + 1] = "-" /\ W[4 + i + 2] = ">")
  <2>1. /\ i \in 1..Len(t) + 3 /\ i + 1 \in 1..Len(t) + 3 /\ i + 2 \in 1..Len(t) + 3
        /\ 4 + i + 1 = 4 + (i + 1) /\ 4 + i + 2 = 4 + (i + 2)
    BY <1>5
  <2>2. W[4 + i] = (t \o b)[i] /\ W[4 + i + 1] = (t \o b)[i + 1] /\ W[4 + i + 2] = (t \o b)[i + 2]
    <3>1. W[4 + i] = (t \o b)[i]
      BY <1>10, <2>1
    <3>2. W[4 + (i + 1)] = (t \o b)[i + 1]
      BY <1>10, <2>1
    <3>3. W[4 + (i + 2)] = (t \o b)[i + 2]
      BY <1>10, <2>1
    <3> QED BY <3>1, <3>2, <3>3, <2>1
  <2> QED BY <2>2, <1>2, <1>5
<1> QED BY <1>3, <1>5, <1>7, <1>8, <1>9, <1>11 DEF CommentSpelled, t

LEMMA WrittenMeta ==
  ASSUME NEW item, OrdinaryItem(item), item.kind = "meta"
  PROVE  MetaSpelled(item, Written(item))
<1> DEFINE a == <<"<", "!">>
           b == <<">">>
           t == item.text
           W == (a \o t) \o b
<1>1. t \in Seq(Chars \ {">"}) /\ ~IsPrefix(<<"-", "-">>, t)
  BY DEF OrdinaryItem
<1>2. t \in Seq(Chars)
  BY <1>1, SeqMonotonic
<1>3. Written(item) = W
  BY Zenon DEF Written
<1>4. a \in Seq(Chars) /\ b \in Seq(Chars) /\ Len(a) = 2 /\ Len(b) = 1
      /\ a[1] = "<" /\ a[2] = "!" /\ b[1] = ">"
  BY Literals
<1>5. Len(t) \in Nat /\ DOMAIN t = 1..Len(t)
  BY <1>2, LenProperties
<1>20. ~(Len(t) >= 2 /\ t[1] = "-" /\ t[2] = "-")
  <2> SUFFICES ASSUME Len(t) >= 2, t[1] = "-", t[2] = "-" PROVE FALSE
    OBVIOUS
  <2>1. IsPrefix(<<"-", "-">>, t)
    BY <1>2, <1>5 DEF IsPrefix
  <2> QED BY <1>1, <2>1
<1> HIDE DEF a, b, t
<1>6. /\ a \o t \in Seq(Chars) /\ Len(a \o t) = 2 + Len(t)
      /\ \A i \in 1..Len(a) : (a \o t)[i] = a[i]
      /\ \A i \in 1..Len(t) : (a \o t)[2 + i] = t[i]
  <2>1. /\ a \o t \in Seq(Chars) /\ Len(a \o t) = Len(a) + Len(t)
        /\ \A i \in 1..Len(a) : (a \o t)[i] = a[i]
        /\ \A i \in 1..Len(t) : (a \o t)[Len(a) + i] = t[i]
    <3>1. Joins(Chars, a \o t, a, t)
      BY <1>2, <1>4, Concat
    <3> QED BY <3>1 DEF Joins
  <2> QED BY <2>1, <1>4
<1>7. /\ W \in Seq(Chars) /\ Len(W) = 3 + Len(t)
      /\ \A i \in 1..2 + Len(t) : W[i] = (a \o t)[i]
      /\ W[2 + Len(t) + 1] = b[1]
  <2>1. /\ W \in Seq(Chars) /\ Len(W) = Len(a \o t) + Len(b)
        /\ \A i \in 1..Len(a \o t) : W[i] = (a \o t)[i]
        /\ \A i \in 1..Len(b) : W[Len(a \o t) + i] = b[i]
    <3>1. Joins(Chars, W, a \o t, b)
      BY <1>4, <1>6, Concat
    <3> QED BY <3>1 DEF Joins
  <2> QED BY <2>1, <1>4, <1>5, <1>6
<1> HIDE DEF W
<1>8. W[1] = "<" /\ W[2] = "!"
  <2>1. \A i \in 1..2 : W[i] = a[i]
    BY <1>4, <1>5, <1>6, <1>7
  <2> QED BY <2>1, <1>4
<1>9. \A i \in 1..Len(t) : W[2 + i] = t[i]
  BY <1>5, <1>6, <1>7
<1>10. \A i \in 1..Len(t) : W[2 + i] # ">"
  <2>1. \A i \in 1..Len(t) : t[i] \in Chars \ {">"}
    BY <1>1, ElementOfSeq
  <2> QED BY <2>1, <1>9
<1>11. ~(W[3] = "-" /\ W[4] = "-")
  <2>1. CASE Len(t) >= 2
    <3>1. W[2 + 1] = t[1] /\ W[2 + 2] = t[2]
      BY <1>9, <1>5, <2>1
    <3> QED BY <3>1, <1>20, <2>1
  <2>2. CASE Len(t) = 1
    BY <1>4, <1>7, <2>2
  <2>3. CASE Len(t) = 0
    BY <1>4, <1>7, <2>3
  <2> QED BY <1>5, <2>1, <2>2, <2>3
<1> QED BY <1>3, <1>4, <1>5, <1>7, <1>8, <1>10, <1>11 DEF MetaSpelled, t

LEMMA WrittenOpen ==
  ASSUME NEW item, OrdinaryItem(item), item.kind = "open"
  PROVE  OpenSpelled(item, Written(item), Ends(WrittenProts(item.prots)))
<1> DEFINE m == Len(item.prots)
           P(k) == <<"s", "w">> \o WrittenValue(item.prots[k])
           s == WrittenProts(item.prots)
           E == Ends(s)
           a == <<"<", "w">>
           x == FlattenSeq(s)
           b == IF item.void THEN <<"s", "/", ">">> ELSE <<">">>
           W == (a \o x) \o b
<1>1. /\ item.void \in BOOLEAN /\ item.prots \in Seq(ToSet(item.prots))
      /\ \A k \in DOMAIN item.prots :
            OrdinaryValue(item.prots[k], k = Len(item.prots) /\ ~item.void)
  BY DEF OrdinaryItem
<1>2. m \in Nat /\ DOMAIN item.prots = 1..m
  BY <1>1, LenProperties
<1>3. \A k \in 1..m : ProtSpelled(item.prots[k], P(k))
  BY <1>1, <1>2, WrittenProtSpelled
<1>4. s \in Seq(Seq(Chars)) /\ Len(s) = m /\ \A k \in 1..m : s[k] = P(k)
  <2>1. s = [k \in 1..m |-> P(k)]
    BY <1>2, Zenon DEF WrittenProts
  <2>2. \A k \in 1..m : P(k) \in Seq(Chars)
    BY <1>3 DEF ProtSpelled
  <2> HIDE DEF P, s
  <2>3. s \in [1..m -> Seq(Chars)]
    BY <2>1, <2>2
  <2>4. \A k \in 1..m : s[k] = P(k)
    BY <2>1
  <2> HIDE DEF m
  <2> QED BY <1>2, <2>3, <2>4, FunctionSeq
<1>5. Written(item) = W
  BY Zenon DEF Written, WrittenProts
<1> HIDE DEF s
<1>6. EndsOf(E, s) /\ x \in Seq(Chars) /\ Laid(x, s, E)
  BY <1>4, EndsAre, FlattenLaid
<1> HIDE DEF E, x
<1>7. /\ E \in [0..m -> Nat] /\ E[0] = 0
      /\ \A k \in 1..m : E[k] = E[k - 1] + Len(P(k)) /\ E[k] <= E[m]
  <2> HIDE DEF P, m
  <2>1. \A k \in 1..m : k \in 0..m /\ m \in k..m
    BY <1>2
  <2> QED BY <1>2, <1>4, <1>6, <2>1 DEF EndsOf
<1>8. /\ Len(x) = E[m]
      /\ \A k \in 1..m : \A j \in 1..Len(P(k)) : x[E[k - 1] + j] = P(k)[j]
  <2> HIDE DEF P, m
  <2> QED BY <1>4, <1>6 DEF Laid
<1>9. /\ a \in Seq(Chars) /\ Len(a) = 2 /\ a[1] = "<" /\ a[2] = "w" /\ b \in Seq(Chars)
      /\ ~item.void => Len(b) = 1 /\ b[1] = ">"
      /\ item.void => Len(b) = 3 /\ b[1] = "s" /\ b[2] = "/" /\ b[3] = ">"
  BY Literals
<1> HIDE DEF a, b, P, m
<1>10. E[m] \in Nat /\ \A k \in 1..m : E[k - 1] \in Nat
  BY <1>2, <1>7
<1>11. /\ a \o x \in Seq(Chars) /\ Len(a \o x) = 2 + E[m]
       /\ \A i \in 1..Len(a) : (a \o x)[i] = a[i]
       /\ \A i \in 1..Len(x) : (a \o x)[2 + i] = x[i]
  <2>1. /\ a \o x \in Seq(Chars) /\ Len(a \o x) = Len(a) + Len(x)
        /\ \A i \in 1..Len(a) : (a \o x)[i] = a[i]
        /\ \A i \in 1..Len(x) : (a \o x)[Len(a) + i] = x[i]
    <3>1. Joins(Chars, a \o x, a, x)
      BY <1>6, <1>9, Concat
    <3> QED BY <3>1 DEF Joins
  <2> QED BY <2>1, <1>8, <1>9
<1>12. /\ W \in Seq(Chars) /\ Len(W) = 2 + E[m] + Len(b) /\ Len(b) \in Nat
       /\ \A i \in 1..2 + E[m] : W[i] = (a \o x)[i]
       /\ \A i \in 1..Len(b) : W[2 + E[m] + i] = b[i]
  <2>1. /\ W \in Seq(Chars) /\ Len(W) = Len(a \o x) + Len(b) /\ Len(b) \in Nat
        /\ \A i \in 1..Len(a \o x) : W[i] = (a \o x)[i]
        /\ \A i \in 1..Len(b) : W[Len(a \o x) + i] = b[i]
    <3>1. Joins(Chars, W, a \o x, b)
      BY <1>9, <1>11, Concat
    <3> QED BY <3>1 DEF Joins
  <2> QED BY <2>1, <1>11
<1> HIDE DEF W
<1>13. W[1] = "<" /\ W[2] = "w"
  <2>1. 1 \in 1..Len(a) /\ 2 \in 1..Len(a) /\ 1 \in 1..2 + E[m] /\ 2 \in 1..2 + E[m]
    BY <1>9, <1>10
  <2> QED BY <2>1, <1>9, <1>11, <1>12
<1>14. ASSUME NEW k \in 1..m, NEW j \in 1..Len(P(k))
       PROVE  W[2 + E[k - 1] + j] = P(k)[j]
  <2>1. P(k) \in Seq(Chars)
    BY <1>3 DEF ProtSpelled
  <2>2. E[k - 1] + j \in 1..Len(x) /\ 2 + (E[k - 1] + j) \in 1..2 + E[m]
        /\ 2 + (E[k - 1] + j) = 2 + E[k - 1] + j
    <3>1. E[k] = E[k - 1] + Len(P(k)) /\ E[k] <= E[m] /\ Len(P(k)) \in Nat
      BY <1>7, <2>1, LenProperties
    <3> DEFINE A == E[k - 1]
               B == Len(P(k))
               C == E[m]
               D == Len(x)
               Ek == E[k]
    <3>2. /\ Ek = A + B /\ Ek <= C /\ B \in Nat /\ A \in Nat /\ C \in Nat
          /\ D = C /\ j \in 1..B
      BY <3>1, <1>8, <1>10
    <3> HIDE DEF A, B, C, D, Ek
    <3>3. A + j \in 1..D /\ 2 + (A + j) \in 1..2 + C /\ 2 + (A + j) = 2 + A + j
      BY <3>2
    <3> QED BY <3>3 DEF A, C, D
  <2>3. W[2 + (E[k - 1] + j)] = x[E[k - 1] + j]
    BY <2>2, <1>11, <1>12
  <2> QED BY <2>2, <2>3, <1>8
<1>15. /\ ~item.void => Len(W) = E[m] + 3 /\ W[2 + E[m] + 1] = ">"
       /\ item.void => /\ Len(W) = E[m] + 5
                       /\ W[2 + E[m] + 1] = "s" /\ W[2 + E[m] + 2] = "/" /\ W[2 + E[m] + 3] = ">"
  <2>1. CASE ~item.void
    <3>1. 1 \in 1..Len(b) /\ Len(b) = 1 /\ b[1] = ">"
      BY <2>1, <1>9
    <3> QED BY <3>1, <2>1, <1>10, <1>12
  <2>2. CASE item.void
    <3>2. Len(b) = 3 /\ b[1] = "s" /\ b[2] = "/" /\ b[3] = ">"
      BY <2>2, <1>9, Zenon
    <3>1. Len(b) = 3 /\ 1 \in 1..Len(b) /\ 2 \in 1..Len(b) /\ 3 \in 1..Len(b)
          /\ b[1] = "s" /\ b[2] = "/" /\ b[3] = ">"
      BY <3>2
    <3> QED BY <3>1, <2>2, <1>10, <1>12
  <2> QED BY <2>1, <2>2
<1>16. \A k \in 1..m : OrdinaryValue(item.prots[k], k = m /\ ~item.void)
  BY <1>1, <1>2 DEF m
<1>17. /\ W \in Seq(Chars) /\ m \in Nat
       /\ \A k \in 1..m :
            /\ OrdinaryValue(item.prots[k], k = m /\ ~item.void)
            /\ ProtSpelled(item.prots[k], P(k))
            /\ E[k] = E[k - 1] + Len(P(k)) /\ E[k] <= E[m]
            /\ \A j \in 1..Len(P(k)) : W[2 + E[k - 1] + j] = P(k)[j]
  BY <1>2, <1>3, <1>7, <1>12, <1>14, <1>16
<1>18. OpenSpelled(item, W, E)
  BY <1>1, <1>7, <1>13, <1>15, <1>17, Zenon DEF OpenSpelled, P, m
<1> QED BY <1>5, <1>18 DEF E, s

-----------------------------------------------------------------------------
(* What the lexer makes of a buffer.                                       *)

LEMMA SpanIs ==
  ASSUME NEW s \in Seq(Chars), NEW C, NEW n \in 0..Len(s),
         \A i \in 1..n : s[i] \in C,
         n < Len(s) => s[n + 1] \notin C
  PROVE  Span(s, C) = n
<1> DEFINE stops == {i \in DOMAIN s : s[i] \notin C}
<1>1. Len(s) \in Nat /\ DOMAIN s = 1..Len(s)
  BY LenProperties
<1>2. Span(s, C) = IF stops = {} THEN Len(s) ELSE Min(stops) - 1
  BY Zenon DEF Span
<1> DEFINE L == Len(s)
<1>3. L \in Nat /\ stops \subseteq 1..L /\ Span(s, C) = IF stops = {} THEN L ELSE Min(stops) - 1
  BY <1>1, <1>2
<1>4. n \in 0..L /\ (n < L => n + 1 \in stops) /\ \A y \in stops : n < y
  <2>1. n < L => n + 1 \in 1..L /\ s[n + 1] \notin C
    BY <1>1
  <2>2. n < L => n + 1 \in stops
    BY <1>1, <2>1
  <2>3. ASSUME NEW y \in stops PROVE n < y
    <3>1. y \in 1..Len(s) /\ s[y] \notin C
      BY <1>1
    <3> QED BY <1>1, <3>1
  <2> QED BY <2>2, <2>3
<1> HIDE DEF stops, L
<1>5. CASE n < L
  <2>1. n + 1 \in stops /\ \A y \in stops : y \in Nat /\ n + 1 <= y
    BY <1>3, <1>4, <1>5
  <2>2. Min(stops) \in stops /\ \A y \in stops : Min(stops) <= y
    BY <2>1, Zenon DEF Min
  <2>3. Min(stops) = n + 1
    BY <1>4, <2>1, <2>2
  <2> QED BY <1>3, <1>4, <2>1, <2>3
<1>6. CASE ~(n < L)
  <2>1. n = L /\ stops = {}
    BY <1>3, <1>4, <1>6
  <2> QED BY <1>3, <2>1
<1> QED BY <1>5, <1>6

LEMMA SpanNone ==
  ASSUME NEW s \in Seq(Chars), NEW C, Len(s) > 0, s[1] \notin C
  PROVE  Span(s, C) = 0
<1>1. 0 \in 0..Len(s) /\ (\A i \in 1..0 : s[i] \in C) /\ s[0 + 1] \notin C
  BY LenProperties
<1> QED BY <1>1, SpanIs

LEMMA SpanOne ==
  ASSUME NEW s \in Seq(Chars), NEW C, Len(s) > 0, s[1] \in C, Len(s) > 1 => s[2] \notin C
  PROVE  Span(s, C) = 1
<1>1. 1 \in 0..Len(s) /\ (\A i \in 1..1 : s[i] \in C) /\ (1 < Len(s) => s[1 + 1] \notin C)
  <2>1. Len(s) \in Nat
    BY LenProperties
  <2> QED BY <2>1
<1> QED BY <1>1, SpanIs

LEMMA PrefixIs ==
  ASSUME NEW s \in Seq(Chars), NEW t \in Seq(Chars)
  PROVE  IsPrefix(s, t) <=> Len(s) <= Len(t) /\ \A i \in 1..Len(s) : s[i] = t[i]
<1>1. Len(s) \in Nat /\ Len(t) \in Nat
  BY LenProperties
<1>2. SubSeq(s, 1, Len(s)) = s
  BY SubSeqFull
<1>3. CASE Len(s) <= Len(t)
  <2> DEFINE u == SubSeq(t, 1, Len(s))
  <2>1. \A i \in 1..Len(s) : t[i] \in Chars
    <3>1. \A i \in 1..Len(s) : i \in 1..Len(t)
      BY <1>1, <1>3
    <3> QED BY <3>1, ElementOfSeq
  <2>2. u \in Seq(Chars) /\ Len(u) = Len(s) /\ \A i \in 1..Len(s) : u[i] = t[i]
    <3>1. 1 \in Int /\ Len(s) \in Int /\ 1 <= Len(s) + 1
      BY <1>1
    <3>2. /\ SubSeq(t, 1, Len(s)) \in Seq(Chars)
          /\ Len(SubSeq(t, 1, Len(s))) = IF 1 <= Len(s) THEN Len(s) - 1 + 1 ELSE 0
          /\ \A i \in 1 .. Len(s) - 1 + 1 : SubSeq(t, 1, Len(s))[i] = t[1 + i - 1]
      BY <2>1, <3>1, SubSeqProperties
    <3> QED BY <3>2, <1>1
  <2> HIDE DEF u
  <2>3. (s = u) <=> \A i \in 1..Len(s) : s[i] = t[i]
    <3>1. ASSUME \A i \in 1..Len(s) : s[i] = t[i] PROVE s = u
      <4>1. Len(s) = Len(u) /\ \A i \in 1..Len(s) : s[i] = u[i]
        BY <2>2, <3>1
      <4> QED BY <4>1, <2>2, SeqEqual
    <3> QED BY <3>1, <2>2
  <2> QED BY <1>2, <1>3, <2>3 DEF IsPrefix, u
<1>4. CASE ~(Len(s) <= Len(t))
  BY <1>4 DEF IsPrefix
<1> QED BY <1>3, <1>4

LEMMA TextRule ==
  ASSUME NEW s, NEW k \in Nat, k > 0, k = Span(s, Chars \ {"<"})
  PROVE  LongestMatch("initial", s) = TextOf(Match(k, k = Len(s), "initial", "TEXT"), s, k)
<1> DEFINE n == Span(s, Chars \ {"<"})
           four == IsPrefix(<<"<", "!", "-", "-">>, s)
           two == IsPrefix(<<"<", "!">>, s)
           slash == IsPrefix(<<"<", "/">>, s)
           x1 == TextOf(Match(n, n = Len(s), "initial", "TEXT"), s, n)
           x2 == Eats(4, FALSE, "comment")
           x3 == Eats(2, IsPrefix(s, <<"<", "!", "-">>), "meta")
           x4 == Match(2, FALSE, "tag_name", "TAG_START_FLAG2")
           x5 == Match(1, Len(s) = 1, "tag_name", "TAG_START_FLAG")
           m == InInitial(s)
<1>0. LongestMatch("initial", s) = m
  BY DEF LongestMatch
<1>1. m = CASE n > 0 -> x1
           [] n = 0 /\ four -> x2
           [] n = 0 /\ two /\ ~four -> x3
           [] n = 0 /\ slash -> x4
           [] OTHER -> x5
  BY DEF InInitial
<1>2. n = k /\ x1 = TextOf(Match(k, k = Len(s), "initial", "TEXT"), s, k)
  BY Zenon
<1> HIDE DEF m, n, four, two, slash, x1, x2, x3, x4, x5
<1>3. n > 0 /\ n # 0
  BY <1>2
<1>4. m = x1
  BY <1>1, <1>3
<1> QED BY <1>0, <1>2, <1>4, Zenon

LEMMA LexText ==
  ASSUME NEW s \in Seq(Chars), NEW n \in Nat, n > 0, Len(s) > 0,
         \A i \in 1..Len(s) : (i <= n => s[i] # "<") /\ (i = n + 1 => s[i] = "<"),
         NEW all, all => Len(s) >= n,
         NEW m, m = LongestMatch("initial", s), m.open => all
  PROVE  Takes(m, s, n, "initial", "TEXT") /\ m.text = SubSeq(s, 1, n)
<1> DEFINE C == Chars \ {"<"}
           k == IF n <= Len(s) THEN n ELSE Len(s)
<1>1. Len(s) \in Nat /\ \A i \in 1..Len(s) : s[i] \in Chars
  BY LenProperties, ElementOfSeq
<1>2. k \in 0..Len(s) /\ k > 0
  BY <1>1
<1>3. \A i \in 1..k : s[i] \in C
  BY <1>1
<1>4. k < Len(s) => s[k + 1] \notin C
  BY <1>1
<1>6. k < n => k = Len(s)
  BY <1>1
<1>7. k <= n /\ k <= Len(s)
  BY <1>1
<1> HIDE DEF k
<1>5. Span(s, C) = k
  BY <1>2, <1>3, <1>4, SpanIs
<1>8. k > 0 /\ m = TextOf(Match(k, k = Len(s), "initial", "TEXT"), s, k)
  <2>1. k \in Nat /\ k > 0
    BY <1>1, <1>2
  <2>2. LongestMatch("initial", s) = TextOf(Match(k, k = Len(s), "initial", "TEXT"), s, k)
    BY <1>5, <2>1, TextRule
  <2> QED BY <2>1, <2>2
<1>9. /\ m.len = k /\ (m.open <=> k = Len(s)) /\ m.next = "initial" /\ m.token = "TEXT"
      /\ m.back = FALSE /\ m.text = SubSeq(s, 1, k)
  BY <1>8 DEF TextOf, Match
<1>10. k = n
  BY <1>1, <1>2, <1>6, <1>7, <1>9
<1> QED BY <1>7, <1>9, <1>10 DEF Takes

LEMMA LexMark ==
  ASSUME NEW s \in Seq(Chars), Len(s) > 0, s[1] = "<"
  PROVE  Marks(s)
<1>1. Len(s) \in Nat
  BY LenProperties
<1>2. Span(s, Chars \ {"<"}) = 0
  BY SpanNone
<1>3. IsPrefix(<<"<", "!", "-", "-">>, s)
        <=> Len(s) >= 4 /\ s[2] = "!" /\ s[3] = "-" /\ s[4] = "-"
  <2> DEFINE t == <<"<", "!", "-", "-">>
  <2>1. t \in Seq(Chars) /\ Len(t) = 4 /\ t[1] = "<" /\ t[2] = "!" /\ t[3] = "-" /\ t[4] = "-"
    BY Literals
  <2> HIDE DEF t
  <2>2. IsPrefix(t, s) <=> Len(t) <= Len(s) /\ \A i \in 1..Len(t) : t[i] = s[i]
    BY <2>1, PrefixIs
  <2>3. IsPrefix(t, s) <=> Len(s) >= 4 /\ s[2] = "!" /\ s[3] = "-" /\ s[4] = "-"
    BY <1>1, <2>1, <2>2
  <2> QED BY <2>3 DEF t
<1>4. IsPrefix(<<"<", "!">>, s) <=> Len(s) >= 2 /\ s[2] = "!"
  <2> DEFINE t == <<"<", "!">>
  <2>1. t \in Seq(Chars) /\ Len(t) = 2 /\ t[1] = "<" /\ t[2] = "!"
    BY Literals
  <2> HIDE DEF t
  <2>2. IsPrefix(t, s) <=> Len(t) <= Len(s) /\ \A i \in 1..Len(t) : t[i] = s[i]
    BY <2>1, PrefixIs
  <2>3. IsPrefix(t, s) <=> Len(s) >= 2 /\ s[2] = "!"
    BY <1>1, <2>1, <2>2
  <2> QED BY <2>3 DEF t
<1>5. IsPrefix(<<"<", "/">>, s) <=> Len(s) >= 2 /\ s[2] = "/"
  <2> DEFINE t == <<"<", "/">>
  <2>1. t \in Seq(Chars) /\ Len(t) = 2 /\ t[1] = "<" /\ t[2] = "/"
    BY DEF Chars
  <2> HIDE DEF t
  <2>2. IsPrefix(t, s) <=> Len(t) <= Len(s) /\ \A i \in 1..Len(t) : t[i] = s[i]
    BY <2>1, PrefixIs
  <2>3. IsPrefix(t, s) <=> Len(s) >= 2 /\ s[2] = "/"
    BY <1>1, <2>1, <2>2
  <2> QED BY <2>3 DEF t
<1>6. IsPrefix(s, <<"<", "!", "-">>)
        <=> Len(s) <= 3 /\ (Len(s) >= 2 => s[2] = "!") /\ (Len(s) = 3 => s[3] = "-")
  <2> DEFINE t == <<"<", "!", "-">>
  <2>1. t \in Seq(Chars) /\ Len(t) = 3 /\ t[1] = "<" /\ t[2] = "!" /\ t[3] = "-"
    BY DEF Chars
  <2> HIDE DEF t
  <2>2. IsPrefix(s, t) <=> Len(s) <= Len(t) /\ \A i \in 1..Len(s) : s[i] = t[i]
    BY <2>1, PrefixIs
  <2>3. IsPrefix(s, t)
          <=> Len(s) <= 3 /\ (Len(s) >= 2 => s[2] = "!") /\ (Len(s) = 3 => s[3] = "-")
    <3> DEFINE n == Len(s)
    <3>1. n \in Nat /\ n > 0 /\ (IsPrefix(s, t) <=> n <= 3 /\ \A i \in 1..n : s[i] = t[i])
      BY <1>1, <2>1, <2>2
    <3> HIDE DEF n
    <3>2. CASE n = 1 BY <2>1, <3>1, <3>2 DEF n
    <3>3. CASE n = 2 BY <2>1, <3>1, <3>3 DEF n
    <3>4. CASE n = 3 BY <2>1, <3>1, <3>4 DEF n
    <3>5. CASE n > 3 BY <3>1, <3>5 DEF n
    <3>6. n = 1 \/ n = 2 \/ n = 3 \/ n > 3
      BY <3>1
    <3> QED BY <3>6, <3>2, <3>3, <3>4, <3>5
  <2> QED BY <2>3 DEF t
<1> QED BY <1>1, <1>2, <1>3, <1>4, <1>5, <1>6 DEF Marks

LEMMA MarkRule ==
  ASSUME NEW s, Span(s, Chars \ {"<"}) = 0,
         ~(IsPrefix(<<"<", "/">>, s) /\ IsPrefix(<<"<", "!">>, s)),
         ~(IsPrefix(<<"<", "/">>, s) /\ IsPrefix(<<"<", "!", "-", "-">>, s))
  PROVE  MarkRules(s, LongestMatch("initial", s))
<1> DEFINE n == Span(s, Chars \ {"<"})
           four == IsPrefix(<<"<", "!", "-", "-">>, s)
           two == IsPrefix(<<"<", "!">>, s)
           slash == IsPrefix(<<"<", "/">>, s)
           x1 == TextOf(Match(n, n = Len(s), "initial", "TEXT"), s, n)
           x2 == Eats(4, FALSE, "comment")
           x3 == Eats(2, IsPrefix(s, <<"<", "!", "-">>), "meta")
           x4 == Match(2, FALSE, "tag_name", "TAG_START_FLAG2")
           x5 == Match(1, Len(s) = 1, "tag_name", "TAG_START_FLAG")
           m == InInitial(s)
<1>0. LongestMatch("initial", s) = m
  BY DEF LongestMatch
<1>1. m = CASE n > 0 -> x1
           [] n = 0 /\ four -> x2
           [] n = 0 /\ two /\ ~four -> x3
           [] n = 0 /\ slash -> x4
           [] OTHER -> x5
  BY DEF InInitial
<1>2. n = 0
  OBVIOUS
<1>8. ~(slash /\ two) /\ ~(slash /\ four)
  OBVIOUS
<1> HIDE DEF m, n, four, two, slash, x1, x2, x3, x4, x5
<1>3. n = 0 /\ ~(n > 0)
  BY <1>2
<1>4. four => m = x2
  BY <1>1, <1>3, <1>8
<1>5. two /\ ~four => m = x3
  BY <1>1, <1>3, <1>8
<1>6. slash /\ ~two /\ ~four => m = x4
  BY <1>1, <1>3, <1>8
<1>7. ~slash /\ ~two /\ ~four => m = x5
  BY <1>1, <1>3, <1>8
<1> QED BY <1>0, <1>4, <1>5, <1>6, <1>7, Zenon DEF MarkRules, m, n, four, two, slash, x2, x3, x4, x5

LEMMA LexMarked ==
  ASSUME NEW s \in Seq(Chars), Len(s) > 0, s[1] = "<", NEW m, m = LongestMatch("initial", s)
  PROVE  Marks(s) /\ MarkRules(s, m)
<1>1. Marks(s)
  BY LexMark
<1>2. "!" # "/"
  OBVIOUS
<1>3. /\ Span(s, Chars \ {"<"}) = 0
      /\ ~(IsPrefix(<<"<", "/">>, s) /\ IsPrefix(<<"<", "!">>, s))
      /\ ~(IsPrefix(<<"<", "/">>, s) /\ IsPrefix(<<"<", "!", "-", "-">>, s))
  BY <1>1, <1>2 DEF Marks
<1> QED BY <1>1, <1>3, MarkRule

\* "<" alone may be any of them.
LEMMA LexShort ==
  ASSUME NEW s, Len(s) > 0, Len(s) < 2, NEW m, Marks(s), MarkRules(s, m)
  PROVE  m.open
<1>1. /\ ~IsPrefix(<<"<", "!", "-", "-">>, s) /\ ~IsPrefix(<<"<", "!">>, s)
      /\ ~IsPrefix(<<"<", "/">>, s)
  BY DEF Marks
<1>2. m = Match(1, Len(s) = 1, "tag_name", "TAG_START_FLAG")
  BY <1>1, Zenon DEF MarkRules
<1>3. m.open = (Len(s) = 1)
  BY <1>2 DEF Match
<1>4. \A n \in Nat : n > 0 /\ n < 2 => n = 1
  OBVIOUS
<1>5. Len(s) = 1
  BY <1>4, Zenon DEF Marks
<1> QED BY <1>3, <1>5

LEMMA LexComment ==
  ASSUME NEW s \in Seq(Chars), Len(s) > 0, s[1] = "<",
         Len(s) >= 2 => s[2] = "!", Len(s) >= 3 => s[3] = "-", Len(s) >= 4 => s[4] = "-",
         NEW all, all => Len(s) >= 4,
         NEW m, m = LongestMatch("initial", s), m.open => all
  PROVE  Takes(m, s, 4, "comment", "none")
<1>1. Len(s) \in Nat /\ Marks(s) /\ MarkRules(s, m)
  BY LexMarked, LenProperties
<1>2. CASE Len(s) >= 4
  <2>2. Len(s) >= 2 /\ Len(s) >= 3
    BY <1>1, <1>2
  <2>3. IsPrefix(<<"<", "!", "-", "-">>, s)
    BY <1>1, <1>2, <2>2 DEF Marks
  <2>1. m = Eats(4, FALSE, "comment")
    BY <1>1, <2>3, Zenon DEF MarkRules
  <2> QED BY <1>2, <2>1 DEF Eats, Match, Takes
<1>3. CASE Len(s) < 4 /\ Len(s) >= 2
  <2>1. /\ ~IsPrefix(<<"<", "!", "-", "-">>, s) /\ IsPrefix(<<"<", "!">>, s)
        /\ IsPrefix(s, <<"<", "!", "-">>)
    BY <1>1, <1>3 DEF Marks
  <2>2. m = Eats(2, TRUE, "meta")
    BY <1>1, <2>1 DEF MarkRules
  <2>3. m.open
    BY <2>2 DEF Eats, Match
  <2> QED BY <1>1, <1>3, <2>3
<1>4. CASE Len(s) < 2
  <2>2. m.open
    BY <1>1, <1>4, LexShort
  <2> QED BY <1>1, <1>4, <2>2
<1> QED BY <1>1, <1>2, <1>3, <1>4

LEMMA LexMeta ==
  ASSUME NEW s \in Seq(Chars), Len(s) > 0, s[1] = "<",
         Len(s) >= 2 => s[2] = "!", ~(Len(s) >= 4 /\ s[3] = "-" /\ s[4] = "-"),
         NEW all, all => Len(s) >= 2,
         NEW m, m = LongestMatch("initial", s), m.open => all
  PROVE  Takes(m, s, 2, "meta", "none")
<1>1. Len(s) \in Nat /\ Marks(s) /\ MarkRules(s, m)
  BY LexMarked, LenProperties
<1>2. CASE Len(s) >= 2
  <2>1. ~IsPrefix(<<"<", "!", "-", "-">>, s) /\ IsPrefix(<<"<", "!">>, s)
    BY <1>1, <1>2 DEF Marks
  <2>2. m = Eats(2, IsPrefix(s, <<"<", "!", "-">>), "meta")
    BY <1>1, <2>1, Zenon DEF MarkRules
  <2>3. m.len = 2 /\ m.next = "meta" /\ m.token = "none" /\ m.back = FALSE
    BY <2>2 DEF Eats, Match
  <2> QED BY <1>2, <2>3 DEF Takes
<1>4. CASE Len(s) < 2
  <2>2. m.open
    BY <1>1, <1>4, LexShort
  <2> QED BY <1>1, <1>4, <2>2
<1> QED BY <1>1, <1>2, <1>4

LEMMA LexClose ==
  ASSUME NEW s \in Seq(Chars), Len(s) > 0, s[1] = "<", Len(s) >= 2 => s[2] = "/",
         NEW all, all => Len(s) >= 2,
         NEW m, m = LongestMatch("initial", s), m.open => all
  PROVE  Takes(m, s, 2, "tag_name", "TAG_START_FLAG2")
<1>1. Len(s) \in Nat /\ Marks(s) /\ MarkRules(s, m)
  BY LexMarked, LenProperties
<1>2. CASE Len(s) >= 2
  <2>0. "!" # "/"
    OBVIOUS
  <2>1. /\ ~IsPrefix(<<"<", "!", "-", "-">>, s) /\ ~IsPrefix(<<"<", "!">>, s)
        /\ IsPrefix(<<"<", "/">>, s)
    BY <1>1, <1>2, <2>0 DEF Marks
  <2>2. m = Match(2, FALSE, "tag_name", "TAG_START_FLAG2")
    BY <1>1, <2>1, Zenon DEF MarkRules
  <2> QED BY <1>2, <2>2 DEF Match, Takes
<1>4. CASE Len(s) < 2
  <2>2. m.open
    BY <1>1, <1>4, LexShort
  <2> QED BY <1>1, <1>4, <2>2
<1> QED BY <1>1, <1>2, <1>4

LEMMA LexOpen ==
  ASSUME NEW s \in Seq(Chars), Len(s) > 0, s[1] = "<", Len(s) >= 2 => s[2] = "w",
         NEW m, m = LongestMatch("initial", s)
  PROVE  Takes(m, s, 1, "tag_name", "TAG_START_FLAG")
<1>1. Len(s) \in Nat /\ Marks(s) /\ MarkRules(s, m)
  BY LexMarked, LenProperties
<1>2. "!" # "w" /\ "/" # "w"
  OBVIOUS
<1>3. /\ ~IsPrefix(<<"<", "!", "-", "-">>, s) /\ ~IsPrefix(<<"<", "!">>, s)
      /\ ~IsPrefix(<<"<", "/">>, s)
  BY <1>1, <1>2 DEF Marks
<1>4. m = Match(1, Len(s) = 1, "tag_name", "TAG_START_FLAG")
  BY <1>1, <1>3, Zenon DEF MarkRules
<1>5. m.len = 1 /\ m.next = "tag_name" /\ m.token = "TAG_START_FLAG" /\ m.back = FALSE
  BY <1>4 DEF Match
<1> QED BY <1>1, <1>5 DEF Takes

LEMMA CommentEnds ==
  ASSUME NEW s \in Seq(Chars), Len(s) > 0
  PROVE  CommentMarks(s)
<1>1. Len(s) \in Nat
  BY LenProperties
<1>2. IsPrefix(<<"-", "-", ">">>, s) <=> Len(s) >= 3 /\ s[1] = "-" /\ s[2] = "-" /\ s[3] = ">"
  <2> DEFINE t == <<"-", "-", ">">>
  <2>1. t \in Seq(Chars) /\ Len(t) = 3 /\ t[1] = "-" /\ t[2] = "-" /\ t[3] = ">"
    BY Literals
  <2> HIDE DEF t
  <2>2. IsPrefix(t, s) <=> Len(t) <= Len(s) /\ \A i \in 1..Len(t) : t[i] = s[i]
    BY <2>1, PrefixIs
  <2>3. IsPrefix(t, s) <=> Len(s) >= 3 /\ s[1] = "-" /\ s[2] = "-" /\ s[3] = ">"
    BY <1>1, <2>1, <2>2
  <2> QED BY <2>3 DEF t
<1>3. ASSUME Len(s) <= 2, s[1] = "-", Len(s) = 2 => s[2] = "-" PROVE IsPrefix(s, <<"-", "-">>)
  <2> DEFINE t == <<"-", "-">>
  <2>1. t \in Seq(Chars) /\ Len(t) = 2 /\ t[1] = "-" /\ t[2] = "-"
    BY DEF Chars
  <2> HIDE DEF t
  <2>2. IsPrefix(s, t) <=> Len(s) <= Len(t) /\ \A i \in 1..Len(s) : s[i] = t[i]
    BY <2>1, PrefixIs
  <2>3. IsPrefix(s, t)
    BY <1>1, <1>3, <2>1, <2>2
  <2> QED BY <2>3 DEF t
<1> QED BY <1>2, <1>3 DEF CommentMarks

LEMMA LexInComment ==
  ASSUME NEW s \in Seq(Chars), Len(s) > 0, ~(s[1] = "-" /\ s[2] = "-" /\ s[3] = ">") \/ Len(s) < 3,
         NEW m, m = LongestMatch("comment", s)
  PROVE  Takes(m, s, 1, "comment", "none") /\ (m.open <=> IsPrefix(s, <<"-", "-">>))
<1>1. Len(s) \in Nat
  BY LenProperties
<1>3. CommentMarks(s)
  BY CommentEnds
<1>2. /\ m.len = 1 /\ m.next = "comment" /\ m.token = "none" /\ m.back = FALSE
      /\ m.open <=> IsPrefix(s, <<"-", "-">>)
  BY <1>1, <1>3 DEF LongestMatch, InComment, Eats, Match, CommentMarks
<1> QED BY <1>1, <1>2 DEF Takes

LEMMA LexCommentEnd ==
  ASSUME NEW s \in Seq(Chars), Len(s) > 0, s[1] = "-",
         Len(s) >= 2 => s[2] = "-", Len(s) >= 3 => s[3] = ">",
         NEW all, all => Len(s) >= 3,
         NEW m, m = LongestMatch("comment", s), m.open => all
  PROVE  Takes(m, s, 3, "initial", "none")
<1>1. Len(s) \in Nat
  BY LenProperties
<1>2. CASE Len(s) >= 3
  <2>1. m = Eats(3, FALSE, "initial")
    <3>1. CommentMarks(s)
      BY CommentEnds
    <3>2. Len(s) >= 2 /\ Len(s) >= 3
      BY <1>1, <1>2
    <3>3. IsPrefix(<<"-", "-", ">">>, s)
      BY <1>2, <3>1, <3>2 DEF CommentMarks
    <3>4. LongestMatch("comment", s) = InComment(s)
      BY DEF LongestMatch
    <3> QED BY <3>3, <3>4, Zenon DEF InComment
  <2> QED BY <1>2, <2>1 DEF Eats, Match, Takes
<1>3. CASE Len(s) < 3
  <2>1. m.open <=> IsPrefix(s, <<"-", "-">>)
    BY <1>3, LexInComment
  <2>2. m.open
    <3>1. CommentMarks(s)
      BY CommentEnds
    <3> QED BY <1>1, <1>3, <2>1, <3>1 DEF CommentMarks
  <2> QED BY <1>1, <1>3, <2>2
<1> QED BY <1>1, <1>2, <1>3

LEMMA LexInMeta ==
  ASSUME NEW s \in Seq(Chars), Len(s) > 0, NEW m, m = LongestMatch("meta", s)
  PROVE  Takes(m, s, 1, IF s[1] = ">" THEN "initial" ELSE "meta", "none")
<1>1. Len(s) \in Nat
  BY LenProperties
<1>2. m = Eats(1, FALSE, IF s[1] = ">" THEN "initial" ELSE "meta")
  BY DEF LongestMatch, InMeta
<1> QED BY <1>1, <1>2 DEF Eats, Match, Takes

LEMMA LexTagName ==
  ASSUME NEW s \in Seq(Chars), Len(s) > 0, s[1] = "w", Len(s) > 1 => s[2] # "w",
         NEW m, m = LongestMatch("tag_name", s)
  PROVE  Takes(m, s, 1, "prot_name", "TAG_NAME")
<1>1. Len(s) \in Nat
  BY LenProperties
<1>2. Span(s, {"s"}) = 0 /\ Span(s, {"w"}) = 1
  BY SpanNone, SpanOne
<1>3. m.len = 1 /\ m.next = "prot_name" /\ m.token = "TAG_NAME" /\ m.back = FALSE
  BY <1>2 DEF LongestMatch, InTagName, Match
<1> QED BY <1>1, <1>3 DEF Takes

LEMMA LexSpace ==
  ASSUME NEW s \in Seq(Chars), Len(s) > 0, s[1] = "s", Len(s) > 1 => s[2] # "s",
         NEW m, m = LongestMatch("prot_name", s)
  PROVE  Takes(m, s, 1, "prot_name", "none")
<1>1. Len(s) \in Nat
  BY LenProperties
<1>2. Span(s, {"s"}) = 1 /\ Span(s, {"w"}) = 0
  BY SpanOne, SpanNone
<1>3. m.len = 1 /\ m.next = "prot_name" /\ m.token = "none" /\ m.back = FALSE
  BY <1>2 DEF LongestMatch, InProtName, Eats, Match
<1> QED BY <1>1, <1>3 DEF Takes

\* Which of the rules for a slash matches.
LEMMA SlashRule ==
  ASSUME NEW s, s[1] = "/", Span(s, {"s"}) = 0, Span(s, {"w"}) = 0, Span(Tail(s), {"s"}) = 0
  PROVE  LET ends == 1 < Len(s) /\ s[2] = ">"
         IN  /\ ends => LongestMatch("prot_name", s) = Match(2, FALSE, "initial", "TAG_END_FLAG2")
             /\ ~ends => LongestMatch("prot_name", s) = Eats(1, 1 = Len(s), "prot_name")
<1> DEFINE spaces == Span(s, {"s"})
           letters == Span(s, {"w"})
           slash == 1 + Span(Tail(s), {"s"})
           ends == slash < Len(s) /\ s[slash + 1] = ">"
           first == s[1]
           x1 == Eats(spaces, spaces = Len(s), "prot_name")
           x2 == Match(letters, letters = Len(s), "prot_name", "PROT")
           x3 == Match(1, FALSE, "prot_value", "EQUAL")
           x4 == Match(1, FALSE, "initial", "TAG_END_FLAG")
           x5 == Match(slash + 1, FALSE, "initial", "TAG_END_FLAG2")
           x6 == Eats(1, slash = Len(s), "prot_name")
           x7 == Eats(1, FALSE, "prot_name")
           m == InProtName(s)
<1>0. LongestMatch("prot_name", s) = m
  BY DEF LongestMatch
<1>1. m = CASE spaces > 0 -> x1
           [] letters > 0 -> x2
           [] first = "=" -> x3
           [] first = ">" -> x4
           [] first = "/" /\ ends -> x5
           [] first = "/" /\ ~ends -> x6
           [] OTHER -> x7
  BY DEF InProtName
<1>2. slash = 1 /\ slash + 1 = 2
  OBVIOUS
<1>3. spaces = 0 /\ letters = 0 /\ first = "/"
  OBVIOUS
<1>4. /\ x5 = Match(2, FALSE, "initial", "TAG_END_FLAG2") /\ x6 = Eats(1, 1 = Len(s), "prot_name")
      /\ ends <=> 1 < Len(s) /\ s[2] = ">"
  BY <1>2, Zenon
<1> HIDE DEF m, spaces, letters, slash, ends, first, x1, x2, x3, x4, x5, x6, x7
<1>5. ~(spaces > 0) /\ ~(letters > 0) /\ first # "=" /\ first # ">" /\ first = "/"
  BY <1>3
<1>6. ends => m = x5
  BY <1>1, <1>5
<1>7. ~ends => m = x6
  BY <1>1, <1>5
<1> QED BY <1>0, <1>4, <1>6, <1>7, Zenon

LEMMA LexProt ==
  ASSUME NEW s \in Seq(Chars), Len(s) > 0, s[1] = "w", Len(s) > 1 => s[2] # "w",
         NEW m, m = LongestMatch("prot_name", s)
  PROVE  Takes(m, s, 1, "prot_name", "PROT")
<1>1. Len(s) \in Nat
  BY LenProperties
<1>2. Span(s, {"s"}) = 0 /\ Span(s, {"w"}) = 1
  BY SpanNone, SpanOne
<1>3. m.len = 1 /\ m.next = "prot_name" /\ m.token = "PROT" /\ m.back = FALSE
  BY <1>2 DEF LongestMatch, InProtName, Match
<1> QED BY <1>1, <1>3 DEF Takes

LEMMA LexEqual ==
  ASSUME NEW s \in Seq(Chars), Len(s) > 0, s[1] = "=", NEW m, m = LongestMatch("prot_name", s)
  PROVE  Takes(m, s, 1, "prot_value", "EQUAL")
<1>1. Len(s) \in Nat
  BY LenProperties
<1>2. Span(s, {"s"}) = 0 /\ Span(s, {"w"}) = 0
  BY SpanNone
<1>3. m = Match(1, FALSE, "prot_value", "EQUAL")
  BY <1>2 DEF LongestMatch, InProtName
<1> QED BY <1>1, <1>3 DEF Match, Takes

LEMMA LexTagEnd ==
  ASSUME NEW s \in Seq(Chars), Len(s) > 0, s[1] = ">", NEW m, m = LongestMatch("prot_name", s)
  PROVE  Takes(m, s, 1, "initial", "TAG_END_FLAG")
<1>1. Len(s) \in Nat
  BY LenProperties
<1>2. Span(s, {"s"}) = 0 /\ Span(s, {"w"}) = 0
  BY SpanNone
<1>3. m = Match(1, FALSE, "initial", "TAG_END_FLAG")
  BY <1>2 DEF LongestMatch, InProtName
<1> QED BY <1>1, <1>3 DEF Match, Takes

LEMMA LexVoidEnd ==
  ASSUME NEW s \in Seq(Chars), Len(s) > 0, s[1] = "/", Len(s) > 1 => s[2] = ">",
         NEW all, all => Len(s) >= 2,
         NEW m, m = LongestMatch("prot_name", s), m.open => all
  PROVE  Takes(m, s, 2, "initial", "TAG_END_FLAG2")
<1> DEFINE t == Tail(s)
<1>1. Len(s) \in Nat /\ s # <<>>
  BY LenProperties, EmptySeq
<1>2. Span(s, {"s"}) = 0 /\ Span(s, {"w"}) = 0
  BY SpanNone
<1>3. t \in Seq(Chars) /\ Len(t) = Len(s) - 1 /\ (Len(s) > 1 => t[1] = s[2])
  <2>1. t \in Seq(Chars) /\ Len(t) = Len(s) - 1 /\ \A i \in 1..Len(s) - 1 : t[i] = s[i + 1]
    BY <1>1, HeadTailProperties
  <2>2. Len(s) > 1 => 1 \in 1..Len(s) - 1
    BY <1>1
  <2> QED BY <2>1, <2>2
<1> HIDE DEF t
<1>4. Span(t, {"s"}) = 0
  <2>1. CASE Len(s) > 1
    BY <1>1, <1>3, <2>1, SpanNone
  <2>2. CASE Len(s) < 2
    <3>1. /\ Len(t) < 1 /\ 0 \in 0..Len(t) /\ (\A i \in 1..0 : t[i] \in {"s"})
          /\ (0 < Len(t) => t[0 + 1] \notin {"s"})
      BY <1>3, <2>2
    <3> QED BY <1>3, <3>1, SpanIs
  <2>3. Len(s) > 1 \/ Len(s) < 2
    BY <1>1
  <2> QED BY <2>3, <2>1, <2>2
<1>5. CASE Len(s) > 1
  <2>1. 1 < Len(s) /\ s[2] = ">"
    BY <1>1, <1>5
  <2>2. m = Match(2, FALSE, "initial", "TAG_END_FLAG2")
    BY <1>2, <1>4, <2>1, SlashRule DEF t
  <2>3. m.len = 2 /\ m.next = "initial" /\ m.token = "TAG_END_FLAG2" /\ m.back = FALSE
    BY <2>2 DEF Match
  <2> QED BY <1>1, <1>5, <2>3 DEF Takes
<1>6. CASE Len(s) < 2
  <2>1. \A k \in Nat : k > 0 /\ k < 2 => k = 1
    OBVIOUS
  <2>2. 1 = Len(s)
    BY <1>1, <1>6, <2>1, Zenon
  <2>3. m = Eats(1, 1 = Len(s), "prot_name")
    <3>1. ~(1 < Len(s) /\ s[2] = ">")
      BY <1>1, <1>6
    <3> QED BY <1>2, <1>4, <3>1, SlashRule DEF t
  <2>4. m.open = (1 = Len(s))
    BY <2>3 DEF Eats, Match
  <2>5. m.open
    BY <2>2, <2>4, Zenon
  <2> QED BY <1>1, <1>6, <2>5
<1> QED BY <1>1, <1>5, <1>6

LEMMA LexQuote ==
  ASSUME NEW s \in Seq(Chars), Len(s) > 0, s[1] = "q", NEW m, m = LongestMatch("prot_value", s)
  PROVE  Takes(m, s, 1, "quoted", "none") /\ ~m.open
<1>1. Len(s) \in Nat
  BY LenProperties
<1>2. Span(s, {"s"}) = 0
  BY SpanNone
<1>4. ~(Span(s, {"s"}) > 0)
  BY <1>2
<1>3. m = Eats(1, FALSE, "quoted")
  BY <1>4 DEF LongestMatch, InProtValue
<1> QED BY <1>1, <1>3 DEF Eats, Match, Takes

LEMMA LexNoQuote ==
  ASSUME NEW s \in Seq(Chars), Len(s) > 0, s[1] \notin {"s", "q"},
         NEW m, m = LongestMatch("prot_value", s)
  PROVE  Backs(m, "noquote")
<1>1. Span(s, {"s"}) = 0
  BY SpanNone
<1>3. ~(Span(s, {"s"}) > 0) /\ s[1] # "q"
  BY <1>1
<1>2. m = PutsBack("noquote")
  BY <1>3 DEF LongestMatch, InProtValue
<1> QED BY <1>2 DEF PutsBack, Eats, Match, Backs

LEMMA LexQuoted ==
  ASSUME NEW s \in Seq(Chars), NEW n \in Nat, Len(s) > 0,
         \A i \in 1..Len(s) : (i <= n => s[i] # "q") /\ (i = n + 1 => s[i] = "q"),
         NEW all, all => Len(s) >= n + 1,
         NEW m, m = LongestMatch("quoted", s), m.open => all
  PROVE  Takes(m, s, n + 1, "prot_name", "TEXT") /\ m.text = SubSeq(s, 1, n)
<1> DEFINE C == Chars \ {"q"}
           k == IF n <= Len(s) THEN n ELSE Len(s)
<1>1. Len(s) \in Nat /\ \A i \in 1..Len(s) : s[i] \in Chars
  BY LenProperties, ElementOfSeq
<1>2. k \in 0..Len(s)
  BY <1>1
<1>3. \A i \in 1..k : s[i] \in C
  BY <1>1
<1>4. k < Len(s) => s[k + 1] \notin C
  BY <1>1
<1>6. (k < n => k = Len(s)) /\ k <= n /\ k <= Len(s)
  BY <1>1
<1> HIDE DEF k
<1>5. Span(s, C) = k
  BY <1>2, <1>3, <1>4, SpanIs
<1>7. CASE k < Len(s)
  <2>1. m = TextOf(Match(k + 1, FALSE, "prot_name", "TEXT"), s, k)
    BY <1>5, <1>7 DEF LongestMatch, InQuoted
  <2>2. k = n /\ n + 1 <= Len(s) /\ n + 1 \in Nat
    BY <1>1, <1>2, <1>6, <1>7
  <2> QED BY <2>1, <2>2 DEF TextOf, Match, Takes
<1>8. CASE ~(k < Len(s))
  <2>1. m = Match(1, TRUE, "quoted", "BAD")
    BY <1>5, <1>8 DEF LongestMatch, InQuoted
  <2>2. m.open
    BY <2>1 DEF Match
  <2> QED BY <1>1, <1>2, <1>6, <1>8, <2>2
<1> QED BY <1>7, <1>8

LEMMA LexPlain ==
  ASSUME NEW s \in Seq(Chars), NEW n \in Nat, n > 0, Len(s) > 0,
         \A i \in 1..Len(s) : (i <= n => s[i] \notin {"s", "<", ">"})
                              /\ (i = n + 1 => s[i] \in {"s", "<", ">"}),
         NEW all, all => Len(s) >= n,
         NEW m, m = LongestMatch("noquote", s), m.open => all
  PROVE  Takes(m, s, n, "prot_name", "TEXT") /\ m.text = SubSeq(s, 1, n)
<1> DEFINE C == Chars \ {"s", "<", ">"}
           k == IF n <= Len(s) THEN n ELSE Len(s)
<1>1. Len(s) \in Nat /\ \A i \in 1..Len(s) : s[i] \in Chars
  BY LenProperties, ElementOfSeq
<1>2. k \in 0..Len(s) /\ k > 0
  BY <1>1
<1>3. \A i \in 1..k : s[i] \in C
  BY <1>1
<1>4. k < Len(s) => s[k + 1] \notin C
  BY <1>1
<1>6. (k < n => k = Len(s)) /\ k <= n /\ k <= Len(s)
  BY <1>1
<1> HIDE DEF k
<1>5. Span(s, C) = k
  BY <1>2, <1>3, <1>4, SpanIs
<1>8. m = TextOf(Match(k, k = Len(s), "prot_name", "TEXT"), s, k)
  BY <1>2, <1>5 DEF LongestMatch, InNoQuote
<1>9. /\ m.len = k /\ (m.open <=> k = Len(s)) /\ m.next = "prot_name" /\ m.token = "TEXT"
      /\ m.back = FALSE /\ m.text = SubSeq(s, 1, k)
  BY <1>8 DEF TextOf, Match
<1>10. k = n
  BY <1>1, <1>2, <1>6, <1>9
<1> QED BY <1>6, <1>9, <1>10 DEF Takes

LEMMA LexNoValue ==
  ASSUME NEW s \in Seq(Chars), Len(s) > 0, s[1] \in {"s", "<", ">"},
         NEW m, m = LongestMatch("noquote", s)
  PROVE  Backs(m, "prot_name")
<1>1. Span(s, Chars \ {"s", "<", ">"}) = 0
  BY SpanNone
<1>2. m = PutsBack("prot_name")
  BY <1>1 DEF LongestMatch, InNoQuote
<1> QED BY <1>2 DEF PutsBack, Eats, Match, Backs

-----------------------------------------------------------------------------
(* Counting the items of a page.                                           *)

LEMMA Counting ==
  ASSUME NEW S, NEW n \in Nat
  PROVE  CountedTo(S, n)
<1>1. ASSUME NEW a \in Int, NEW b \in Int
      PROVE  IsFiniteSet(S \cap (a..b)) /\ Cardinality(S \cap (a..b)) \in Nat
  <2>1. IsFiniteSet(a..b)
    BY FS_Interval
  <2>2. S \cap (a..b) \in SUBSET (a..b)
    OBVIOUS
  <2>3. IsFiniteSet(S \cap (a..b))
    BY <2>1, <2>2, FS_Subset
  <2> QED BY <2>3, FS_CardinalityType
<1>2. ASSUME NEW a \in 0..n, NEW b \in a..n
      PROVE  Upto(S, b) = Upto(S, a) + Cardinality(S \cap ((a + 1)..b)) /\ Upto(S, a) <= Upto(S, b)
  <2> DEFINE A == S \cap (1..a)
             B == S \cap ((a + 1)..b)
             C == S \cap (1..b)
  <2>1. /\ IsFiniteSet(A) /\ IsFiniteSet(B) /\ Cardinality(A) \in Nat /\ Cardinality(B) \in Nat
    <3>1. 1 \in Int /\ a \in Int /\ a + 1 \in Int /\ b \in Int
      OBVIOUS
    <3> QED BY <1>1, <3>1, Zenon
  <2>2. C = A \cup B /\ A \cap B = {}
    OBVIOUS
  <2> HIDE DEF A, B, C
  <2>3. Cardinality(A \cup B) = Cardinality(A) + Cardinality(B) - Cardinality(A \cap B)
    BY <2>1, FS_Union
  <2>4. Cardinality(A \cap B) = 0
    BY <2>2, FS_EmptySet
  <2>5. Cardinality(C) = Cardinality(A) + Cardinality(B) /\ Cardinality(A) <= Cardinality(C)
    BY <2>1, <2>2, <2>3, <2>4
  <2> QED BY <2>5 DEF Upto, A, B, C
<1>3. \A b \in 0..n : Upto(S, b) \in Nat
  BY <1>1 DEF Upto
<1>4. Upto(S, 0) = 0
  <2>1. S \cap (1..0) = {}
    OBVIOUS
  <2> QED BY <2>1, FS_EmptySet DEF Upto
<1>5. ASSUME NEW b \in 1..n
      PROVE  Upto(S, b) = Upto(S, b - 1) + (IF b \in S THEN 1 ELSE 0)
  <2> DEFINE B == S \cap (((b - 1) + 1)..b)
  <2>1. b - 1 \in 0..n /\ b \in (b - 1)..n
    OBVIOUS
  <2>2. Upto(S, b) = Upto(S, b - 1) + Cardinality(B)
    BY <1>2, <2>1
  <2>3. B = IF b \in S THEN {b} ELSE {}
    OBVIOUS
  <2> HIDE DEF B
  <2>4. Cardinality(B) = IF b \in S THEN 1 ELSE 0
    <3>1. CASE b \in S
      BY <2>3, <3>1, FS_Singleton
    <3>2. CASE b \notin S
      BY <2>3, <3>2, FS_EmptySet
    <3> QED BY <3>1, <3>2
  <2> QED BY <2>2, <2>4
<1> QED BY <1>2, <1>3, <1>4, <1>5 DEF CountedTo

LEMMA RiseIs ==
  ASSUME NEW page, Len(page) \in Nat
  PROVE  RiseSteps(page)
<1> DEFINE n == Len(page)
           O == Opens(page)
           C == Closes(page)
<1>1. CountedTo(O, n) /\ CountedTo(C, n)
  BY Counting
<1>2. ASSUME NEW b \in 0..n PROVE Rise(page, b) = Upto(O, b) - Upto(C, b)
  <2>1. /\ {i \in 1..b : page[i].kind = "open"} = O \cap (1..b)
        /\ {i \in 1..b : page[i].kind = "close"} = C \cap (1..b)
    BY DEF Opens, Closes
  <2> QED BY <2>1 DEF Rise, Upto
<1>3. \A b \in 1..n : /\ b \in O <=> page[b].kind = "open"
                      /\ b \in C <=> page[b].kind = "close"
  BY DEF Opens, Closes
<1>4. n \in Nat
  OBVIOUS
<1>5. RiseSteps(page) <=>
        /\ Rise(page, 0) = 0
        /\ \A b \in 0..n : Rise(page, b) \in Int
        /\ \A b \in 1..n :
             Rise(page, b) = Rise(page, b - 1) + (IF page[b].kind = "open" THEN 1
                                                  ELSE IF page[b].kind = "close" THEN 0 - 1 ELSE 0)
  BY DEF RiseSteps
<1> HIDE DEF n, O, C
<1>6. Rise(page, 0) = 0
  BY <1>1, <1>2, <1>4 DEF CountedTo
<1>7. \A b \in 0..n : Rise(page, b) \in Int
  BY <1>1, <1>2 DEF CountedTo
<1>8. ASSUME NEW b \in 1..n
      PROVE  Rise(page, b) = Rise(page, b - 1) + (IF page[b].kind = "open" THEN 1
                                                  ELSE IF page[b].kind = "close" THEN 0 - 1 ELSE 0)
  <2>1. b \in 0..n /\ b - 1 \in 0..n
    BY <1>4
  <2>2. Rise(page, b) = Upto(O, b) - Upto(C, b) /\ Rise(page, b - 1) = Upto(O, b - 1) - Upto(C, b - 1)
    BY <1>2, <2>1
  <2>3. /\ Upto(O, b) = Upto(O, b - 1) + (IF b \in O THEN 1 ELSE 0)
        /\ Upto(C, b) = Upto(C, b - 1) + (IF b \in C THEN 1 ELSE 0)
        /\ Upto(O, b - 1) \in Nat /\ Upto(C, b - 1) \in Nat
    BY <1>1, <2>1 DEF CountedTo
  <2>4. /\ b \in O <=> page[b].kind = "open"
        /\ b \in C <=> page[b].kind = "close"
    BY <1>3
  <2> QED BY <2>2, <2>3, <2>4
<1> QED BY <1>5, <1>6, <1>7, <1>8

\* Without void tags the tags between two places are in balance as they rise.
LEMMA BalanceIs ==
  ASSUME NEW page, Len(page) \in Nat, DOMAIN page = 1..Len(page), ~HasVoid(page),
         NEW a \in 0..Len(page), NEW b \in a..Len(page)
  PROVE  Balance(page, a + 1, b) = Rise(page, b) - Rise(page, a)
<1> DEFINE n == Len(page)
           O == Opens(page)
           C == Closes(page)
<1>1. CountedTo(O, n) /\ CountedTo(C, n)
  BY Counting
<1>2. ASSUME NEW k \in 0..n PROVE Rise(page, k) = Upto(O, k) - Upto(C, k)
  <2>1. /\ {i \in 1..k : page[i].kind = "open"} = O \cap (1..k)
        /\ {i \in 1..k : page[i].kind = "close"} = C \cap (1..k)
    BY DEF Opens, Closes
  <2> QED BY <2>1 DEF Rise, Upto
<1>3. \A i \in (a + 1)..b : i \in 1..n /\ (page[i].kind = "open" => ~page[i].void)
  BY DEF HasVoid
<1>4. /\ {i \in (a + 1)..b : page[i].kind = "open" /\ ~page[i].void} = O \cap ((a + 1)..b)
      /\ {i \in (a + 1)..b : page[i].kind = "close"} = C \cap ((a + 1)..b)
  BY <1>3 DEF Opens, Closes
<1>5. Balance(page, a + 1, b) = Cardinality(O \cap ((a + 1)..b)) - Cardinality(C \cap ((a + 1)..b))
  BY <1>4 DEF Balance
<1>6. /\ Upto(O, b) = Upto(O, a) + Cardinality(O \cap ((a + 1)..b))
      /\ Upto(C, b) = Upto(C, a) + Cardinality(C \cap ((a + 1)..b))
      /\ Upto(O, a) \in Nat /\ Upto(C, a) \in Nat
      /\ Cardinality(O \cap ((a + 1)..b)) \in Int /\ Cardinality(C \cap ((a + 1)..b)) \in Int
  <2>1. /\ Upto(O, b) = Upto(O, a) + Cardinality(O \cap ((a + 1)..b))
        /\ Upto(C, b) = Upto(C, a) + Cardinality(C \cap ((a + 1)..b))
        /\ Upto(O, a) \in Nat /\ Upto(C, a) \in Nat
    BY <1>1 DEF CountedTo
  <2>2. IsFiniteSet((a + 1)..b)
    BY FS_Interval
  <2>3. O \cap ((a + 1)..b) \in SUBSET ((a + 1)..b) /\ C \cap ((a + 1)..b) \in SUBSET ((a + 1)..b)
    OBVIOUS
  <2>4. IsFiniteSet(O \cap ((a + 1)..b)) /\ IsFiniteSet(C \cap ((a + 1)..b))
    BY <2>2, <2>3, FS_Subset
  <2> QED BY <2>1, <2>4, FS_CardinalityType
<1>7. Rise(page, b) = Upto(O, b) - Upto(C, b) /\ Rise(page, a) = Upto(O, a) - Upto(C, a)
  BY <1>2
<1> HIDE DEF O, C
<1> QED BY <1>5, <1>6, <1>7

LEMMA NumberIs ==
  ASSUME NEW page, Len(page) \in Nat
  PROVE  Numbered(page)
<1> DEFINE n == Len(page)
           O == Shows(page)
<1>1. CountedTo(O, n)
  BY Counting
<1>2. ASSUME NEW b \in 0..n PROVE Number(page, b) = Upto(O, b)
  <2>1. {k \in 1..b : page[k].kind \in Shown} = O \cap (1..b)
    BY DEF Shows
  <2> QED BY <2>1 DEF Number, Upto
<1>3. \A b \in 1..n : b \in O <=> page[b].kind \in Shown
  BY DEF Shows
<1>4. n \in Nat
  OBVIOUS
<1>5. Numbered(page) <=>
        /\ Number(page, 0) = 0
        /\ \A b \in 0..n : Number(page, b) \in Nat
        /\ \A b \in 1..n :
             Number(page, b) = Number(page, b - 1) + (IF page[b].kind \in Shown THEN 1 ELSE 0)
        /\ \A a \in 0..n : \A b \in a..n : Number(page, a) <= Number(page, b)
  BY DEF Numbered
<1> HIDE DEF n, O
<1>6. Number(page, 0) = 0
  BY <1>1, <1>2, <1>4 DEF CountedTo
<1>7. \A b \in 0..n : Number(page, b) \in Nat
  BY <1>1, <1>2 DEF CountedTo
<1>8. ASSUME NEW b \in 1..n
      PROVE  Number(page, b) = Number(page, b - 1) + (IF page[b].kind \in Shown THEN 1 ELSE 0)
  <2>1. b \in 0..n /\ b - 1 \in 0..n
    BY <1>4
  <2>2. Upto(O, b) = Upto(O, b - 1) + (IF b \in O THEN 1 ELSE 0)
    BY <1>1, <2>1 DEF CountedTo
  <2> QED BY <1>2, <1>3, <2>1, <2>2
<1>9. ASSUME NEW a \in 0..n, NEW b \in a..n PROVE Number(page, a) <= Number(page, b)
  <2>1. b \in 0..n
    BY <1>4
  <2>2. Upto(O, a) <= Upto(O, b)
    BY <1>1, <1>4 DEF CountedTo
  <2> QED BY <1>2, <2>1, <2>2
<1> QED BY <1>5, <1>6, <1>7, <1>8, <1>9

\* Items before one that is a node have smaller numbers.
LEMMA NumberLess ==
  ASSUME NEW page, Len(page) \in Nat, NEW j \in 1..Len(page), page[j].kind \in Shown,
         NEW i \in 0..j - 1
  PROVE  Number(page, i) < Number(page, j)
<1>1. Numbered(page)
  BY NumberIs
<1>2. j - 1 \in 0..Len(page) /\ i \in 0..Len(page) /\ j - 1 \in i..Len(page)
  OBVIOUS
<1>3. Number(page, j) = Number(page, j - 1) + 1 /\ Number(page, j - 1) \in Nat
  BY <1>1, <1>2 DEF Numbered
<1>4. Number(page, i) <= Number(page, j - 1) /\ Number(page, i) \in Nat
  BY <1>1, <1>2 DEF Numbered
<1> QED BY <1>3, <1>4

LEMMA NumberApart ==
  ASSUME NEW page, Len(page) \in Nat, NEW i \in 1..Len(page), NEW j \in 1..Len(page),
         page[i].kind \in Shown, page[j].kind \in Shown, Number(page, i) = Number(page, j)
  PROVE  i = j
<1>1. Numbered(page)
  BY NumberIs
<1>2. Number(page, i) \in Nat /\ Number(page, j) \in Nat
  BY <1>1 DEF Numbered
<1>3. CASE i < j
  <2>1. i \in 0..j - 1
    BY <1>3
  <2>2. Number(page, i) < Number(page, j)
    BY <2>1, NumberLess
  <2> QED BY <1>2, <2>2
<1>4. CASE j < i
  <2>1. j \in 0..i - 1
    BY <1>4
  <2>2. Number(page, j) < Number(page, i)
    BY <2>1, NumberLess
  <2> QED BY <1>2, <2>2
<1> QED BY <1>3, <1>4

\* Where the number of a node is among those of the first c items.
LEMMA NumberRange ==
  ASSUME NEW page, Len(page) \in Nat, NEW c \in 0..Len(page), NEW i \in 1..c, page[i].kind \in Shown
  PROVE  Number(page, i) \in 1..Number(page, c) /\ Number(page, c) \in Nat
<1>1. Numbered(page)
  BY NumberIs
<1>2. i \in 1..Len(page) /\ i \in 0..Len(page) /\ c \in i..Len(page) /\ 0 \in 0..i - 1
  OBVIOUS
<1>3. Number(page, i) \in Nat /\ Number(page, c) \in Nat /\ Number(page, i) <= Number(page, c)
  BY <1>1, <1>2 DEF Numbered
<1>4. Number(page, 0) < Number(page, i) /\ Number(page, 0) = 0
  BY <1>1, <1>2, NumberLess DEF Numbered
<1> QED BY <1>3, <1>4

-----------------------------------------------------------------------------
(* The tree of one more item.                                              *)

\* What comes next is directly within the innermost of them.
LEMMA WithinNext ==
  ASSUME NEW page, PageTyped(page), ~HasVoid(page), NEW c \in 0..Len(page) - 1,
         NEW d, NEW st, Opened(page, c, st, d), NEW j \in 1..c
  PROVE  Within(page, j, c + 1) <=> j = st[d]
<1>1. /\ Len(page) \in Nat /\ DOMAIN page = 1..Len(page) /\ d \in Nat /\ d > 0
      /\ d \in 1..d /\ st[d] \in 0..c
  BY DEF PageTyped, Opened
<1>2. \A a \in 0..c : Rise(page, a) \in Int
  BY <1>1, RiseIs DEF RiseSteps
<1>3. \A b \in j..c : Balance(page, j + 1, b) = Rise(page, b) - Rise(page, j)
  <2> SUFFICES ASSUME NEW b \in j..c
               PROVE  Balance(page, j + 1, b) = Rise(page, b) - Rise(page, j)
    OBVIOUS
  <2>1. j \in 0..Len(page) /\ b \in j..Len(page)
    BY <1>1
  <2> QED BY <1>1, <2>1, BalanceIs
<1>4. \A i \in 1..c : page[i].kind = "open" =>
        ~page[i].void /\ Rise(page, i) = Rise(page, i - 1) + 1 /\ i - 1 \in 0..c
  <2> SUFFICES ASSUME NEW i \in 1..c, page[i].kind = "open"
               PROVE  ~page[i].void /\ Rise(page, i) = Rise(page, i - 1) + 1 /\ i - 1 \in 0..c
    OBVIOUS
  <2>1. i \in 1..Len(page)
    BY <1>1
  <2>2. ~page[i].void
    BY <1>1, <2>1 DEF HasVoid
  <2>3. Rise(page, i) = Rise(page, i - 1) + 1
    BY <1>1, <2>1, RiseIs DEF RiseSteps
  <2> QED BY <2>2, <2>3
<1>5. Within(page, j, c + 1) <=>
        /\ page[j].kind = "open"
        /\ \A b \in j..c : Rise(page, b) >= Rise(page, j)
        /\ Rise(page, c) = Rise(page, j)
  <2>1. j < c + 1 /\ (c + 1) - 1 = c /\ c \in j..c /\ j..((c + 1) - 1) = j..c
    OBVIOUS
  <2>2. \A b \in j..c : Balance(page, j + 1, b) >= 0 <=> Rise(page, b) >= Rise(page, j)
    <3> SUFFICES ASSUME NEW b \in j..c
                 PROVE  Balance(page, j + 1, b) >= 0 <=> Rise(page, b) >= Rise(page, j)
      OBVIOUS
    <3>1. Rise(page, b) \in Int /\ Rise(page, j) \in Int
      BY <1>2
    <3> QED BY <1>3, <3>1
  <2>3. Balance(page, j + 1, c) = 0 <=> Rise(page, c) = Rise(page, j)
    <3>1. Rise(page, c) \in Int /\ Rise(page, j) \in Int
      BY <1>2
    <3>2. Balance(page, j + 1, c) = Rise(page, c) - Rise(page, j)
      BY <1>3, <2>1
    <3> QED BY <3>1, <3>2
  <2>4. Within(page, j, c + 1) <=>
          /\ page[j].kind = "open" /\ ~page[j].void
          /\ \A b \in j..c : Balance(page, j + 1, b) >= 0
          /\ Balance(page, j + 1, c) = 0
    BY <2>1, Zenon DEF Within
  <2>5. page[j].kind = "open" => ~page[j].void
    BY <1>4
  <2> QED BY <2>2, <2>3, <2>4, <2>5, Zenon
<1>6. /\ Rise(page, c) = d - 1 /\ Rise(page, st[d]) = d - 1
      /\ \A b \in st[d]..c : Rise(page, b) >= d - 1
      /\ d > 1 => page[st[d]].kind = "open"
  BY <1>1 DEF Opened
<1>7. ASSUME j = st[d] PROVE Within(page, j, c + 1)
  <2>1. d > 1
    <3>1. d = 1 => st[d] = 0
      BY DEF Opened
    <3> QED BY <1>1, <1>7, <3>1
  <2> QED BY <1>5, <1>6, <1>7, <2>1
<1>8. ASSUME Within(page, j, c + 1) PROVE j = st[d]
  <2> DEFINE s == st[d]
  <2>1. /\ page[j].kind = "open" /\ Rise(page, j) = d - 1
        /\ \A b \in j..c : Rise(page, b) >= d - 1
    BY <1>5, <1>6, <1>8
  <2>2. Rise(page, j - 1) = d - 2 /\ j - 1 \in 0..c
    <3>1. Rise(page, j) = Rise(page, j - 1) + 1 /\ j - 1 \in 0..c
      BY <1>4, <2>1
    <3>2. Rise(page, j - 1) \in Int
      BY <1>2, <3>1
    <3> QED BY <1>1, <2>1, <3>1, <3>2
  <2>3. d > 1
    <3>1. Rise(page, j - 1) >= 0
      BY <2>2 DEF Opened
    <3> QED BY <1>1, <2>2, <3>1
  <2>4. s \in 0..c /\ page[s].kind = "open" /\ Rise(page, s) = d - 1
    BY <1>1, <1>6, <2>3
  <2>5. s # 0
    <3>1. Rise(page, 0) = 0
      BY <1>1, RiseIs DEF RiseSteps
    <3> QED BY <1>1, <2>3, <2>4, <3>1
  <2>6. Rise(page, s - 1) = d - 2 /\ s \in 1..c
    <3>1. s \in 1..c
      BY <2>4, <2>5
    <3>2. Rise(page, s) = Rise(page, s - 1) + 1 /\ s - 1 \in 0..c
      BY <1>4, <2>4, <3>1
    <3>3. Rise(page, s - 1) \in Int
      BY <1>2, <3>2
    <3> QED BY <1>1, <2>4, <3>1, <3>2, <3>3
  <2>7. \A b \in s..c : Rise(page, b) >= d - 1
    BY <1>6
  <2> HIDE DEF s
  <2>8. ~(s < j)
    <3> SUFFICES ASSUME s < j PROVE FALSE
      OBVIOUS
    <3>1. j - 1 \in s..c
      BY <2>6
    <3> QED BY <1>1, <2>2, <2>7, <3>1
  <2>9. ~(j < s)
    <3> SUFFICES ASSUME j < s PROVE FALSE
      OBVIOUS
    <3>1. s - 1 \in j..c
      BY <2>6
    <3> QED BY <1>1, <2>1, <2>6, <3>1
  <2>10. j = s
    BY <2>6, <2>8, <2>9
  <2> QED BY <2>10 DEF s
<1> QED BY <1>7, <1>8

LEMMA KidsNext ==
  ASSUME NEW page, PageTyped(page), ~HasVoid(page), NEW c \in 0..Len(page) - 1,
         NEW d, NEW st, Opened(page, c, st, d), NEW j \in 0..c
  PROVE  KidsGrow(page, j, c, st[d])
<1> DEFINE W(k) == IF j = 0 THEN ~\E n \in DOMAIN page : Within(page, n, k) ELSE Within(page, j, k)
           D(n) == {k \in 1..n : page[k].kind \in Shown /\ W(k)}
<1>1. /\ Len(page) \in Nat /\ DOMAIN page = 1..Len(page) /\ d \in Nat /\ d > 0
      /\ d \in 1..d /\ st[d] \in 0..c
  BY DEF PageTyped, Opened
<1>2. W(c + 1) <=> j = st[d]
  <2>1. CASE j # 0
    BY <2>1, WithinNext
  <2>2. CASE j = 0
    <3>1. ASSUME NEW n \in DOMAIN page, Within(page, n, c + 1) PROVE n = st[d] /\ n # 0
      <4>1. n \in 1..c
        BY <1>1, <3>1 DEF Within
      <4> QED BY <3>1, <4>1, WithinNext
    <3>2. ASSUME st[d] # 0 PROVE \E n \in DOMAIN page : Within(page, n, c + 1)
      <4>1. st[d] \in 1..c /\ st[d] \in DOMAIN page
        BY <1>1, <3>2
      <4>2. Within(page, st[d], c + 1)
        BY <4>1, WithinNext
      <4> QED BY <4>1, <4>2
    <3> QED BY <2>2, <3>1, <3>2
  <2> QED BY <2>1, <2>2
<1>3. KidsSoFar(page, j, c + 1) = {Number(page, i) : i \in D(c + 1)}
  BY Zenon DEF KidsSoFar
<1>4. KidsSoFar(page, j, c) = {Number(page, i) : i \in D(c)}
  BY Zenon DEF KidsSoFar
<1>5. D(c + 1) = IF page[c + 1].kind \in Shown /\ j = st[d] THEN D(c) \cup {c + 1} ELSE D(c)
  <2> HIDE DEF W
  <2>1. \A k : k \in 1..c + 1 <=> k \in 1..c \/ k = c + 1
    OBVIOUS
  <2> QED BY <1>2, <2>1
<1> HIDE DEF D
<1> QED BY <1>3, <1>4, <1>5 DEF KidsGrow

LEMMA KidsNone ==
  ASSUME NEW page, NEW c \in Nat, NEW j \in Nat, j >= c, j # 0
  PROVE  KidsSoFar(page, j, c) = {}
<1>1. \A k \in 1..c : ~Within(page, j, k)
  BY DEF Within
<1> QED BY <1>1 DEF KidsSoFar

LEMMA KidsNumbers ==
  ASSUME NEW page, PageTyped(page), NEW c \in 0..Len(page), NEW j
  PROVE  \A x \in KidsSoFar(page, j, c) : x \in 1..Number(page, c)
<1> SUFFICES ASSUME NEW x \in KidsSoFar(page, j, c) PROVE x \in 1..Number(page, c)
  OBVIOUS
<1>1. PICK i \in 1..c : page[i].kind \in Shown /\ x = Number(page, i)
  BY DEF KidsSoFar
<1> QED BY <1>1, NumberRange DEF PageTyped

LEMMA InOrderNext ==
  ASSUME NEW list \in Seq(Nat), NEW S, InOrder(list, S), NEW x \in Nat, \A y \in S : y < x
  PROVE  InOrder(Append(list, x), S \cup {x})
<1> DEFINE u == Append(list, x)
           n == Len(list)
<1>1. /\ n \in Nat /\ DOMAIN list = 1..n /\ ToSet(list) = S
      /\ \A a, b \in 1..n : a < b => list[a] < list[b]
  <2>1. n \in Nat /\ DOMAIN list = 1..n
    BY LenProperties
  <2> QED BY <2>1 DEF InOrder
<1>2. ToSet(u) = S \cup {x}
  BY <1>1, ToSetAppend
<1>3. /\ u \in Seq(Nat) /\ Len(u) = n + 1
      /\ \A a \in 1..n : u[a] = list[a] /\ list[a] \in S
      /\ u[n + 1] = x
  <2>1. u \in Seq(Nat) /\ Len(u) = n + 1 /\ (\A a \in 1..n : u[a] = list[a]) /\ u[n + 1] = x
    BY AppendProperties
  <2>2. \A a \in 1..n : list[a] \in S
    BY <1>1 DEF ToSet
  <2> QED BY <2>1, <2>2
<1>4. DOMAIN u = 1..n + 1
  BY <1>3, LenProperties
<1> HIDE DEF u, n
<1>5. ASSUME NEW a \in 1..n + 1, NEW b \in 1..n + 1, a < b PROVE u[a] < u[b]
  <2>1. a \in 1..n
    BY <1>1, <1>5
  <2>2. CASE b \in 1..n
    BY <1>1, <1>3, <1>5, <2>1, <2>2
  <2>3. CASE b = n + 1
    BY <1>3, <2>1, <2>3
  <2> QED BY <1>1, <2>2, <2>3
<1>6. InOrder(u, S \cup {x})
  BY <1>2, <1>4, <1>5 DEF InOrder
<1> QED BY <1>6 DEF u

LEMMA InOrderNone == InOrder(<<>>, {})
<1>1. DOMAIN <<>> = {} /\ ToSet(<<>>) = {}
  BY DEF ToSet
<1> QED BY <1>1 DEF InOrder

LEMMA ContentsAre ==
  ASSUME NEW p, Typed(p), NEW k \in 1..Len(p.frames)
  PROVE  /\ Contents(p, k) \in Seq(Nat)
         /\ ~(k < Len(p.frames)) => Contents(p, k) = p.frames[k].list
         /\ k < Len(p.frames) => Contents(p, k) = Append(p.frames[k].list, p.frames[k + 1].tag)
<1> DEFINE list == p.frames[k].list
           d == Len(p.frames)
           t == p.frames[k + 1].tag
<1>1. list \in Seq(Nat) /\ d \in Nat /\ (k < d => t \in Nat)
  <2>1. list \in Seq(Nat) /\ d \in Nat
    BY FramesLen
  <2>2. k < d => k + 1 \in 1..d
    BY <2>1
  <2> QED BY <2>1, <2>2, FramesLen
<1>2. Contents(p, k) = list \o (IF k < d THEN <<t>> ELSE <<>>)
  BY DEF Contents
<1> HIDE DEF list, d, t
<1>3. CASE k < d
  <2>1. Contents(p, k) = list \o <<t>>
    BY <1>2, <1>3
  <2>2. Append(list, t) = list \o <<t>> /\ Append(list, t) \in Seq(Nat)
    BY <1>1, <1>3, AppendIsConcat, AppendProperties
  <2> QED BY <1>3, <2>1, <2>2 DEF list, d, t
<1>4. CASE ~(k < d)
  <2>1. Contents(p, k) = list \o <<>>
    BY <1>2, <1>4
  <2>2. list \o <<>> = list
    BY <1>1, ConcatEmptySeq
  <2> QED BY <1>1, <1>4, <2>1, <2>2 DEF list, d, t
<1> QED BY <1>3, <1>4

LEMMA NodesAppended ==
  ASSUME NEW page, PageTyped(page), NEW c \in 0..Len(page) - 1, page[c + 1].kind \in Shown,
         NEW p, Typed(p), NodesSoFar(page, c, p),
         NEW node, NodeIs(node, page[c + 1]),
         NEW q, q.nodes = Append(p.nodes, node)
  PROVE  NodeNext(page, c, p, q, node)
<1> DEFINE N == Len(p.nodes)
<1>1. /\ p.nodes \in Seq(ToSet(p.nodes) \cup {node}) /\ N \in Nat
  BY NodesLen, SeqMonotonic DEF Typed
<1>2. Len(q.nodes) = N + 1 /\ (\A n \in 1..N : q.nodes[n] = p.nodes[n]) /\ q.nodes[N + 1] = node
  BY <1>1, AppendProperties
<1>3. Number(page, c + 1) = N + 1 /\ N = Number(page, c)
  <2>1. Numbered(page) /\ c + 1 \in 1..Len(page) /\ (c + 1) - 1 = c
    BY NumberIs DEF PageTyped
  <2>2. Number(page, c + 1) = Number(page, (c + 1) - 1) + 1
    BY <2>1 DEF Numbered
  <2> QED BY <2>1, <2>2 DEF NodesSoFar
<1>4. \A i \in 1..c : page[i].kind \in Shown =>
        q.nodes[Number(page, i)] = p.nodes[Number(page, i)]
  <2> SUFFICES ASSUME NEW i \in 1..c, page[i].kind \in Shown
               PROVE  q.nodes[Number(page, i)] = p.nodes[Number(page, i)]
    OBVIOUS
  <2>1. Number(page, i) \in 1..Number(page, c)
    BY NumberRange DEF PageTyped
  <2> QED BY <1>2, <1>3, <2>1
<1>5. ASSUME NEW i \in 1..c + 1, page[i].kind \in Shown
      PROVE  NodeIs(q.nodes[Number(page, i)], page[i])
  <2>1. CASE i \in 1..c
    <3>1. NodeIs(p.nodes[Number(page, i)], page[i])
      BY <1>5, <2>1 DEF NodesSoFar
    <3> QED BY <1>4, <1>5, <2>1, <3>1
  <2>2. CASE i = c + 1
    BY <1>2, <1>3, <2>2
  <2>3. i \in 1..c \/ i = c + 1
    BY DEF PageTyped
  <2> QED BY <2>1, <2>2, <2>3, Zenon
<1>6. NodesSoFar(page, c + 1, q)
  BY <1>2, <1>3, <1>5 DEF NodesSoFar
<1> QED BY <1>1, <1>2, <1>3, <1>4, <1>6 DEF NodeNext

LEMMA StackedParts ==
  ASSUME NEW page, NEW c \in Nat, NEW p, NEW st, Len(p.frames) \in Nat \ {0},
         Rise(page, c) = Len(p.frames) - 1, \A b \in 0..c : Rise(page, b) >= 0
  PROVE  Stacked(page, c, p, st) <=>
           Opened(page, c, st, Len(p.frames)) /\ OpenKids(page, c, p, st) /\ ClosedKids(page, c, p, st)
<1>1. ASSUME Stacked(page, c, p, st)
      PROVE  Opened(page, c, st, Len(p.frames)) /\ OpenKids(page, c, p, st) /\ ClosedKids(page, c, p, st)
  <2>1. Opened(page, c, st, Len(p.frames))
    BY <1>1 DEF Stacked, Opened
  <2>2. OpenKids(page, c, p, st)
    BY <1>1 DEF Stacked, OpenKids
  <2>3. ClosedKids(page, c, p, st)
    BY <1>1, Zenon DEF Stacked, ClosedKids
  <2> QED BY <2>1, <2>2, <2>3
<1>2. ASSUME Opened(page, c, st, Len(p.frames)), OpenKids(page, c, p, st), ClosedKids(page, c, p, st)
      PROVE  Stacked(page, c, p, st)
  <2>1. /\ st \in [1..Len(p.frames) -> 0..c] /\ st[1] = 0
        /\ \A k \in 1..Len(p.frames) :
             /\ Rise(page, st[k]) = k - 1
             /\ \A b \in st[k]..c : Rise(page, b) >= k - 1
             /\ k > 1 => page[st[k]].kind = "open"
    BY <1>2 DEF Opened
  <2>2. \A k \in 1..Len(p.frames) :
          /\ p.frames[k].tag = Number(page, st[k])
          /\ InOrder(Contents(p, k), KidsSoFar(page, st[k], c))
    BY <1>2 DEF OpenKids
  <2> QED BY <1>2, <2>1, <2>2, Zenon DEF Stacked, ClosedKids
<1> QED BY <1>1, <1>2

\* The stack of a page stays as deep as its tags.
LEMMA RiseNext ==
  ASSUME NEW page, PageTyped(page), NEW c \in 0..Len(page) - 1, NEW p, Growing(p), Taken(page, c, p),
         page[c + 1].kind = "close" => Len(p.frames) > 1
  PROVE  /\ Rise(page, c + 1) = Rise(page, c)
              + (IF page[c + 1].kind = "open" THEN 1 ELSE IF page[c + 1].kind = "close" THEN 0 - 1 ELSE 0)
         /\ \A b \in 0..c + 1 : Rise(page, b) >= 0
         /\ Rise(page, c) \in Nat /\ Rise(page, c) = Len(p.frames) - 1
<1>1. /\ Len(page) \in Nat /\ c \in 0..Len(page) /\ c + 1 \in 1..Len(page) /\ (c + 1) - 1 = c
  BY DEF PageTyped
<1>2. Rise(page, c + 1) = Rise(page, c)
        + (IF page[c + 1].kind = "open" THEN 1 ELSE IF page[c + 1].kind = "close" THEN 0 - 1 ELSE 0)
  <2>1. Rise(page, c + 1) = Rise(page, (c + 1) - 1)
          + (IF page[c + 1].kind = "open" THEN 1 ELSE IF page[c + 1].kind = "close" THEN 0 - 1 ELSE 0)
    BY <1>1, RiseIs DEF RiseSteps
  <2> QED BY <1>1, <2>1
<1>3. Len(p.frames) \in Nat /\ Len(p.frames) = 1 + Rise(page, c) /\ Rise(page, c) \in Int
  BY <1>1, RiseIs, FramesLen DEF Taken, Growing, RiseSteps
<1>4. \A b \in 0..c : Rise(page, b) >= 0
  BY DEF Taken
<1>5. Rise(page, c) \in Nat /\ Rise(page, c) = Len(p.frames) - 1
  <2>1. Rise(page, c) >= 0
    BY <1>1, <1>4
  <2> QED BY <1>3, <2>1
<1>6. Rise(page, c + 1) >= 0
  BY <1>2, <1>3, <1>5
<1>7. \A b \in 0..c + 1 : Rise(page, b) >= 0
  <2>1. \A b \in 0..c + 1 : b \in 0..c \/ b = c + 1
    OBVIOUS
  <2> QED BY <1>4, <1>6, <2>1
<1> QED BY <1>2, <1>5, <1>7

LEMMA OpenedStays ==
  ASSUME NEW page, NEW c \in Nat, NEW d, NEW st, Opened(page, c, st, d),
         Rise(page, c + 1) = Rise(page, c), \A b \in 0..c + 1 : Rise(page, b) >= 0
  PROVE  Opened(page, c + 1, st, d)
<1>1. d \in Nat \ {0} /\ st \in [1..d -> 0..c + 1] /\ st[1] = 0
  BY DEF Opened
<1>2. ASSUME NEW k \in 1..d
      PROVE  /\ Rise(page, st[k]) = k - 1
             /\ \A b \in st[k]..c + 1 : Rise(page, b) >= k - 1
             /\ k > 1 => page[st[k]].kind = "open"
  <2>1. /\ Rise(page, st[k]) = k - 1 /\ (\A b \in st[k]..c : Rise(page, b) >= k - 1)
        /\ (k > 1 => page[st[k]].kind = "open") /\ st[k] \in 0..c
    BY DEF Opened
  <2>2. c \in st[k]..c
    BY <2>1
  <2>3. Rise(page, c + 1) >= k - 1
    BY <2>1, <2>2
  <2>4. \A b \in st[k]..c + 1 : b \in st[k]..c \/ b = c + 1
    BY <2>1
  <2> QED BY <2>1, <2>3, <2>4
<1>3. Rise(page, c + 1) = d - 1
  BY DEF Opened
<1> QED BY <1>1, <1>2, <1>3 DEF Opened

LEMMA SilentTaken ==
  ASSUME NEW page, PageTyped(page), NEW c \in 0..Len(page) - 1, NEW p, Growing(p), Taken(page, c, p),
         page[c + 1].kind \in {"comment", "meta"}, NEW q, Same(p, q)
  PROVE  Taken(page, c + 1, q)
<1>1. /\ Len(page) \in Nat /\ c + 1 \in 1..Len(page) /\ (c + 1) - 1 = c /\ c \in Nat
      /\ page[c + 1].kind \notin Shown /\ page[c + 1].kind # "close" /\ page[c + 1].kind # "open"
  BY DEF PageTyped, Shown
<1>2. /\ Rise(page, c + 1) = Rise(page, c) /\ \A b \in 0..c + 1 : Rise(page, b) >= 0
      /\ Rise(page, c) = Len(p.frames) - 1 /\ Rise(page, c) \in Nat
  <2>1. Rise(page, c + 1) = Rise(page, c) + 0 /\ (\A b \in 0..c + 1 : Rise(page, b) >= 0)
        /\ Rise(page, c) = Len(p.frames) - 1 /\ Rise(page, c) \in Nat
    BY <1>1, RiseNext
  <2> QED BY <2>1
<1>3. q.frames = p.frames /\ q.nodes = p.nodes /\ q.dom = p.dom /\ Len(p.frames) \in Nat \ {0}
  BY FramesLen DEF Same, Growing
<1>4. Len(q.frames) = 1 + Rise(page, c + 1)
  BY <1>2, <1>3
<1>5. p.dom => NodesSoFar(page, c + 1, q)
  <2> SUFFICES ASSUME p.dom PROVE NodesSoFar(page, c + 1, q)
    OBVIOUS
  <2>1. NodesSoFar(page, c, p)
    BY DEF Taken
  <2>2. Number(page, c + 1) = Number(page, c)
    <3>1. Number(page, c + 1) = Number(page, c) + 0 /\ Number(page, c) \in Nat
      <4>1. Numbered(page) /\ c \in 0..Len(page)
        BY <1>1, NumberIs
      <4>2. Number(page, c + 1) = Number(page, (c + 1) - 1) + 0
        BY <1>1, <4>1 DEF Numbered
      <4> QED BY <1>1, <4>1, <4>2 DEF Numbered
    <3> QED BY <3>1
  <2>3. \A i \in 1..c + 1 : page[i].kind \in Shown => i \in 1..c
    BY <1>1
  <2> QED BY <1>3, <2>1, <2>2, <2>3 DEF NodesSoFar
<1>6. ASSUME p.dom, ~HasVoid(page)
      PROVE  \E st \in [1..Len(q.frames) -> 0..c + 1] : Stacked(page, c + 1, q, st)
  <2>1. PICK st \in [1..Len(p.frames) -> 0..c] : Stacked(page, c, p, st)
    BY <1>6 DEF Taken
  <2> DEFINE d == Len(p.frames)
  <2>2. \A b \in 0..c : Rise(page, b) >= 0
    BY DEF Taken
  <2>3. Opened(page, c, st, d) /\ OpenKids(page, c, p, st) /\ ClosedKids(page, c, p, st)
    BY <1>1, <1>2, <1>3, <2>1, <2>2, StackedParts
  <2>4. \A j \in 0..c : KidsSoFar(page, j, c + 1) = KidsSoFar(page, j, c)
    <3> SUFFICES ASSUME NEW j \in 0..c PROVE KidsSoFar(page, j, c + 1) = KidsSoFar(page, j, c)
      OBVIOUS
    <3>1. KidsGrow(page, j, c, st[d])
      BY <1>1, <1>6, <2>3, KidsNext
    <3> QED BY <1>1, <3>1 DEF KidsGrow
  <2>5. Opened(page, c + 1, st, d)
    BY <1>1, <1>2, <2>3, OpenedStays
  <2>6. \A k \in 1..d : Contents(q, k) = Contents(p, k)
    BY <1>3 DEF Contents
  <2>7. OpenKids(page, c + 1, q, st)
    <3>1. \A k \in 1..d : st[k] \in 0..c
      BY <2>3 DEF Opened
    <3> QED BY <1>3, <2>3, <2>4, <2>6, <3>1 DEF OpenKids
  <2>8. ClosedKids(page, c + 1, q, st)
    <3>1. \A j \in 1..c + 1 : page[j].kind \in Shown => j \in 1..c /\ j \in 0..c
      BY <1>1
    <3> QED BY <1>3, <2>3, <2>4, <3>1 DEF ClosedKids
  <2>9. Stacked(page, c + 1, q, st)
    <3>1. /\ c + 1 \in Nat /\ Len(q.frames) \in Nat \ {0}
          /\ Rise(page, c + 1) = Len(q.frames) - 1 /\ \A b \in 0..c + 1 : Rise(page, b) >= 0
          /\ Opened(page, c + 1, st, Len(q.frames))
      BY <1>1, <1>2, <1>3, <2>5
    <3> QED BY <3>1, <2>7, <2>8, StackedParts
  <2>10. st \in [1..Len(q.frames) -> 0..c + 1]
    BY <1>3, <2>5 DEF Opened
  <2> QED BY <2>9, <2>10
<1> QED BY <1>2, <1>3, <1>4, <1>5, <1>6, Zenon DEF Taken

LEMMA TextTaken ==
  ASSUME NEW page, PageTyped(page), NEW c \in 0..Len(page) - 1, NEW p, Growing(p), Taken(page, c, p),
         page[c + 1].kind = "text", NEW q, TextGrown(p, q, page[c + 1].text),
         p.dom => Typed(q)
  PROVE  Taken(page, c + 1, q)
<1> DEFINE d == Len(p.frames)
           N == Len(p.nodes)
           node == Node("text", page[c + 1].text, <<>>)
<1>1. /\ Len(page) \in Nat /\ c + 1 \in 1..Len(page) /\ (c + 1) - 1 = c /\ c \in Nat
      /\ page[c + 1].kind \in Shown /\ page[c + 1].kind # "close" /\ page[c + 1].kind # "open"
  BY DEF PageTyped, Shown
<1>2. /\ Rise(page, c + 1) = Rise(page, c) /\ \A b \in 0..c + 1 : Rise(page, b) >= 0
      /\ Rise(page, c) = d - 1 /\ Rise(page, c) \in Nat
  <2>1. Rise(page, c + 1) = Rise(page, c) + 0 /\ (\A b \in 0..c + 1 : Rise(page, b) >= 0)
        /\ Rise(page, c) = d - 1 /\ Rise(page, c) \in Nat
    BY <1>1, RiseNext
  <2> QED BY <2>1
<1>3. Typed(p) /\ d \in Nat \ {0} /\ d \in 1..d /\ q.dom = p.dom /\ p.dom \in BOOLEAN
  BY FramesLen DEF Growing, Typed, TextGrown
<1>4. p.dom => q.frames = Listed(p, d, N + 1) /\ q.nodes = Append(p.nodes, node)
  BY DEF TextGrown
<1>5. Len(q.frames) = d
  <2>1. CASE p.dom
    <3>1. DOMAIN q.frames = 1..d
      BY <1>4, <2>1 DEF Listed
    <3>2. DOMAIN q.frames = 1..Len(q.frames) /\ Len(q.frames) \in Nat
      BY <2>1, FramesLen
    <3> QED BY <1>3, <3>1, <3>2
  <2>2. CASE ~p.dom
    BY <2>2 DEF TextGrown
  <2> QED BY <2>1, <2>2
<1>6. Len(q.frames) = 1 + Rise(page, c + 1)
  BY <1>2, <1>5
<1>7. ASSUME p.dom
      PROVE  /\ NodesSoFar(page, c + 1, q)
             /\ Number(page, c + 1) = N + 1 /\ N \in Nat
             /\ \A i \in 1..c : page[i].kind \in Shown =>
                  q.nodes[Number(page, i)] = p.nodes[Number(page, i)]
             /\ q.nodes[Number(page, c + 1)] = node
  <2>1. NodeIs(node, page[c + 1])
    BY DEF NodeIs, Node
  <2>2. NodesSoFar(page, c, p)
    BY <1>7 DEF Taken
  <2>3. q.nodes = Append(p.nodes, node)
    BY <1>4, <1>7
  <2> HIDE DEF node, N
  <2>4. NodeNext(page, c, p, q, node)
    BY <1>1, <1>3, <2>1, <2>2, <2>3, NodesAppended
  <2> QED BY <2>4 DEF NodeNext, N
<1>8. ASSUME p.dom, ~HasVoid(page)
      PROVE  \E st \in [1..Len(q.frames) -> 0..c + 1] : Stacked(page, c + 1, q, st)
  <2>1. PICK st \in [1..d -> 0..c] : Stacked(page, c, p, st)
    BY <1>8 DEF Taken
  <2>2. \A b \in 0..c : Rise(page, b) >= 0
    BY DEF Taken
  <2>3. Opened(page, c, st, d) /\ OpenKids(page, c, p, st) /\ ClosedKids(page, c, p, st)
    BY <1>1, <1>2, <1>3, <2>1, <2>2, StackedParts
  <2>4. /\ \A j \in 0..c : j # st[d] => KidsSoFar(page, j, c + 1) = KidsSoFar(page, j, c)
        /\ KidsSoFar(page, st[d], c + 1) = KidsSoFar(page, st[d], c) \cup {N + 1}
        /\ \A k \in 1..d : st[k] \in 0..c
        /\ \A k \in 1..d : k # d => st[k] # st[d]
    <3>1. \A k \in 1..d : st[k] \in 0..c /\ Rise(page, st[k]) = k - 1
      BY <2>3 DEF Opened
    <3>2. \A k \in 1..d : k # d => st[k] # st[d]
      BY <1>3, <3>1
    <3>3. \A j \in 0..c : KidsGrow(page, j, c, st[d])
      <4> SUFFICES ASSUME NEW j \in 0..c PROVE KidsGrow(page, j, c, st[d])
        OBVIOUS
      <4> QED BY <1>1, <1>8, <2>3, KidsNext
    <3>4. st[d] \in 0..c
      BY <1>3, <3>1
    <3>5. \A j \in 0..c : j # st[d] => KidsSoFar(page, j, c + 1) = KidsSoFar(page, j, c)
      BY <3>3 DEF KidsGrow
    <3>6. KidsSoFar(page, st[d], c + 1) = KidsSoFar(page, st[d], c) \cup {N + 1}
      BY <1>1, <1>7, <1>8, <3>3, <3>4 DEF KidsGrow
    <3> QED BY <3>1, <3>2, <3>5, <3>6
  <2>5. Opened(page, c + 1, st, d)
    BY <1>1, <1>2, <2>3, OpenedStays
  <2>6. /\ \A k \in 1..d : q.frames[k].tag = p.frames[k].tag
        /\ \A k \in 1..d : k # d => q.frames[k].list = p.frames[k].list
        /\ q.frames[d].list = Append(p.frames[d].list, N + 1)
    <3>1. \A k \in 1..d : p.frames[k] \in Frame
      BY <1>3, FramesLen
    <3>2. \A k \in 1..d : q.frames[k] = IF k = d THEN [p.frames[d] EXCEPT !.list = Append(@, N + 1)]
                                        ELSE p.frames[k]
      BY <1>4, <1>8 DEF Listed
    <3> HIDE DEF d, N
    <3>3. \A k \in 1..d : k # d => q.frames[k] = p.frames[k]
      BY <3>2
    <3>4. q.frames[d] = [p.frames[d] EXCEPT !.list = Append(@, N + 1)] /\ p.frames[d] \in Frame
      BY <1>3, <3>1, <3>2
    <3>5. q.frames[d].tag = p.frames[d].tag /\ q.frames[d].list = Append(p.frames[d].list, N + 1)
      BY <3>4 DEF Frame
    <3> QED BY <3>3, <3>5
  <2>7. \A k \in 1..d : k # d => Contents(q, k) = Contents(p, k)
    <3> SUFFICES ASSUME NEW k \in 1..d, k # d PROVE Contents(q, k) = Contents(p, k)
      OBVIOUS
    <3>1. k < d /\ k + 1 \in 1..d
      BY <1>3
    <3>2. q.frames[k + 1].tag = p.frames[k + 1].tag /\ q.frames[k].list = p.frames[k].list
      BY <2>6, <3>1
    <3> QED BY <1>5, <3>1, <3>2 DEF Contents
  <2>8. Contents(q, d) = Append(Contents(p, d), N + 1) /\ Contents(p, d) \in Seq(Nat)
    <3>1. ~(d < d)
      BY <1>3
    <3>2. Contents(p, d) \in Seq(Nat) /\ Contents(p, d) = p.frames[d].list
      BY <1>3, <3>1, ContentsAre
    <3>3. Contents(q, d) = q.frames[d].list
      BY <1>3, <1>5, <1>8, <3>1, ContentsAre
    <3> QED BY <2>6, <3>2, <3>3
  <2>9. OpenKids(page, c + 1, q, st)
    <3> SUFFICES ASSUME NEW k \in 1..d
                 PROVE  /\ q.frames[k].tag = Number(page, st[k])
                        /\ InOrder(Contents(q, k), KidsSoFar(page, st[k], c + 1))
      BY <1>5 DEF OpenKids
    <3>1. p.frames[k].tag = Number(page, st[k]) /\ InOrder(Contents(p, k), KidsSoFar(page, st[k], c))
      BY <2>3 DEF OpenKids
    <3>2. CASE k # d
      BY <2>4, <2>6, <2>7, <3>1, <3>2
    <3>3. CASE k = d
      <4>1. \A x \in KidsSoFar(page, st[d], c) : x < N + 1
        <5>1. \A x \in KidsSoFar(page, st[d], c) : x \in 1..Number(page, c)
          BY <1>1, KidsNumbers
        <5>2. Number(page, c) = N
          BY <1>8 DEF Taken, NodesSoFar
        <5> QED BY <1>7, <1>8, <5>1, <5>2
      <4>2. InOrder(Contents(p, d), KidsSoFar(page, st[d], c)) /\ N + 1 \in Nat
        BY <1>7, <1>8, <3>1, <3>3
      <4>3. InOrder(Append(Contents(p, d), N + 1), KidsSoFar(page, st[d], c) \cup {N + 1})
        <5> HIDE DEF N, d
        <5> QED BY <2>8, <4>1, <4>2, InOrderNext
      <4> QED BY <2>4, <2>6, <2>8, <3>1, <3>3, <4>3
    <3> QED BY <3>2, <3>3
  <2>10. ClosedKids(page, c + 1, q, st)
    <3> SUFFICES ASSUME NEW j \in 1..c + 1, page[j].kind \in Shown, \A k \in 1..d : st[k] # j
                 PROVE  InOrder(q.nodes[Number(page, j)].kids, KidsSoFar(page, j, c + 1))
      BY <1>5 DEF ClosedKids
    <3>1. CASE j \in 1..c
      <4>1. InOrder(p.nodes[Number(page, j)].kids, KidsSoFar(page, j, c))
        BY <2>3, <3>1 DEF ClosedKids
      <4>2. j \in 0..c /\ j # st[d]
        BY <1>3, <3>1
      <4> QED BY <1>7, <1>8, <2>4, <3>1, <4>1, <4>2
    <3>2. CASE j = c + 1
      <4>1. KidsSoFar(page, j, c + 1) = {}
        BY <1>1, <3>2, KidsNone
      <4>2. q.nodes[Number(page, j)].kids = <<>>
        BY <1>7, <1>8, <3>2 DEF Node
      <4> QED BY <4>1, <4>2, InOrderNone
    <3> QED BY <1>1, <3>1, <3>2
  <2>11. Stacked(page, c + 1, q, st)
    BY <1>1, <1>2, <1>3, <1>5, <2>5, <2>9, <2>10, StackedParts
  <2>12. st \in [1..Len(q.frames) -> 0..c + 1]
    BY <1>5, <2>5 DEF Opened
  <2> QED BY <2>11, <2>12
<1>9. p.dom => NodesSoFar(page, c + 1, q)
  BY <1>7
<1> QED BY <1>2, <1>3, <1>6, <1>8, <1>9, Zenon DEF Taken

LEMMA OpenedMore ==
  ASSUME NEW page, NEW c \in Nat, NEW d, NEW st, Opened(page, c, st, d),
         page[c + 1].kind = "open",
         Rise(page, c + 1) = Rise(page, c) + 1, \A b \in 0..c + 1 : Rise(page, b) >= 0,
         NEW ts, ts = [k \in 1..d + 1 |-> IF k = d + 1 THEN c + 1 ELSE st[k]]
  PROVE  Opened(page, c + 1, ts, d + 1)
<1>1. d \in Nat \ {0} /\ st \in [1..d -> 0..c] /\ st[1] = 0 /\ Rise(page, c) = d - 1
  BY DEF Opened
<1>2. ts[d + 1] = c + 1 /\ \A k \in 1..d : ts[k] = st[k]
  BY <1>1
<1>3. ts \in [1..d + 1 -> 0..c + 1]
  BY <1>1
<1>4. Rise(page, c + 1) = d
  BY <1>1
<1> HIDE DEF Rise
<1>5. ASSUME NEW k \in 1..d + 1
      PROVE  /\ Rise(page, ts[k]) = k - 1
             /\ \A b \in ts[k]..c + 1 : Rise(page, b) >= k - 1
             /\ k > 1 => page[ts[k]].kind = "open"
  <2>1. CASE k = d + 1
    <3>1. \A b \in (c + 1)..(c + 1) : b = c + 1
      OBVIOUS
    <3> QED BY <1>1, <1>2, <1>4, <2>1, <3>1
  <2>2. CASE k \in 1..d
    <3>1. /\ Rise(page, st[k]) = k - 1 /\ (\A b \in st[k]..c : Rise(page, b) >= k - 1)
          /\ (k > 1 => page[st[k]].kind = "open") /\ st[k] \in 0..c
      BY <2>2 DEF Opened
    <3>2. Rise(page, c + 1) >= k - 1
      BY <1>1, <1>4, <2>2
    <3>3. \A b \in st[k]..c + 1 : b \in st[k]..c \/ b = c + 1
      BY <3>1
    <3> QED BY <1>2, <2>2, <3>1, <3>2, <3>3
  <2> QED BY <1>1, <2>1, <2>2
<1>6. d + 1 \in Nat \ {0} /\ Rise(page, c + 1) = (d + 1) - 1 /\ ts[1] = 0
  BY <1>1, <1>2, <1>4
<1> QED BY <1>3, <1>5, <1>6 DEF Opened

LEMMA OpenTaken ==
  ASSUME NEW page, PageTyped(page), NEW c \in 0..Len(page) - 1, NEW p, Growing(p), Taken(page, c, p),
         page[c + 1].kind = "open", NEW q, NEW prots, OpenGrown(p, q, prots),
         p.dom => Typed(q) /\ prots = MeantProts(page[c + 1].prots)
  PROVE  Taken(page, c + 1, q)
<1> DEFINE d == Len(p.frames)
           N == Len(p.nodes)
           node == Node("tag", <<>>, prots)
           f == [tag |-> N + 1, list |-> <<>>]
<1>1. /\ Len(page) \in Nat /\ c + 1 \in 1..Len(page) /\ (c + 1) - 1 = c /\ c \in Nat
      /\ page[c + 1].kind \in Shown /\ page[c + 1].kind # "close"
  BY DEF PageTyped, Shown
<1>2. /\ Rise(page, c + 1) = Rise(page, c) + 1 /\ \A b \in 0..c + 1 : Rise(page, b) >= 0
      /\ Rise(page, c) = d - 1 /\ Rise(page, c) \in Nat
  BY <1>1, RiseNext
<1>3. /\ Typed(p) /\ d \in Nat \ {0} /\ d \in 1..d /\ q.dom = p.dom /\ p.dom \in BOOLEAN
      /\ d + 1 \in 1..d + 1
  BY FramesLen DEF Growing, Typed, OpenGrown
<1>4. p.dom => q.frames = Append(p.frames, f) /\ q.nodes = Append(p.nodes, node)
  BY DEF OpenGrown
<1>5. ASSUME p.dom
      PROVE  /\ Len(q.frames) = d + 1 /\ q.frames[d + 1].tag = N + 1 /\ q.frames[d + 1].list = <<>>
             /\ \A k \in 1..d : q.frames[k] = p.frames[k]
  <2>1. f \in Frame
    <3>1. N \in Nat
      BY <1>3, NodesLen
    <3> HIDE DEF N
    <3> QED BY <3>1, EmptySeq DEF Frame
  <2>2. p.frames \in Seq(Frame)
    BY <1>3 DEF Typed
  <2>3. f.tag = N + 1 /\ f.list = <<>>
    OBVIOUS
  <2>4. q.frames = Append(p.frames, f)
    BY <1>4, <1>5
  <2> HIDE DEF f
  <2>5. Len(q.frames) = d + 1 /\ q.frames[d + 1] = f /\ \A k \in 1..d : q.frames[k] = p.frames[k]
    BY <2>1, <2>2, <2>4, AppendProperties
  <2> QED BY <2>3, <2>5
<1>6. Len(q.frames) = 1 + Rise(page, c + 1) /\ Len(q.frames) = d + 1
  <2>1. Len(q.frames) = d + 1
    BY <1>5 DEF OpenGrown
  <2> QED BY <1>2, <1>3, <2>1
<1>7. ASSUME p.dom
      PROVE  /\ NodesSoFar(page, c + 1, q)
             /\ Number(page, c + 1) = N + 1 /\ N \in Nat
             /\ \A i \in 1..c : page[i].kind \in Shown =>
                  q.nodes[Number(page, i)] = p.nodes[Number(page, i)]
  <2>1. NodeIs(node, page[c + 1])
    <3>1. node.kind = "tag" /\ node.prots = MeantProts(page[c + 1].prots)
      BY <1>7 DEF Node
    <3>2. page[c + 1].kind # "text"
      OBVIOUS
    <3> QED BY <3>1, <3>2, Zenon DEF NodeIs
  <2>2. NodesSoFar(page, c, p)
    BY <1>7 DEF Taken
  <2>3. q.nodes = Append(p.nodes, node)
    BY <1>4, <1>7
  <2> HIDE DEF node, N
  <2>4. NodeNext(page, c, p, q, node)
    BY <1>1, <1>3, <2>1, <2>2, <2>3, NodesAppended
  <2> QED BY <2>4 DEF NodeNext, N
<1>8. ASSUME p.dom, ~HasVoid(page)
      PROVE  \E st \in [1..Len(q.frames) -> 0..c + 1] : Stacked(page, c + 1, q, st)
  <2>1. PICK st \in [1..d -> 0..c] : Stacked(page, c, p, st)
    BY <1>8 DEF Taken
  <2> DEFINE ts == [k \in 1..d + 1 |-> IF k = d + 1 THEN c + 1 ELSE st[k]]
  <2>2. \A b \in 0..c : Rise(page, b) >= 0
    BY DEF Taken
  <2>3. Opened(page, c, st, d) /\ OpenKids(page, c, p, st) /\ ClosedKids(page, c, p, st)
    BY <1>1, <1>2, <1>3, <2>1, <2>2, StackedParts
  <2>4. /\ \A j \in 0..c : j # st[d] => KidsSoFar(page, j, c + 1) = KidsSoFar(page, j, c)
        /\ KidsSoFar(page, st[d], c + 1) = KidsSoFar(page, st[d], c) \cup {N + 1}
        /\ \A k \in 1..d : st[k] \in 0..c
        /\ \A k \in 1..d : k # d => st[k] # st[d]
    <3>1. \A k \in 1..d : st[k] \in 0..c /\ Rise(page, st[k]) = k - 1
      BY <2>3 DEF Opened
    <3>2. \A k \in 1..d : k # d => st[k] # st[d]
      BY <1>3, <3>1
    <3>3. \A j \in 0..c : KidsGrow(page, j, c, st[d])
      <4> SUFFICES ASSUME NEW j \in 0..c PROVE KidsGrow(page, j, c, st[d])
        OBVIOUS
      <4> QED BY <1>1, <1>8, <2>3, KidsNext
    <3>4. st[d] \in 0..c
      BY <1>3, <3>1
    <3>5. \A j \in 0..c : j # st[d] => KidsSoFar(page, j, c + 1) = KidsSoFar(page, j, c)
      BY <3>3 DEF KidsGrow
    <3>6. KidsSoFar(page, st[d], c + 1) = KidsSoFar(page, st[d], c) \cup {N + 1}
      BY <1>1, <1>7, <1>8, <3>3, <3>4 DEF KidsGrow
    <3> QED BY <3>1, <3>2, <3>5, <3>6
  <2>5. Opened(page, c + 1, ts, d + 1)
    BY <1>1, <1>2, <2>3, OpenedMore
  <2>6. ts[d + 1] = c + 1 /\ \A k \in 1..d : ts[k] = st[k]
    BY <1>3
  <2> HIDE DEF ts
  <2>7. \A k \in 1..d : k # d => Contents(q, k) = Contents(p, k)
    <3> SUFFICES ASSUME NEW k \in 1..d, k # d PROVE Contents(q, k) = Contents(p, k)
      OBVIOUS
    <3>1. k < d /\ k + 1 \in 1..d /\ k < d + 1
      BY <1>3
    <3>2. q.frames[k + 1].tag = p.frames[k + 1].tag /\ q.frames[k].list = p.frames[k].list
      BY <1>5, <1>8, <3>1
    <3> QED BY <1>6, <3>1, <3>2 DEF Contents
  <2>8. Contents(q, d) = Append(Contents(p, d), N + 1) /\ Contents(p, d) \in Seq(Nat)
    <3>1. ~(d < d) /\ d < d + 1 /\ d \in 1..d + 1
      BY <1>3
    <3>2. Contents(p, d) \in Seq(Nat) /\ Contents(p, d) = p.frames[d].list
      BY <1>3, <3>1, ContentsAre
    <3>3. Contents(q, d) = Append(q.frames[d].list, q.frames[d + 1].tag)
      BY <1>3, <1>6, <1>8, <3>1, ContentsAre
    <3> QED BY <1>3, <1>5, <1>8, <3>2, <3>3
  <2>9. OpenKids(page, c + 1, q, ts)
    <3> SUFFICES ASSUME NEW k \in 1..d + 1
                 PROVE  /\ q.frames[k].tag = Number(page, ts[k])
                        /\ InOrder(Contents(q, k), KidsSoFar(page, ts[k], c + 1))
      BY <1>6 DEF OpenKids
    <3>1. k \in 1..d => /\ p.frames[k].tag = Number(page, st[k])
                        /\ InOrder(Contents(p, k), KidsSoFar(page, st[k], c))
                        /\ q.frames[k].tag = p.frames[k].tag
      BY <1>5, <1>8, <2>3 DEF OpenKids
    <3>2. CASE k \in 1..d /\ k # d
      BY <2>4, <2>6, <2>7, <3>1, <3>2
    <3>3. CASE k = d
      <4>1. \A x \in KidsSoFar(page, st[d], c) : x < N + 1
        <5>1. \A x \in KidsSoFar(page, st[d], c) : x \in 1..Number(page, c)
          BY <1>1, KidsNumbers
        <5>2. Number(page, c) = N
          BY <1>8 DEF Taken, NodesSoFar
        <5> QED BY <1>7, <1>8, <5>1, <5>2
      <4>2. InOrder(Contents(p, d), KidsSoFar(page, st[d], c)) /\ N + 1 \in Nat
        BY <1>3, <1>7, <1>8, <3>1, <3>3
      <4>3. InOrder(Append(Contents(p, d), N + 1), KidsSoFar(page, st[d], c) \cup {N + 1})
        <5> HIDE DEF N, d
        <5> QED BY <2>8, <4>1, <4>2, InOrderNext
      <4> QED BY <1>3, <2>4, <2>6, <2>8, <3>1, <3>3, <4>3
    <3>4. CASE k = d + 1
      <4>1. KidsSoFar(page, c + 1, c + 1) = {}
        BY <1>1, KidsNone
      <4>2. ~(k < Len(q.frames)) /\ k \in 1..Len(q.frames)
        BY <1>3, <1>6, <3>4
      <4>3. Contents(q, k) = q.frames[k].list
        BY <1>3, <1>8, <4>2, ContentsAre
      <4>4. Contents(q, k) = <<>>
        BY <1>5, <1>8, <3>4, <4>3
      <4> QED BY <1>5, <1>7, <1>8, <2>6, <3>4, <4>1, <4>4, InOrderNone
    <3> QED BY <1>3, <3>2, <3>3, <3>4
  <2>10. ClosedKids(page, c + 1, q, ts)
    <3> SUFFICES ASSUME NEW j \in 1..c + 1, page[j].kind \in Shown, \A k \in 1..d + 1 : ts[k] # j
                 PROVE  InOrder(q.nodes[Number(page, j)].kids, KidsSoFar(page, j, c + 1))
      BY <1>6 DEF ClosedKids
    <3>1. j # c + 1
      BY <1>3, <2>6
    <3>2. j \in 1..c /\ j \in 0..c
      BY <1>1, <3>1
    <3>3. \A k \in 1..d : st[k] # j
      <4>1. \A k \in 1..d : k \in 1..d + 1
        BY <1>3
      <4> QED BY <2>6, <4>1
    <3>4. InOrder(p.nodes[Number(page, j)].kids, KidsSoFar(page, j, c))
      BY <2>3, <3>2, <3>3 DEF ClosedKids
    <3>5. j # st[d]
      BY <1>3, <3>3
    <3> QED BY <1>7, <1>8, <2>4, <3>2, <3>4, <3>5
  <2>11. Stacked(page, c + 1, q, ts)
    <3>1. Opened(page, c + 1, ts, Len(q.frames)) /\ Len(q.frames) \in Nat \ {0}
      BY <1>3, <1>6, <2>5
    <3>2. c + 1 \in Nat /\ Rise(page, c + 1) = Len(q.frames) - 1
      BY <1>1, <1>2, <1>3, <1>6
    <3> QED BY <1>2, <3>1, <3>2, <2>9, <2>10, StackedParts
  <2>12. ts \in [1..Len(q.frames) -> 0..c + 1]
    BY <1>6, <2>5 DEF Opened
  <2> QED BY <2>11, <2>12
<1>9. p.dom => NodesSoFar(page, c + 1, q)
  BY <1>7
<1> QED BY <1>2, <1>3, <1>6, <1>8, <1>9, Zenon DEF Taken

LEMMA OpenedLess ==
  ASSUME NEW page, NEW c \in Nat, NEW d, NEW st, Opened(page, c, st, d), d > 1,
         Rise(page, c + 1) = Rise(page, c) - 1, \A b \in 0..c + 1 : Rise(page, b) >= 0,
         NEW ts, ts = [k \in 1..d - 1 |-> st[k]]
  PROVE  Opened(page, c + 1, ts, d - 1)
<1>1. d \in Nat \ {0} /\ st \in [1..d -> 0..c] /\ st[1] = 0 /\ Rise(page, c) = d - 1
  BY DEF Opened
<1>2. \A k \in 1..d - 1 : ts[k] = st[k] /\ k \in 1..d
  BY <1>1
<1>3. ts \in [1..d - 1 -> 0..c + 1]
  BY <1>1
<1>4. Rise(page, c + 1) = d - 2
  BY <1>1
<1> HIDE DEF Rise
<1>5. ASSUME NEW k \in 1..d - 1
      PROVE  /\ Rise(page, ts[k]) = k - 1
             /\ \A b \in ts[k]..c + 1 : Rise(page, b) >= k - 1
             /\ k > 1 => page[ts[k]].kind = "open"
  <2>1. /\ Rise(page, st[k]) = k - 1 /\ (\A b \in st[k]..c : Rise(page, b) >= k - 1)
        /\ (k > 1 => page[st[k]].kind = "open") /\ st[k] \in 0..c
    BY <1>1, <1>2 DEF Opened
  <2>2. Rise(page, c + 1) >= k - 1
    BY <1>1, <1>4
  <2>3. \A b \in st[k]..c + 1 : b \in st[k]..c \/ b = c + 1
    BY <2>1
  <2> QED BY <1>2, <2>1, <2>2, <2>3
<1>6. d - 1 \in Nat \ {0} /\ Rise(page, c + 1) = (d - 1) - 1 /\ ts[1] = 0
  BY <1>1, <1>2, <1>4
<1> QED BY <1>3, <1>5, <1>6 DEF Opened

\* Nodes whose kids have changed are the nodes of the same items.
LEMMA NodesRekept ==
  ASSUME NEW page, PageTyped(page), NEW c \in 0..Len(page), NEW e \in {c, c + 1}, e \in 0..Len(page),
         e = c + 1 => page[c + 1].kind \notin Shown,
         NEW p, Typed(p), NodesSoFar(page, c, p), NEW q, Len(q.nodes) = Len(p.nodes),
         \A n \in 1..Len(p.nodes) : /\ q.nodes[n].kind = p.nodes[n].kind
                                    /\ q.nodes[n].text = p.nodes[n].text
                                    /\ q.nodes[n].prots = p.nodes[n].prots
  PROVE  NodesSoFar(page, e, q)
<1>1. Numbered(page) /\ Len(page) \in Nat
  BY NumberIs DEF PageTyped
<1>2. Number(page, e) = Number(page, c)
  <2>1. CASE e = c + 1
    <3>1. e \in 1..Len(page) /\ e - 1 = c
      BY <1>1, <2>1
    <3>2. Number(page, e) = Number(page, c) + 0 /\ Number(page, c) \in Nat
      BY <1>1, <2>1, <3>1 DEF Numbered
    <3> QED BY <3>2
  <2> QED BY <2>1
<1>3. \A i \in 1..e : page[i].kind \in Shown => i \in 1..c
  BY <1>1
<1>4. ASSUME NEW i \in 1..c, page[i].kind \in Shown
      PROVE  NodeIs(q.nodes[Number(page, i)], page[i])
  <2>1. Number(page, i) \in 1..Len(p.nodes)
    <3>1. Number(page, i) \in 1..Number(page, c)
      BY <1>1, <1>4, NumberRange
    <3> QED BY <3>1 DEF NodesSoFar
  <2>2. NodeIs(p.nodes[Number(page, i)], page[i])
    BY <1>4 DEF NodesSoFar
  <2> QED BY <2>1, <2>2 DEF NodeIs
<1> QED BY <1>2, <1>3, <1>4 DEF NodesSoFar

LEMMA CloseTaken ==
  ASSUME NEW page, PageTyped(page), NEW c \in 0..Len(page) - 1, NEW p, Growing(p), Taken(page, c, p),
         page[c + 1].kind = "close", Len(p.frames) > 1, NEW q, CloseGrown(p, q),
         p.dom => Typed(q)
  PROVE  Taken(page, c + 1, q)
<1> DEFINE d == Len(p.frames)
           N == Len(p.nodes)
           t == p.frames[d].tag
           list == p.frames[d].list
<1>1. /\ Len(page) \in Nat /\ c + 1 \in 1..Len(page) /\ (c + 1) - 1 = c /\ c \in Nat
      /\ page[c + 1].kind \notin Shown /\ page[c + 1].kind # "open"
      /\ c \in 0..Len(page) /\ c + 1 \in 0..Len(page)
  BY DEF PageTyped, Shown
<1>2. /\ Rise(page, c + 1) = Rise(page, c) - 1 /\ \A b \in 0..c + 1 : Rise(page, b) >= 0
      /\ Rise(page, c) = d - 1 /\ Rise(page, c) \in Nat
  <2>1. Rise(page, c + 1) = Rise(page, c) + (0 - 1) /\ (\A b \in 0..c + 1 : Rise(page, b) >= 0)
        /\ Rise(page, c) = d - 1 /\ Rise(page, c) \in Nat
    BY <1>1, RiseNext
  <2> QED BY <2>1
<1>3. /\ Typed(p) /\ d \in Nat \ {0} /\ d > 1 /\ d \in 1..d /\ d - 1 \in 1..d - 1 /\ d - 1 \in 1..d
      /\ q.dom = p.dom /\ p.dom \in BOOLEAN /\ N \in Nat
      /\ t \in Nat /\ list \in Seq(Nat)
  <2>1. Typed(p) /\ d \in Nat \ {0} /\ q.dom = p.dom /\ p.dom \in BOOLEAN /\ N \in Nat
    BY FramesLen, NodesLen DEF Growing, Typed, CloseGrown
  <2>2. d > 1 /\ d \in 1..d /\ d - 1 \in 1..d - 1 /\ d - 1 \in 1..d
    BY <2>1
  <2> QED BY <2>1, <2>2, FramesLen
<1>4. p.dom => q.frames = Listed(p, d - 1, t) /\ q.nodes = [p.nodes EXCEPT ![t].kids = @ \o list]
  BY Zenon DEF CloseGrown
<1>5. Len(q.frames) = d - 1
  <2>1. CASE p.dom
    <3>1. DOMAIN q.frames = 1..d - 1
      BY <1>4, <2>1, Zenon DEF Listed
    <3>2. DOMAIN q.frames = 1..Len(q.frames) /\ Len(q.frames) \in Nat
      BY <2>1, FramesLen
    <3> QED BY <1>3, <3>1, <3>2
  <2>2. CASE ~p.dom
    BY <2>2, Zenon DEF CloseGrown
  <2> QED BY <2>1, <2>2
<1>6. Len(q.frames) = 1 + Rise(page, c + 1)
  BY <1>2, <1>3, <1>5
<1>7. ASSUME p.dom
      PROVE  /\ t \in 1..N /\ Len(q.nodes) = N
             /\ \A n \in 1..N : n # t => q.nodes[n] = p.nodes[n]
             /\ q.nodes[t].kids = list
             /\ \A n \in 1..N : /\ q.nodes[n].kind = p.nodes[n].kind
                                /\ q.nodes[n].text = p.nodes[n].text
                                /\ q.nodes[n].prots = p.nodes[n].prots
  <2>1. Whole(p) /\ FramesWhole(p) /\ OpenEmpty(p)
    BY DEF Growing, Whole
  <2>2. t \in 1..N
    <3>1. FrameWhole(p.frames[d], N) /\ p.frames[d - 1].tag < t /\ p.frames[d - 1].tag \in Nat
      BY <1>3, <1>7, <2>1, FramesLen DEF FramesWhole
    <3> QED BY <1>3, <3>1 DEF FrameWhole
  <2>3. p.nodes[t].kids = <<>>
    BY <1>3, <2>1, <2>2 DEF OpenEmpty
  <2>4. NodeTyped(p.nodes[t]) /\ DOMAIN p.nodes = 1..N
    BY <1>3, <2>2, NodesLen DEF Typed
  <2>5. q.nodes = [p.nodes EXCEPT ![t] = [p.nodes[t] EXCEPT !.kids = p.nodes[t].kids \o list]]
    BY <1>4, <1>7, <2>2, <2>4, Zenon
  <2>6. DOMAIN q.nodes = 1..N
    BY <2>4, <2>5, Zenon
  <2>7. Len(q.nodes) = N
    BY <1>3, <1>7, <2>6, NodesLen
  <2>8. <<>> \o list = list
    BY <1>3, ConcatEmptySeq
  <2> DEFINE e == [p.nodes[t] EXCEPT !.kids = p.nodes[t].kids \o list]
  <2>9. e.kids = list /\ e.kind = p.nodes[t].kind /\ e.text = p.nodes[t].text /\ e.prots = p.nodes[t].prots
    <3> HIDE DEF t, list
    <3> QED BY <2>3, <2>4, <2>8 DEF NodeTyped
  <2>10. q.nodes = [p.nodes EXCEPT ![t] = e]
    BY <2>5, Zenon
  <2> HIDE DEF e, t, list
  <2>11. \A n \in 1..N : q.nodes[n] = IF n = t THEN e ELSE p.nodes[n]
    BY <2>4, <2>10
  <2> QED BY <2>2, <2>7, <2>9, <2>11
<1>8. p.dom => NodesSoFar(page, c + 1, q)
  <2> SUFFICES ASSUME p.dom PROVE NodesSoFar(page, c + 1, q)
    OBVIOUS
  <2>1. NodesSoFar(page, c, p)
    BY DEF Taken
  <2> QED BY <1>1, <1>3, <1>7, <2>1, NodesRekept
<1>9. ASSUME p.dom, ~HasVoid(page)
      PROVE  \E st \in [1..Len(q.frames) -> 0..c + 1] : Stacked(page, c + 1, q, st)
  <2>1. PICK st \in [1..d -> 0..c] : Stacked(page, c, p, st)
    BY <1>9 DEF Taken
  <2> DEFINE ts == [k \in 1..d - 1 |-> st[k]]
  <2>2. \A b \in 0..c : Rise(page, b) >= 0
    BY DEF Taken
  <2>3. Opened(page, c, st, d) /\ OpenKids(page, c, p, st) /\ ClosedKids(page, c, p, st)
    BY <1>1, <1>2, <1>3, <2>1, <2>2, StackedParts
  <2>4. /\ \A j \in 0..c : KidsSoFar(page, j, c + 1) = KidsSoFar(page, j, c)
        /\ \A k \in 1..d : st[k] \in 0..c
    <3>1. \A k \in 1..d : st[k] \in 0..c
      BY <2>3 DEF Opened
    <3>2. \A j \in 0..c : KidsGrow(page, j, c, st[d])
      <4> SUFFICES ASSUME NEW j \in 0..c PROVE KidsGrow(page, j, c, st[d])
        OBVIOUS
      <4> QED BY <1>1, <1>9, <2>3, KidsNext
    <3> QED BY <1>1, <3>1, <3>2 DEF KidsGrow
  <2>5. Opened(page, c + 1, ts, d - 1)
    BY <1>1, <1>2, <1>3, <2>3, OpenedLess
  <2>6. \A k \in 1..d - 1 : ts[k] = st[k] /\ k \in 1..d
    BY <1>3
  <2> HIDE DEF ts
  <2>7. /\ \A k \in 1..d - 1 : q.frames[k].tag = p.frames[k].tag
        /\ \A k \in 1..d - 1 : k # d - 1 => q.frames[k].list = p.frames[k].list
        /\ q.frames[d - 1].list = Append(p.frames[d - 1].list, t)
    <3> DEFINE m == d - 1
    <3>1. m \in 1..m /\ p.frames[m] \in Frame
      BY <1>3, FramesLen, Zenon
    <3>2. q.frames = Listed(p, m, t)
      BY <1>4, <1>9, Zenon
    <3> HIDE DEF m, t, d
    <3>3. \A k \in 1..m : q.frames[k] = IF k = m THEN [p.frames[m] EXCEPT !.list = Append(@, t)]
                                        ELSE p.frames[k]
      BY <3>2 DEF Listed
    <3>4. \A k \in 1..m : k # m => q.frames[k] = p.frames[k]
      BY <3>3
    <3>5. q.frames[m] = [p.frames[m] EXCEPT !.list = Append(@, t)]
      BY <3>1, <3>3
    <3>6. q.frames[m].tag = p.frames[m].tag /\ q.frames[m].list = Append(p.frames[m].list, t)
      BY <3>1, <3>5 DEF Frame
    <3> QED BY <3>4, <3>6 DEF m
  <2>8. \A k \in 1..d - 1 : Contents(q, k) = Contents(p, k)
    <3> SUFFICES ASSUME NEW k \in 1..d - 1 PROVE Contents(q, k) = Contents(p, k)
      OBVIOUS
    <3>1. k < d /\ k + 1 \in 1..d /\ k \in 1..d
      BY <1>3
    <3>2. Contents(p, k) = Append(p.frames[k].list, p.frames[k + 1].tag)
      BY <1>3, <3>1, ContentsAre
    <3>3. CASE k = d - 1
      <4>1. ~(k < Len(q.frames)) /\ k \in 1..Len(q.frames)
        BY <1>3, <1>5, <3>3
      <4>2. Contents(q, k) = q.frames[k].list
        BY <1>3, <1>9, <4>1, ContentsAre
      <4>3. k + 1 = d
        BY <1>3, <3>3
      <4> QED BY <2>7, <3>2, <3>3, <4>2, <4>3
    <3>4. CASE k # d - 1
      <4>1. k < d - 1 /\ k + 1 \in 1..d - 1
        BY <1>3, <3>4
      <4>2. q.frames[k].list = p.frames[k].list /\ q.frames[k + 1].tag = p.frames[k + 1].tag
        BY <2>7, <3>4, <4>1
      <4> QED BY <1>5, <3>1, <4>1, <4>2 DEF Contents
    <3> QED BY <3>3, <3>4
  <2>9. OpenKids(page, c + 1, q, ts)
    <3> SUFFICES ASSUME NEW k \in 1..d - 1
                 PROVE  /\ q.frames[k].tag = Number(page, ts[k])
                        /\ InOrder(Contents(q, k), KidsSoFar(page, ts[k], c + 1))
      BY <1>5 DEF OpenKids
    <3>1. k \in 1..d /\ ts[k] = st[k] /\ st[k] \in 0..c
      BY <2>4, <2>6
    <3>2. p.frames[k].tag = Number(page, st[k]) /\ InOrder(Contents(p, k), KidsSoFar(page, st[k], c))
      BY <2>3, <3>1 DEF OpenKids
    <3> QED BY <2>4, <2>7, <2>8, <3>1, <3>2
  <2>10. ClosedKids(page, c + 1, q, ts)
    <3> SUFFICES ASSUME NEW j \in 1..c + 1, page[j].kind \in Shown, \A k \in 1..d - 1 : ts[k] # j
                 PROVE  InOrder(q.nodes[Number(page, j)].kids, KidsSoFar(page, j, c + 1))
      BY <1>5 DEF ClosedKids
    <3>1. j \in 1..c /\ j \in 0..c /\ j \in 1..Len(page)
      BY <1>1
    <3>2. Number(page, j) \in 1..N
      <4>1. Number(page, c) = N
        BY <1>9 DEF Taken, NodesSoFar
      <4> QED BY <1>1, <3>1, <4>1, NumberRange
    <3>3. p.frames[d].tag = Number(page, st[d]) /\ InOrder(Contents(p, d), KidsSoFar(page, st[d], c))
      BY <1>3, <2>3 DEF OpenKids
    <3>4. CASE j = st[d]
      <4>1. ~(d < d)
        BY <1>3
      <4>2. Contents(p, d) = list
        BY <1>3, <4>1, ContentsAre
      <4>3. q.nodes[Number(page, j)].kids = list
        BY <1>7, <1>9, <3>3, <3>4
      <4> QED BY <2>4, <3>1, <3>3, <3>4, <4>2, <4>3
    <3>5. CASE j # st[d]
      <4>1. \A k \in 1..d : st[k] # j
        <5>1. \A k \in 1..d : k = d \/ k \in 1..d - 1
          BY <1>3
        <5> QED BY <2>6, <3>5, <5>1
      <4>2. InOrder(p.nodes[Number(page, j)].kids, KidsSoFar(page, j, c))
        BY <2>3, <3>1, <4>1 DEF ClosedKids
      <4>3. Number(page, j) # t
        <5>1. st[d] \in 0..c /\ page[st[d]].kind = "open" /\ Rise(page, st[d]) = d - 1
          BY <1>3, <2>3 DEF Opened
        <5>2. st[d] # 0
          <6>1. Rise(page, 0) = 0
            BY <1>1, RiseIs DEF RiseSteps
          <6> QED BY <1>3, <5>1, <6>1
        <5>3. st[d] \in 1..Len(page) /\ page[st[d]].kind \in Shown
          BY <1>1, <5>1, <5>2 DEF Shown
        <5> QED BY <1>1, <3>1, <3>3, <3>5, <5>3, NumberApart
      <4> QED BY <1>7, <1>9, <2>4, <3>1, <3>2, <4>2, <4>3
    <3> QED BY <3>4, <3>5
  <2>11. Stacked(page, c + 1, q, ts)
    <3>1. Opened(page, c + 1, ts, Len(q.frames)) /\ Len(q.frames) \in Nat \ {0}
      BY <1>3, <1>5, <2>5
    <3>2. c + 1 \in Nat /\ Rise(page, c + 1) = Len(q.frames) - 1
      BY <1>1, <1>2, <1>3, <1>5
    <3> QED BY <1>2, <3>1, <3>2, <2>9, <2>10, StackedParts
  <2>12. ts \in [1..Len(q.frames) -> 0..c + 1]
    BY <1>5, <2>5 DEF Opened
  <2> QED BY <2>11, <2>12
<1> QED BY <1>2, <1>3, <1>6, <1>8, <1>9, Zenon DEF Taken

-----------------------------------------------------------------------------
(* The tree of a page that has come to its end.                            *)

LEMMA EndInputGrown ==
  ASSUME NEW p, Growing(p)
  PROVE  EndGrown(p, EndInput(p).parser) /\ EndInput(p).out = "accepted"
<1> DEFINE N == Len(p.nodes)
           d == Len(p.frames)
           q == EndInput(p).parser
<1>1. PICK s : EndsAs(p, s)
  BY EndInputIs
<1>2. /\ Typed(p) /\ Whole(p) /\ N \in Nat /\ d \in Nat \ {0}
  BY NodesLen, FramesLen DEF Growing
<1>3. q = Reduce(s, 1) /\ EndInput(p).out = "accepted"
  <2>1. EndInput(p) = [parser |-> Reduce(s, 1), out |-> "accepted"]
    BY <1>1, Zenon DEF EndsAs
  <2> QED BY <2>1
<1> HIDE DEF q
<1>4. /\ DOMAIN s = DOMAIN p /\ s.dom = p.dom /\ s.root = Into(p, 1)
      /\ s.reduced = IF p.dom THEN p.reduced ELSE p.reduced + 4 * (d - 1)
      /\ s.nodes = [n \in 1..N |-> s.nodes[n]]
  BY <1>1, Zenon DEF EndsAs
<1>5. \A n \in 1..N :
       /\ s.nodes[n].kids = p.nodes[n].kids \o NewKids(p, n)
       /\ s.nodes[n].kind = p.nodes[n].kind
       /\ s.nodes[n].text = p.nodes[n].text
       /\ s.nodes[n].prots = p.nodes[n].prots
  BY <1>1, Zenon DEF EndsAs
<1>6. /\ q.dom = p.dom /\ q.root = Into(p, 1) /\ q.nodes = s.nodes
      /\ q.reduced = IF p.dom THEN p.reduced ELSE p.reduced + 4 * (d - 1) + 1
  <2>1. "reduced" \in DOMAIN s /\ p.dom \in BOOLEAN
    BY <1>2, <1>4 DEF Typed
  <2> DEFINE m == 4 * (d - 1)
  <2>2. s.reduced = IF p.dom THEN p.reduced ELSE p.reduced + m
    BY <1>4
  <2> HIDE DEF m
  <2>3. q.dom = s.dom /\ q.root = s.root /\ q.nodes = s.nodes
        /\ q.reduced = IF p.dom THEN p.reduced ELSE p.reduced + m + 1
    BY <1>3, <1>4, <2>1, <2>2 DEF Reduce
  <2> QED BY <1>4, <2>3 DEF m
<1>7. Len(q.nodes) = N
  <2>1. s.nodes \in [1..N -> {s.nodes[n] : n \in 1..N}]
    BY <1>4
  <2> HIDE DEF N
  <2> QED BY <1>2, <1>6, <2>1, FunctionSeq
<1>8. ASSUME p.dom, NEW k \in 1..d PROVE Into(p, k) = Contents(p, k)
  BY <1>8 DEF Into, Contents, Depth
<1>9. ASSUME NEW n \in 1..N, \A k \in 1..d : p.frames[k].tag # n
      PROVE  q.nodes[n].kids = p.nodes[n].kids
  <2>1. OpenAs(p, n) = {}
    BY <1>9 DEF OpenAs, Depth
  <2>2. p.nodes[n].kids \in Seq(Nat)
    BY <1>2 DEF Typed, NodeTyped
  <2>3. NewKids(p, n) = <<>>
    BY <2>1 DEF NewKids
  <2>4. q.nodes[n].kids = p.nodes[n].kids \o <<>>
    BY <1>5, <1>6, <2>3
  <2> QED BY <2>2, <2>4, ConcatEmptySeq
<1>10. ASSUME p.dom, NEW k \in 1..d, p.frames[k].tag \in 1..N
       PROVE  q.nodes[p.frames[k].tag].kids = Contents(p, k)
  <2> DEFINE n == p.frames[k].tag
  <2>1. k \in OpenAs(p, n) /\ n \in 1..N
    BY <1>10 DEF OpenAs, Depth
  <2>2. n = p.frames[k].tag
    OBVIOUS
  <2> HIDE DEF n
  <2>3. NewKids(p, n) = Into(p, k)
    BY <2>1, OpenOnce
  <2>4. p.nodes[n].kids = <<>>
    BY <1>2, <2>1, <2>2 DEF Whole, OpenEmpty
  <2>5. Into(p, k) \in Seq(Nat)
    BY IntoWhole
  <2>6. q.nodes[n].kids = <<>> \o Into(p, k)
    BY <1>5, <1>6, <2>1, <2>3, <2>4
  <2>7. q.nodes[n].kids = Contents(p, k)
    BY <1>8, <1>10, <2>5, <2>6, ConcatEmptySeq
  <2> QED BY <2>2, <2>7
<1>11. 1 \in 1..d
  BY <1>2
<1>12. EndGrown(p, q)
  BY <1>5, <1>6, <1>7, <1>8, <1>9, <1>10, <1>11 DEF EndGrown
<1> QED BY <1>3, <1>12 DEF q

LEMMA EndTree ==
  ASSUME NEW page, PageTyped(page), NEW p, Growing(p), Taken(page, Len(page), p), p.dom,
         NEW q, EndGrown(p, q)
  PROVE  TreeIs(page, q)
<1> DEFINE c == Len(page)
           N == Len(p.nodes)
           d == Len(p.frames)
<1>1. c \in Nat /\ DOMAIN page = 1..c /\ c \in 0..c
  BY DEF PageTyped
<1>2. Typed(p) /\ N \in Nat /\ d \in Nat \ {0} /\ FramesWhole(p) /\ 1 \in 1..d
  <2>1. Typed(p) /\ N \in Nat /\ d \in Nat \ {0} /\ FramesWhole(p)
    BY FramesLen, NodesLen DEF Growing, Whole
  <2> QED BY <2>1
<1>3. \A j : Children(page, j) = KidsSoFar(page, j, c)
  BY <1>1, Zenon DEF Children, KidsSoFar
<1>4. NodesSoFar(page, c, p)
  BY DEF Taken
<1>5. NodesSoFar(page, c, q)
  <2>1. Len(q.nodes) = N /\
        \A n \in 1..N : /\ q.nodes[n].kind = p.nodes[n].kind
                        /\ q.nodes[n].text = p.nodes[n].text
                        /\ q.nodes[n].prots = p.nodes[n].prots
    BY DEF EndGrown
  <2>2. c = Len(page) /\ N = Len(p.nodes)
    OBVIOUS
  <2> HIDE DEF c, N
  <2>3. c \in 0..Len(page) /\ c \in {c, c + 1}
    BY <1>1, <2>2, Zenon
  <2>4. \A x \in Nat : x # x + 1
    OBVIOUS
  <2> QED BY <1>1, <1>2, <1>4, <2>1, <2>2, <2>3, <2>4, NodesRekept
<1>6. ASSUME ~HasVoid(page)
      PROVE  /\ InOrder(q.root, Children(page, 0))
             /\ \A i \in 1..c : page[i].kind \in Shown =>
                  InOrder(q.nodes[Number(page, i)].kids, Children(page, i))
  <2>1. PICK st \in [1..d -> 0..c] : Stacked(page, c, p, st)
    BY <1>6 DEF Taken
  <2>2. Len(p.frames) \in Nat \ {0} /\ Rise(page, c) = d - 1 /\ \A b \in 0..c : Rise(page, b) >= 0
    <3>1. Rise(page, c) \in Int /\ d = 1 + Rise(page, c)
      BY <1>1, RiseIs DEF RiseSteps, Taken
    <3>2. \A b \in 0..c : Rise(page, b) >= 0
      BY DEF Taken
    <3> QED BY <1>2, <3>1, <3>2
  <2>3. Opened(page, c, st, d) /\ OpenKids(page, c, p, st) /\ ClosedKids(page, c, p, st)
    BY <1>1, <2>1, <2>2, StackedParts
  <2>4. \A k \in 1..d : /\ p.frames[k].tag = Number(page, st[k])
                        /\ InOrder(Contents(p, k), Children(page, st[k]))
    BY <1>3, <2>3 DEF OpenKids
  <2>5. InOrder(q.root, Children(page, 0))
    <3>1. q.root = Contents(p, 1)
      BY DEF EndGrown
    <3>2. st[1] = 0
      BY <2>3 DEF Opened
    <3> QED BY <1>2, <2>4, <3>1, <3>2
  <2>6. ASSUME NEW i \in 1..c, page[i].kind \in Shown
        PROVE  InOrder(q.nodes[Number(page, i)].kids, Children(page, i))
    <3> DEFINE n == Number(page, i)
    <3>1. n \in 1..N
      <4>1. n \in 1..Number(page, c)
        BY <1>1, <2>6, NumberRange
      <4> QED BY <1>4, <4>1 DEF NodesSoFar
    <3>2. CASE \E k \in 1..d : st[k] = i
      <4>1. PICK k \in 1..d : st[k] = i
        BY <3>2
      <4>2. p.frames[k].tag = n
        BY <2>4, <4>1
      <4>3. q.nodes[n].kids = Contents(p, k)
        BY <3>1, <4>2 DEF EndGrown
      <4> QED BY <2>4, <4>1, <4>3
    <3>3. CASE \A k \in 1..d : st[k] # i
      <4>1. InOrder(p.nodes[n].kids, KidsSoFar(page, i, c))
        BY <2>3, <2>6, <3>3 DEF ClosedKids
      <4>2. ASSUME NEW k \in 1..d PROVE p.frames[k].tag # n
        <5>1. CASE k = 1
          <6>1. p.frames[k].tag = 0
            BY <1>2, <5>1 DEF FramesWhole
          <6>2. n # 0
            BY <3>1
          <6> QED BY <6>1, <6>2
        <5>2. CASE k > 1
          <6>1. page[st[k]].kind = "open" /\ st[k] \in 0..c /\ Rise(page, st[k]) = k - 1
            BY <2>3, <5>2 DEF Opened
          <6>2. st[k] # 0
            <7>1. Rise(page, 0) = 0
              BY <1>1, RiseIs DEF RiseSteps
            <7> QED BY <5>2, <6>1, <7>1
          <6>3. st[k] \in 1..c /\ page[st[k]].kind \in Shown
            BY <1>1, <6>1, <6>2 DEF Shown
          <6>4. st[k] # i
            BY <3>3
          <6>5. Number(page, st[k]) # n
            BY <1>1, <2>6, <6>3, <6>4, NumberApart
          <6> QED BY <2>4, <6>5
        <5> QED BY <1>2, <5>1, <5>2
      <4>3. q.nodes[n].kids = p.nodes[n].kids
        BY <3>1, <4>2 DEF EndGrown
      <4> QED BY <1>3, <4>1, <4>3
    <3> QED BY <3>2, <3>3
  <2> QED BY <2>5, <2>6
<1> QED BY <1>1, <1>5, <1>6 DEF TreeIs

\* A tag that is closed where none is open is one too many.
LEMMA SurplusClose ==
  ASSUME NEW page, PageTyped(page), NEW c \in 0..Len(page) - 1, page[c + 1].kind = "close",
         Rise(page, c) = 0
  PROVE  HasSurplusClose(page)
<1>1. Len(page) \in Nat /\ c + 1 \in 1..Len(page) /\ (c + 1) - 1 = c /\ DOMAIN page = 1..Len(page)
  BY DEF PageTyped
<1>2. Rise(page, c + 1) = 0 - 1
  <2>1. Rise(page, c + 1) = Rise(page, (c + 1) - 1) + (0 - 1)
    BY <1>1, RiseIs DEF RiseSteps
  <2> QED BY <1>1, <2>1
<1> DEFINE x == Cardinality({i \in 1..c + 1 : page[i].kind = "open"})
           y == Cardinality({i \in 1..c + 1 : page[i].kind = "close"})
<1>3. x - y = 0 - 1
  BY <1>2 DEF Rise
<1>4. x \in Nat /\ y \in Nat
  <2>1. IsFiniteSet(1..c + 1)
    BY <1>1, FS_Interval
  <2> QED BY <2>1, FS_Subset, FS_CardinalityType
<1>5. y > x
  <2> HIDE DEF x, y
  <2> QED BY <1>3, <1>4
<1> QED BY <1>1, <1>5 DEF HasSurplusClose

-----------------------------------------------------------------------------
(* What the tokens of a page make of a parser.                             *)

LEMMA RaisedTwice ==
  ASSUME NEW p, NEW q, NEW r, NEW m \in Nat, NEW n \in Nat, Raised(p, q, m), Raised(q, r, n)
  PROVE  Raised(p, r, m + n)
<1>1. r.dom = p.dom
  BY DEF Raised
<1>2. ASSUME NEW a \in Nat, Spent(p, a) PROVE Spent(r, a + (m + n))
  <2>1. a + m \in Nat /\ (a + m) + n = a + (m + n)
    OBVIOUS
  <2>2. Spent(q, a + m)
    BY <1>2 DEF Raised
  <2>3. Spent(r, (a + m) + n)
    BY <2>1, <2>2 DEF Raised
  <2> QED BY <2>1, <2>3
<1> QED BY <1>1, <1>2 DEF Raised

LEMMA ReduceStep ==
  ASSUME NEW p, Typed(p), NEW n \in Nat
  PROVE  Stepped(p, Reduce(p, n), p.at, n, p.prots) /\ Typed(Reduce(p, n))
<1> DEFINE q == Reduce(p, n)
<1>1. Same(p, q) /\ q.at = p.at
  BY ReduceSame
<1>2. q.prots = p.prots /\ q.dom = p.dom
  BY DEF Reduce, Typed
<1>3. ASSUME NEW a \in Nat, Spent(p, a) PROVE Spent(q, a + n)
  <2>1. CASE p.dom
    BY <1>3, <2>1 DEF Reduce, Spent
  <2>2. CASE ~p.dom
    <3>1. q.reduced = p.reduced + n
      BY <2>2 DEF Reduce, Typed
    <3>2. p.reduced = 2 + a
      BY <1>3, <2>2 DEF Spent
    <3>3. q.reduced = 2 + (a + n)
      <4> HIDE DEF q
      <4> QED BY <3>1, <3>2
    <3> QED BY <1>2, <2>2, <3>3 DEF Spent
  <2> QED BY <2>1, <2>2
<1>4. Typed(q)
  BY <1>1 DEF Same, Typed
<1> HIDE DEF q
<1>5. Stepped(p, q, p.at, n, p.prots)
  BY <1>1, <1>2, <1>3 DEF Stepped, Raised
<1> QED BY <1>4, <1>5 DEF q

LEMMA AtStep ==
  ASSUME NEW p, Typed(p), NEW at
  PROVE  Stepped(p, [p EXCEPT !.at = at], at, 0, p.prots) /\ Typed([p EXCEPT !.at = at])
<1> DEFINE q == [p EXCEPT !.at = at]
<1>1. Same(p, q) /\ q.at = at
  BY AtSame
<1>2. q.prots = p.prots /\ q.dom = p.dom /\ q.reduced = p.reduced
  BY DEF Typed
<1>3. Typed(q)
  BY <1>1 DEF Same, Typed
<1> HIDE DEF q
<1>4. Raised(p, q, 0)
  BY <1>2 DEF Raised, Spent
<1>5. Stepped(p, q, at, 0, p.prots)
  BY <1>1, <1>2, <1>4 DEF Stepped
<1> QED BY <1>3, <1>5 DEF q

LEMMA StepTwice ==
  ASSUME NEW p, NEW q, NEW r, NEW m \in Nat, NEW n \in Nat, NEW at, NEW bt, NEW x, NEW y,
         Stepped(p, q, at, m, x), Stepped(q, r, bt, n, y)
  PROVE  Stepped(p, r, bt, m + n, y)
<1>1. Raised(p, r, m + n)
  BY RaisedTwice DEF Stepped
<1> QED BY <1>1, SameTrans DEF Stepped

LEMMA NameStep ==
  ASSUME NEW p, Typed(p), NEW at
  PROVE  Stepped(p, NameRead(p, at), at, 1, p.prots) /\ Typed(NameRead(p, at))
<1> DEFINE q == [p EXCEPT !.at = at]
<1>1. Stepped(p, q, at, 0, p.prots) /\ Typed(q)
  BY AtStep
<1>2. NameRead(p, at) = Reduce(q, 1)
  BY DEF NameRead
<1> HIDE DEF q
<1>3. Stepped(q, Reduce(q, 1), at, 1, p.prots) /\ Typed(Reduce(q, 1))
  BY <1>1, ReduceStep DEF Stepped
<1>4. 0 + 1 = 1
  OBVIOUS
<1>5. Stepped(p, Reduce(q, 1), at, 1, p.prots)
  <2>1. 0 \in Nat /\ 1 \in Nat
    OBVIOUS
  <2>2. Stepped(p, Reduce(q, 1), at, 0 + 1, p.prots)
    BY <1>1, <1>3, <2>1, StepTwice
  <2> QED BY <1>4, <2>2
<1> QED BY <1>2, <1>3, <1>5

LEMMA ProtStep ==
  ASSUME NEW p, Typed(p), NEW v, Len(v) \in Nat
  PROVE  Stepped(p, ProtEnds(p, v), p.at, 3 + Len(v), MoreProts(p, v)) /\ Typed(ProtEnds(p, v))
<1> DEFINE q == [p EXCEPT !.prots = IF p.dom THEN Append(@, v) ELSE @]
<1>1. /\ Same(p, q) /\ q.at = p.at /\ q.prots = MoreProts(p, v) /\ q.reduced = p.reduced
      /\ q.dom = p.dom
  BY DEF Same, Typed, MoreProts
<1>2. Typed(q)
  BY <1>1 DEF Same, Typed
<1>3. ProtEnds(p, v) = Reduce(q, 3 + Len(v))
  BY Zenon DEF ProtEnds, q
<1> HIDE DEF q
<1> DEFINE n == 3 + Len(v)
<1>4. n \in Nat /\ 0 + n = n /\ 0 \in Nat
  OBVIOUS
<1>5. Stepped(p, q, p.at, 0, MoreProts(p, v))
  <2>1. Raised(p, q, 0)
    BY <1>1 DEF Raised, Spent
  <2> QED BY <1>1, <2>1 DEF Stepped
<1> HIDE DEF n
<1>6. Stepped(q, Reduce(q, n), p.at, n, MoreProts(p, v)) /\ Typed(Reduce(q, n))
  <2>1. Stepped(q, Reduce(q, n), q.at, n, q.prots) /\ Typed(Reduce(q, n))
    BY <1>2, <1>4, ReduceStep
  <2> QED BY <1>1, <2>1
<1>7. Stepped(p, Reduce(q, n), p.at, 0 + n, MoreProts(p, v))
  BY <1>4, <1>5, <1>6, StepTwice
<1>8. Stepped(p, Reduce(q, n), p.at, n, MoreProts(p, v))
  BY <1>4, <1>7
<1> QED BY <1>3, <1>6, <1>8 DEF n

LEMMA PushTagStart ==
  ASSUME NEW p, Typed(p), p.at = "doc", NEW text
  PROVE  Moves(p, Push(p, "TAG_START_FLAG", text), "name", 0, p.prots)
<1> DEFINE q == [p EXCEPT !.at = "name"]
<1>1. Push(p, "TAG_START_FLAG", text) = On(q)
  BY DEF Push
<1>2. Stepped(p, q, "name", 0, p.prots)
  BY AtStep
<1> HIDE DEF q
<1> QED BY <1>1, <1>2 DEF Moves, On

LEMMA PushCloseStart ==
  ASSUME NEW p, Growing(p), p.at = "doc", Len(p.frames) > 1, NEW text
  PROVE  Moves(p, Push(p, "TAG_START_FLAG2", text), "end_name", 0, p.prots)
<1> DEFINE q == [p EXCEPT !.at = "end_name"]
<1>1. Push(p, "TAG_START_FLAG2", text) = On(q)
  <2>1. Len(p.frames) > 1 /\ Len(p.frames) # 1
    BY GrowingDepth
  <2> QED BY <2>1 DEF Push, Depth
<1>2. Stepped(p, q, "end_name", 0, p.prots)
  BY AtStep DEF Growing
<1> HIDE DEF q
<1> QED BY <1>1, <1>2 DEF Moves, On

LEMMA PushSurplus ==
  ASSUME NEW p, Growing(p), p.at = "doc", ~(Len(p.frames) > 1), NEW text
  PROVE  Push(p, "TAG_START_FLAG2", text).out = "refused"
<1>1. Len(p.frames) = 1 /\ ~(Len(p.frames) > 1)
  BY GrowingDepth
<1>2. Push(p, "TAG_START_FLAG2", text) = Refuse(Document(p))
  BY <1>1 DEF Push, Depth
<1> QED BY <1>2 DEF Refuse

LEMMA PushName ==
  ASSUME NEW p, Typed(p), p.at = "name", NEW text
  PROVE  Moves(p, Push(p, "TAG_NAME", text), "prots", 3, p.prots)
<1> DEFINE q == NameRead(p, "prots")
<1>1. Push(p, "TAG_NAME", text) = On(Reduce(q, 2))
  BY DEF Push
<1>2. Stepped(p, q, "prots", 1, p.prots) /\ Typed(q)
  BY NameStep
<1> HIDE DEF q
<1>3. Stepped(q, Reduce(q, 2), "prots", 2, p.prots)
  BY <1>2, ReduceStep DEF Stepped
<1>4. 1 + 2 = 3 /\ 1 \in Nat /\ 2 \in Nat
  OBVIOUS
<1>5. Stepped(p, Reduce(q, 2), "prots", 1 + 2, p.prots)
  BY <1>2, <1>3, <1>4, StepTwice
<1>6. Stepped(p, Reduce(q, 2), "prots", 3, p.prots)
  BY <1>4, <1>5
<1> QED BY <1>1, <1>6 DEF Moves, On

LEMMA PushProt ==
  ASSUME NEW p, Typed(p), p.at = "prots", NEW text
  PROVE  Moves(p, Push(p, "PROT", text), "prot", 1, p.prots)
<1>1. Push(p, "PROT", text) = On(NameRead(p, "prot"))
  BY DEF Push, InTag, TagEndFlags
<1>2. Stepped(p, NameRead(p, "prot"), "prot", 1, p.prots)
  BY NameStep
<1> QED BY <1>1, <1>2 DEF Moves, On

LEMMA PushEqual ==
  ASSUME NEW p, Typed(p), p.at = "prot", NEW text
  PROVE  Moves(p, Push(p, "EQUAL", text), "value", 0, p.prots)
<1> DEFINE q == [p EXCEPT !.at = "value"]
<1>1. Push(p, "EQUAL", text) = On(q)
  BY DEF Push
<1>2. Stepped(p, q, "value", 0, p.prots)
  BY AtStep
<1> HIDE DEF q
<1> QED BY <1>1, <1>2 DEF Moves, On

LEMMA BareStep ==
  ASSUME NEW p, Typed(p)
  PROVE  Stepped(p, ProtEnds(p, <<>>), p.at, 3, MoreProts(p, <<>>)) /\ Typed(ProtEnds(p, <<>>))
<1> DEFINE v == <<>>
<1>1. Len(v) = 0
  BY EmptySeq
<1>2. v = <<>>
  OBVIOUS
<1> HIDE DEF v
<1>3. Len(v) \in Nat /\ 3 + Len(v) = 3
  BY <1>1
<1>4. Stepped(p, ProtEnds(p, v), p.at, 3 + Len(v), MoreProts(p, v)) /\ Typed(ProtEnds(p, v))
  BY <1>3, ProtStep
<1>5. Stepped(p, ProtEnds(p, v), p.at, 3, MoreProts(p, v)) /\ Typed(ProtEnds(p, v))
  BY <1>3, <1>4
<1> QED BY <1>2, <1>5

LEMMA PushBareProt ==
  ASSUME NEW p, Typed(p), p.at = "prot", NEW text
  PROVE  Moves(p, Push(p, "PROT", text), "prot", 4, MoreProts(p, <<>>))
<1> DEFINE q == ProtEnds(p, <<>>)
<1>1. Push(p, "PROT", text) = On(NameRead(q, "prot"))
  BY DEF Push, InTag, TagEndFlags
<1>2. Stepped(p, q, "prot", 3, MoreProts(p, <<>>)) /\ Typed(q)
  BY BareStep
<1> HIDE DEF q
<1>3. Stepped(q, NameRead(q, "prot"), "prot", 1, MoreProts(p, <<>>))
  BY <1>2, NameStep DEF Stepped
<1>4. 3 + 1 = 4 /\ 3 \in Nat /\ 1 \in Nat
  OBVIOUS
<1>5. Stepped(p, NameRead(q, "prot"), "prot", 3 + 1, MoreProts(p, <<>>))
  BY <1>2, <1>3, <1>4, StepTwice
<1>6. Stepped(p, NameRead(q, "prot"), "prot", 4, MoreProts(p, <<>>))
  BY <1>4, <1>5
<1> QED BY <1>1, <1>6 DEF Moves, On

LEMMA PushValue ==
  ASSUME NEW p, Typed(p), p.at = "value", NEW text
  PROVE  Moves(p, Push(p, "TEXT", text), "prots", 4, MoreProts(p, <<text>>))
<1> DEFINE v == <<text>>
           q == ProtEnds(p, v)
           r == [q EXCEPT !.at = "prots"]
<1>1. Push(p, "TEXT", text) = On(r)
  BY DEF Push
<1>2. Len(v) \in Nat /\ 3 + Len(v) = 4
  OBVIOUS
<1>3. v = <<text>>
  OBVIOUS
<1> HIDE DEF v
<1>4. Stepped(p, q, p.at, 3 + Len(v), MoreProts(p, v)) /\ Typed(q)
  BY <1>2, ProtStep
<1>5. Stepped(p, q, p.at, 4, MoreProts(p, v)) /\ Typed(q)
  BY <1>2, <1>4
<1> HIDE DEF q
<1>6. Stepped(q, r, "prots", 0, MoreProts(p, v))
  BY <1>5, AtStep DEF Stepped
<1> HIDE DEF r
<1>7. 4 + 0 = 4 /\ 4 \in Nat /\ 0 \in Nat
  OBVIOUS
<1>8. Stepped(p, r, "prots", 4 + 0, MoreProts(p, v))
  BY <1>5, <1>6, <1>7, StepTwice
<1>9. Stepped(p, r, "prots", 4, MoreProts(p, <<text>>))
  BY <1>3, <1>7, <1>8
<1> QED BY <1>1, <1>9 DEF Moves, On

LEMMA PushEndName ==
  ASSUME NEW p, Typed(p), p.at = "end_name", NEW text
  PROVE  Moves(p, Push(p, "TAG_NAME", text), "end", 1, p.prots)
<1>1. Push(p, "TAG_NAME", text) = On(NameRead(p, "end"))
  BY DEF Push
<1>2. Stepped(p, NameRead(p, "end"), "end", 1, p.prots)
  BY NameStep
<1> QED BY <1>1, <1>2 DEF Moves, On

\* A value that does not come.
LEMMA PushNoValue ==
  ASSUME NEW p, p.at = "value", NEW type, type # "TEXT", NEW text
  PROVE  Push(p, type, text).out = "refused"
<1>1. Push(p, type, text) = Refuse(p)
  BY DEF Push
<1> QED BY <1>1 DEF Refuse

LEMMA PushText ==
  ASSUME NEW p, Growing(p), p.at = "doc", NEW text, NEW r, r = Push(p, "TEXT", text)
  PROVE  /\ r.out = "more" /\ TextGrown(p, r.parser, text) /\ Raised(p, r.parser, 2)
         /\ r.parser.at = "doc" /\ r.parser.prots = p.prots
<1> DEFINE N == Len(p.nodes)
           d == Len(p.frames)
           node == Node("text", text, <<>>)
           F == Listed(p, d, N + 1)
           a == Alloc(p, node)
           q == [a EXCEPT !.frames[Depth(p)].list = Append(@, N + 1)]
<1>1. /\ Typed(p) /\ N \in Nat /\ d \in Nat /\ d \in 1..d /\ DOMAIN p.frames = 1..d
      /\ p.dom \in BOOLEAN
  BY NodesLen, FramesLen DEF Growing, Typed
<1>2. r = On(TextNode(p, text))
  BY DEF Push
<1>3. r.out = "more" /\ r.parser = TextNode(p, text)
  BY <1>2 DEF On
<1>4. CASE ~p.dom
  <2>1. r.parser = Reduce(p, 2)
    BY <1>3, <1>4 DEF TextNode
  <2>2. Stepped(p, Reduce(p, 2), p.at, 2, p.prots)
    BY <1>1, ReduceStep
  <2> QED BY <1>3, <1>4, <2>1, <2>2 DEF Stepped, Same, TextGrown
<1>5. CASE p.dom
  <2>1. r.parser = q
    BY <1>3, <1>5 DEF TextNode
  <2>2. /\ q.nodes = Append(p.nodes, node) /\ q.dom = p.dom /\ q.at = p.at
        /\ q.prots = p.prots /\ q.reduced = p.reduced
    BY <1>1 DEF Alloc, Typed
  <2>3. q.frames = F
    <3>1. a.frames = p.frames /\ "frames" \in DOMAIN a
      BY <1>1 DEF Alloc, Typed
    <3>2. q = [a EXCEPT !.frames[d].list = Append(@, N + 1)]
      BY DEF Depth
    <3> DEFINE e == [p.frames[d] EXCEPT !.list = Append(@, N + 1)]
    <3> HIDE DEF a, q
    <3>3. q.frames = [a.frames EXCEPT ![d].list = Append(@, N + 1)]
      BY <3>1, <3>2
    <3>4. q.frames = [p.frames EXCEPT ![d] = e]
      BY <3>1, <3>3
    <3>5. F = [k \in 1..d |-> IF k = d THEN e ELSE p.frames[k]]
      BY DEF Listed
    <3> HIDE DEF e, F
    <3> QED BY <3>4, <3>5, <1>1
  <2> HIDE DEF q, a
  <2>4. Raised(p, q, 2)
    BY <1>5, <2>2 DEF Raised, Spent
  <2>5. TextGrown(p, q, text)
    BY <1>5, <2>2, <2>3 DEF TextGrown
  <2> QED BY <1>3, <2>1, <2>2, <2>4, <2>5
<1> QED BY <1>1, <1>4, <1>5

LEMMA TagBeginsGrown ==
  ASSUME NEW p, Growing(p), NEW r, r = TagBegins(p)
  PROVE  /\ OpenGrown(p, r, p.prots) /\ Raised(p, r, 4)
         /\ r.at = "doc" /\ r.prots = <<>>
<1> DEFINE N == Len(p.nodes)
           d == Len(p.frames)
           node == Node("tag", <<>>, p.prots)
           a == IF p.dom THEN Alloc(p, node) ELSE p
           f == [tag |-> Len(a.nodes), list |-> <<>>]
           q == [a EXCEPT !.at = "doc", !.prots = <<>>, !.frames = Append(@, f)]
<1>1. /\ Typed(p) /\ N \in Nat /\ d \in Nat /\ p.frames \in Seq(Frame) /\ p.dom \in BOOLEAN
      /\ p.nodes \in Seq(ToSet(p.nodes))
  BY NodesLen, FramesLen DEF Growing, Typed
<1>2. r = Reduce(q, 4)
  BY Zenon DEF TagBegins
<1>3. /\ DOMAIN q = DOMAIN p /\ q.nodes = a.nodes /\ q.root = p.root
      /\ q.dom = p.dom /\ q.at = "doc" /\ q.prots = <<>> /\ q.reduced = p.reduced
      /\ q.frames = Append(p.frames, f)
  BY <1>1 DEF Alloc, Typed
<1>4. a.nodes = IF p.dom THEN Append(p.nodes, node) ELSE p.nodes
  BY <1>1 DEF Alloc, Typed
<1> HIDE DEF q, a
<1>5. p.dom => Len(a.nodes) = N + 1
  <2> HIDE DEF node
  <2>1. p.nodes \in Seq(ToSet(p.nodes) \cup {node})
    BY <1>1, SeqMonotonic
  <2> QED BY <2>1, <1>4, AppendProperties
<1>6. Growing(r) /\ r.dom = p.dom
  BY TagBeginsKeeps
<1>7. Stepped(q, r, "doc", 4, <<>>)
  <2>1. /\ Same(q, r) /\ r.at = q.at /\ r.prots = q.prots /\ r.dom = q.dom
        /\ r.reduced = IF q.dom THEN q.reduced ELSE q.reduced + 4
    BY <1>1, <1>2, <1>3 DEF Reduce, Same, Typed
  <2>2. Raised(q, r, 4)
    BY <2>1, <1>1, <1>3 DEF Raised, Spent
  <2> QED BY <1>3, <2>1, <2>2 DEF Stepped
<1>8. Raised(p, r, 4)
  <2>1. Raised(p, q, 0)
    BY <1>3 DEF Raised, Spent
  <2>2. Raised(q, r, 4) /\ 0 \in Nat /\ 4 \in Nat /\ 0 + 4 = 4
    BY <1>7 DEF Stepped
  <2>3. Raised(p, r, 0 + 4)
    BY <2>1, <2>2, RaisedTwice
  <2> QED BY <2>2, <2>3
<1>9. r.frames = Append(p.frames, f) /\ r.nodes = a.nodes
  BY <1>3, <1>7 DEF Stepped, Same
<1>10. p.dom => f = [tag |-> N + 1, list |-> <<>>]
  BY <1>5
<1>11. ~p.dom => Len(r.frames) = d + 1
  <2>1. p.frames \in Seq(Frame \cup {f})
    BY <1>1, SeqMonotonic
  <2> HIDE DEF f
  <2> QED BY <1>9, <2>1, AppendProperties
<1>12. OpenGrown(p, r, p.prots)
  <2> HIDE DEF f
  <2> QED BY <1>4, <1>6, <1>9, <1>10, <1>11 DEF OpenGrown
<1> QED BY <1>7, <1>8, <1>12 DEF Stepped

LEMMA PushTagEnd ==
  ASSUME NEW p, Growing(p), p.at = "prots", NEW type \in TagEndFlags, NEW text,
         NEW r, r = Push(p, type, text)
  PROVE  /\ r.out = "more" /\ OpenGrown(p, r.parser, p.prots) /\ Raised(p, r.parser, 4)
         /\ r.parser.at = "doc" /\ r.parser.prots = <<>>
<1>1. r = On(TagBegins(p))
  BY DEF Push, InTag, TagEndFlags
<1>2. r.out = "more" /\ r.parser = TagBegins(p)
  BY <1>1 DEF On
<1> QED BY <1>2, TagBeginsGrown

LEMMA PushBareEnd ==
  ASSUME NEW p, Growing(p), p.at = "prot", NEW type \in TagEndFlags, NEW text,
         NEW r, r = Push(p, type, text)
  PROVE  /\ r.out = "more" /\ OpenGrown(p, r.parser, MoreProts(p, <<>>)) /\ Raised(p, r.parser, 7)
         /\ r.parser.at = "doc" /\ r.parser.prots = <<>>
<1> DEFINE q == ProtEnds(p, <<>>)
<1>1. r = On(TagBegins(q))
  BY DEF Push, InTag, TagEndFlags
<1>2. r.out = "more" /\ r.parser = TagBegins(q)
  BY <1>1 DEF On
<1>3. Stepped(p, q, "prot", 3, MoreProts(p, <<>>)) /\ Typed(q)
  BY BareStep DEF Growing
<1> HIDE DEF q
<1>4. Growing(q)
  BY <1>3, SameKeeps DEF Stepped
<1>5. /\ OpenGrown(q, r.parser, q.prots) /\ Raised(q, r.parser, 4)
      /\ r.parser.at = "doc" /\ r.parser.prots = <<>>
  BY <1>2, <1>4, TagBeginsGrown
<1>6. OpenGrown(p, r.parser, MoreProts(p, <<>>))
  BY <1>3, <1>5 DEF OpenGrown, Stepped, Same
<1>7. Raised(p, r.parser, 3 + 4)
  <2>1. 3 \in Nat /\ 4 \in Nat
    OBVIOUS
  <2> QED BY <1>3, <1>5, <2>1, RaisedTwice DEF Stepped
<1>8. Raised(p, r.parser, 7)
  <2>1. 3 + 4 = 7
    OBVIOUS
  <2> QED BY <1>7, <2>1
<1> QED BY <1>2, <1>5, <1>6, <1>8

LEMMA TagEndsGrown ==
  ASSUME NEW p, Growing(p), Len(p.frames) > 1, NEW r, r = TagEnds(p, 4)
  PROVE  CloseGrown(p, r) /\ Raised(p, r, 4) /\ r.at = "doc" /\ r.prots = p.prots
<1> DEFINE N == Len(p.nodes)
           d == Len(p.frames)
           t == p.frames[d].tag
           list == p.frames[d].list
           F == Listed(p, d - 1, t)
           a == [p EXCEPT !.at = "doc", !.frames = Front(@)]
           q == IF p.dom
                THEN [a EXCEPT !.nodes[t].kids = @ \o list,
                               !.frames[d - 1].list = Append(@, t)]
                ELSE a
           G == Front(p.frames)
<1>1. /\ Typed(p) /\ d \in Nat /\ d > 1 /\ p.dom \in BOOLEAN /\ d - 1 \in 1..d
  BY FramesLen DEF Growing, Typed
<1>2. r = Reduce(q, 4)
  BY Zenon DEF TagEnds, Depth
<1>3. G = [k \in 1..d - 1 |-> p.frames[k]]
  BY <1>1, FrontFrames
<1>4. /\ DOMAIN a = DOMAIN p /\ a.nodes = p.nodes /\ a.live = p.live /\ a.reduced = p.reduced
      /\ a.root = p.root /\ a.dom = p.dom /\ a.at = "doc" /\ a.frames = G /\ a.prots = p.prots
  BY <1>1 DEF Typed
<1> HIDE DEF G
<1>5. /\ DOMAIN q = DOMAIN p /\ q.dom = p.dom /\ q.at = "doc" /\ q.prots = p.prots
      /\ q.reduced = p.reduced
      /\ p.dom => /\ q.nodes = [p.nodes EXCEPT ![t].kids = @ \o list]
                  /\ q.frames = [G EXCEPT ![d - 1].list = Append(@, t)]
      /\ ~p.dom => q.frames = G
  <2> HIDE DEF a, t, list, d
  <2> QED BY <1>1, <1>4 DEF Typed
<1> HIDE DEF q, a
<1>6. /\ r.nodes = q.nodes /\ r.frames = q.frames /\ r.at = q.at /\ r.prots = q.prots
      /\ r.dom = q.dom /\ r.reduced = IF q.dom THEN q.reduced ELSE q.reduced + 4
  BY <1>1, <1>2, <1>5 DEF Reduce, Typed
<1>7. Raised(p, r, 4)
  <2>1. r.dom = p.dom /\ r.reduced = IF p.dom THEN p.reduced ELSE p.reduced + 4
    BY <1>5, <1>6, Zenon
  <2> QED BY <1>1, <2>1 DEF Raised, Spent
<1>8. p.dom => r.frames = F
  <2> SUFFICES ASSUME p.dom PROVE r.frames = F
    OBVIOUS
  <2> DEFINE e == [p.frames[d - 1] EXCEPT !.list = Append(@, t)]
  <2>1. F = [k \in 1..d - 1 |-> IF k = d - 1 THEN e ELSE p.frames[k]]
    BY DEF Listed
  <2>2. d - 1 \in 1..d - 1 /\ G[d - 1] = p.frames[d - 1]
    BY <1>1, <1>3
  <2>3. r.frames = [G EXCEPT ![d - 1] = e]
    BY <1>5, <1>6, <2>2, Zenon
  <2> HIDE DEF e, F, G
  <2> QED BY <1>3, <2>1, <2>3
<1>9. ~p.dom => Len(r.frames) = d - 1
  <2> DEFINE m == d - 1
  <2>1. m \in Nat /\ G = [k \in 1..m |-> p.frames[k]]
    BY <1>1, <1>3
  <2> HIDE DEF m
  <2>2. G \in [1..m -> {p.frames[k] : k \in 1..m}]
    BY <2>1
  <2>3. Len(G) = m
    BY <2>1, <2>2, FunctionSeq
  <2> QED BY <1>5, <1>6, <2>3, Zenon DEF m
<1>10. p.dom => r.nodes = [p.nodes EXCEPT ![t].kids = @ \o list]
  BY <1>5, <1>6, Zenon
<1>11. CloseGrown(p, r)
  <2> HIDE DEF F
  <2> QED BY <1>5, <1>6, <1>8, <1>9, <1>10, Zenon DEF CloseGrown, F
<1> QED BY <1>5, <1>6, <1>7, <1>11, Zenon

LEMMA PushClose ==
  ASSUME NEW p, Growing(p), p.at = "end", NEW type \in TagEndFlags, NEW text,
         NEW r, r = Push(p, type, text)
  PROVE  /\ r.out = "more" /\ CloseGrown(p, r.parser) /\ Raised(p, r.parser, 4)
         /\ r.parser.at = "doc" /\ r.parser.prots = p.prots
<1>1. r = On(TagEnds(p, 4))
  BY DEF Push, TagEndFlags
<1>2. Len(p.frames) > 1
  BY DEF Growing
<1>3. r.out = "more" /\ r.parser = TagEnds(p, 4)
  BY <1>1 DEF On
<1> QED BY <1>2, <1>3, TagEndsGrown

LEMMA PushEnd ==
  ASSUME NEW p, Growing(p), p.at = "doc", NEW text, NEW r, r = Push(p, "EOF", text)
  PROVE  r.out = "accepted" /\ EndGrown(p, r.parser)
<1>1. r = EndInput(p)
  BY DEF Push
<1> QED BY <1>1, EndInputGrown

-----------------------------------------------------------------------------
(* One match within an item.                                               *)

LEMMA Sees ==
  ASSUME NEW W, NEW o, NEW s, NEW all, Upcoming(W, o, s, all), NEW i \in Nat \ {0},
         Len(s) >= i, o + i <= Len(W)
  PROVE  s[i] = W[o + i]
<1>1. i \in 1..Len(s)
  BY DEF Upcoming
<1> QED BY <1>1 DEF Upcoming

\* The same, from the beginning of an item.
LEMMA SeesFirst ==
  ASSUME NEW W, NEW s, NEW all, Upcoming(W, 0, s, all), NEW i \in Nat \ {0},
         Len(s) >= i, i <= Len(W)
  PROVE  s[i] = W[i]
<1>1. 0 + i = i
  OBVIOUS
<1>2. 0 + i <= Len(W)
  BY <1>1
<1>3. s[i] = W[0 + i]
  BY <1>2, Sees
<1> QED BY <1>1, <1>3

LEMMA SameItself ==
  ASSUME NEW p
  PROVE  Same(p, p)
BY DEF Same

\* A match without a token takes a step within an item.
LEMMA Eaten ==
  ASSUME NEW item, NEW W, NEW o, NEW p, NEW n, NEW m, NEW r, NEW s, NEW k, NEW next,
         Takes(m, s, k, next, "none"),
         \/ o + k < Len(W) /\ Place(item, o + k, p, next, n) /\ (item.kind # "open" => (p.dom => p.prots = <<>>))
         \/ o + k = Len(W) /\ Grown(item, p, p) /\ Begins(p, next, n + Cost(item))
  PROVE  Goes(item, W, o, s, p, n, m, r)
<1>1. m.len = k /\ m.next = next /\ m.token = "none" /\ m.back = FALSE
      /\ m.len \in Nat /\ m.len <= Len(s)
  BY DEF Takes
<1>2. After(item, W, o + k, p, p, next, n)
  BY SameItself DEF After, Here
<1> QED BY <1>1, <1>2 DEF Goes

LEMMA Pushed ==
  ASSUME NEW item, NEW W, NEW o, NEW p, NEW n, NEW m, NEW r, NEW s, NEW k, NEW next, NEW token,
         Takes(m, s, k, next, token), token # "none",
         \/ r.out = "more" /\ After(item, W, o + k, p, r.parser, next, n)
         \/ r.out = "refused" /\ Fails(item, p)
  PROVE  Goes(item, W, o, s, p, n, m, r)
<1>1. m.len = k /\ m.next = next /\ m.token = token /\ m.back = FALSE
      /\ m.len \in Nat /\ m.len <= Len(s)
  BY DEF Takes
<1> QED BY <1>1 DEF Goes

LEMMA Costs1 ==
  ASSUME NEW item
  PROVE  /\ item.kind = "text" => Cost(item) = 2
         /\ item.kind = "close" => Cost(item) = 5
         /\ item.kind \in {"comment", "meta"} => Cost(item) = 0
BY DEF Cost

LEMMA GoesText ==
  ASSUME NEW item, OrdinaryItem(item), item.kind = "text", NEW W, W = Written(item),
         NEW s, NEW all, Upcoming(W, 0, s, all), Len(s) > Len(W) => s[Len(W) + 1] = "<",
         NEW p, Growing(p), NEW l, NEW n \in Nat, Begins(p, l, n),
         NEW m, m = LongestMatch(l, s), m.open => all,
         NEW r, r = Push(p, m.token, m.text)
  PROVE  Goes(item, W, 0, s, p, n, m, r)
<1> DEFINE N == Len(W)
<1>1. W = item.text /\ W \in Seq(Chars \ {"<"}) /\ N \in Nat \ {0} /\ s \in Seq(Chars)
      /\ Len(s) \in Nat \ {0} /\ l = "initial" /\ p.at = "doc"
  BY WrittenText DEF TextSpelled, Upcoming, Begins
<1>2. \A i \in 1..Len(s) : (i <= N => s[i] = W[i])
  <2> SUFFICES ASSUME NEW i \in 1..Len(s), i <= N PROVE s[i] = W[i]
    OBVIOUS
  <2>1. i \in Nat \ {0} /\ Len(s) >= i
    OBVIOUS
  <2> QED BY <2>1, SeesFirst
<1>3. \A i \in 1..Len(s) : (i <= N => s[i] # "<") /\ (i = N + 1 => s[i] = "<")
  <2>1. \A i \in 1..N : W[i] # "<"
    BY <1>1, ElementOfSeq
  <2>2. \A i \in 1..Len(s) : i <= N => i \in 1..N
    BY <1>1
  <2>3. \A i \in 1..Len(s) : i = N + 1 => Len(s) > N
    BY <1>1
  <2> QED BY <1>2, <2>1, <2>2, <2>3
<1>4. all => Len(s) >= N
  BY <1>1 DEF Upcoming
<1>5. N \in Nat /\ N > 0 /\ Len(s) > 0
  BY <1>1
<1>6. Takes(m, s, N, "initial", "TEXT") /\ m.text = SubSeq(s, 1, N)
  <2> HIDE DEF N
  <2> QED BY <1>1, <1>3, <1>4, <1>5, LexText
<1>7. m.text = W
  <2>1. N <= Len(s)
    BY <1>6 DEF Takes
  <2>2. \A i \in 1..N : s[i] = W[i]
    <3>1. \A i \in 1..N : i \in 1..Len(s) /\ i <= N
      BY <1>1, <2>1
    <3> QED BY <1>2, <3>1
  <2>3. SubSeq(s, 1, N) = W
    <3>1. W \in Seq(Chars)
      BY DEF Upcoming
    <3>2. SubSeq(W, 1, Len(W)) = W
      BY <3>1, SubSeqFull
    <3>3. SubSeq(s, 1, N) = SubSeq(W, 1, N)
      BY <1>1, <2>1, <2>2, <3>1
    <3> QED BY <3>2, <3>3
  <2> QED BY <1>6, <2>3
<1>8. r = Push(p, "TEXT", W)
  BY <1>6, <1>7 DEF Takes
<1>9. /\ r.out = "more" /\ TextGrown(p, r.parser, W) /\ Raised(p, r.parser, 2)
      /\ r.parser.at = "doc" /\ r.parser.prots = p.prots
  BY <1>1, <1>8, PushText
<1>10. Begins(r.parser, "initial", n + Cost(item))
  BY <1>9, Costs1 DEF Begins, Raised
<1>11. Grown(item, p, r.parser)
  BY <1>1, <1>9 DEF Grown
<1>12. 0 + N = Len(W)
  BY <1>1
<1>13. After(item, W, 0 + N, p, r.parser, "initial", n)
  <2> HIDE DEF N
  <2> QED BY <1>10, <1>11, <1>12 DEF After
<1> HIDE DEF N
<1> QED BY <1>6, <1>9, <1>13, Pushed

LEMMA GoesComment ==
  ASSUME NEW item, OrdinaryItem(item), item.kind = "comment", NEW W, W = Written(item),
         NEW s, NEW all, Upcoming(W, 0, s, all),
         NEW p, Growing(p), NEW l, NEW n \in Nat, Begins(p, l, n),
         NEW m, m = LongestMatch(l, s), m.open => all, NEW r
  PROVE  Goes(item, W, 0, s, p, n, m, r)
<1> DEFINE t == Len(item.text)
<1>1. /\ t \in Nat /\ Len(W) = t + 7
      /\ W[1] = "<" /\ W[2] = "!" /\ W[3] = "-" /\ W[4] = "-"
  BY WrittenComment DEF CommentSpelled
<1>2. s \in Seq(Chars) /\ Len(s) \in Nat /\ Len(s) > 0 /\ l = "initial"
  BY DEF Upcoming, Begins
<1>3. /\ s[1] = "<" /\ (Len(s) >= 2 => s[2] = "!") /\ (Len(s) >= 3 => s[3] = "-")
      /\ (Len(s) >= 4 => s[4] = "-")
  <2>1. /\ 1 <= Len(W) /\ 2 <= Len(W) /\ 3 <= Len(W) /\ 4 <= Len(W) /\ Len(s) >= 1
        /\ 1 \in Nat \ {0} /\ 2 \in Nat \ {0} /\ 3 \in Nat \ {0} /\ 4 \in Nat \ {0}
    BY <1>1, <1>2
  <2>2. s[1] = W[1]
    BY <2>1, SeesFirst
  <2>3. Len(s) >= 2 => s[2] = W[2]
    BY <2>1, SeesFirst
  <2>4. Len(s) >= 3 => s[3] = W[3]
    BY <2>1, SeesFirst
  <2>5. Len(s) >= 4 => s[4] = W[4]
    BY <2>1, SeesFirst
  <2> QED BY <1>1, <2>2, <2>3, <2>4, <2>5
<1>4. all => Len(s) >= 4
  BY <1>1, <1>2 DEF Upcoming
<1>5. Takes(m, s, 4, "comment", "none")
  BY <1>2, <1>3, <1>4, LexComment
<1>6. Place(item, 4, p, "comment", n)
  <2>1. 4 \in 4..4 + t
    BY <1>1
  <2> QED BY <2>1 DEF Begins, CommentPlace, Place
<1>7. 0 + 4 < Len(W) /\ 0 + 4 = 4
  BY <1>1
<1> QED BY <1>5, <1>6, <1>7, Eaten DEF Begins

LEMMA GoesMeta ==
  ASSUME NEW item, OrdinaryItem(item), item.kind = "meta", NEW W, W = Written(item),
         NEW s, NEW all, Upcoming(W, 0, s, all),
         NEW p, Growing(p), NEW l, NEW n \in Nat, Begins(p, l, n),
         NEW m, m = LongestMatch(l, s), m.open => all, NEW r
  PROVE  Goes(item, W, 0, s, p, n, m, r)
<1> DEFINE t == Len(item.text)
<1>1. /\ t \in Nat /\ Len(W) = t + 3 /\ W[1] = "<" /\ W[2] = "!" /\ ~(W[3] = "-" /\ W[4] = "-")
      /\ W[2 + t + 1] = ">" /\ \A i \in 1..t : W[2 + i] # ">"
  BY WrittenMeta DEF MetaSpelled
<1>2. s \in Seq(Chars) /\ Len(s) \in Nat /\ Len(s) > 0 /\ l = "initial"
  BY DEF Upcoming, Begins
<1>3. s[1] = "<" /\ (Len(s) >= 2 => s[2] = "!") /\ ~(Len(s) >= 4 /\ s[3] = "-" /\ s[4] = "-")
  <2>1. /\ 1 <= Len(W) /\ 2 <= Len(W) /\ 3 <= Len(W) /\ Len(s) >= 1
        /\ 1 \in Nat \ {0} /\ 2 \in Nat \ {0} /\ 3 \in Nat \ {0} /\ 4 \in Nat \ {0}
    BY <1>1, <1>2
  <2>2. s[1] = "<" /\ (Len(s) >= 2 => s[2] = "!") /\ (Len(s) >= 3 => s[3] = W[3])
    BY <1>1, <2>1, SeesFirst
  <2>3. Len(s) >= 4 => Len(s) >= 3
    BY <1>2
  <2>4. CASE t > 0
    <3>1. 4 <= Len(W)
      BY <1>1, <2>4
    <3>2. Len(s) >= 4 => s[4] = W[4]
      BY <2>1, <3>1, SeesFirst
    <3> QED BY <1>1, <2>2, <2>3, <3>2
  <2>5. CASE t = 0
    <3>1. 2 + t + 1 = 3
      BY <2>5
    <3>2. W[3] = ">"
      BY <1>1, <3>1
    <3> QED BY <2>2, <2>3, <3>2
  <2> QED BY <1>1, <2>4, <2>5
<1>4. all => Len(s) >= 2
  BY <1>1, <1>2 DEF Upcoming
<1>5. Takes(m, s, 2, "meta", "none")
  BY <1>2, <1>3, <1>4, LexMeta
<1>6. Place(item, 2, p, "meta", n)
  <2>1. 2 \in 2..2 + t
    BY <1>1
  <2> QED BY <2>1 DEF Begins, MetaPlace, Place
<1>7. 0 + 2 < Len(W) /\ 0 + 2 = 2
  BY <1>1
<1> QED BY <1>5, <1>6, <1>7, Eaten DEF Begins

LEMMA GoesClose ==
  ASSUME NEW item, item.kind = "close", NEW W, W = Written(item),
         NEW s, NEW all, Upcoming(W, 0, s, all),
         NEW p, Growing(p), NEW l, NEW n \in Nat, Begins(p, l, n),
         NEW m, m = LongestMatch(l, s), m.open => all,
         NEW r, r = Push(p, m.token, m.text)
  PROVE  Goes(item, W, 0, s, p, n, m, r)
<1>1. Len(W) = 4 /\ W[1] = "<" /\ W[2] = "/"
  BY WrittenClose DEF CloseSpelled
<1>2. s \in Seq(Chars) /\ Len(s) \in Nat /\ Len(s) > 0 /\ l = "initial"
  BY DEF Upcoming, Begins
<1>3. s[1] = "<" /\ (Len(s) >= 2 => s[2] = "/")
  <2>1. 1 <= Len(W) /\ 2 <= Len(W) /\ Len(s) >= 1 /\ 1 \in Nat \ {0} /\ 2 \in Nat \ {0}
    BY <1>1, <1>2
  <2> QED BY <1>1, <2>1, SeesFirst
<1>4. all => Len(s) >= 2
  BY <1>1, <1>2 DEF Upcoming
<1>5. Takes(m, s, 2, "tag_name", "TAG_START_FLAG2")
  BY <1>2, <1>3, <1>4, LexClose
<1>6. r = Push(p, "TAG_START_FLAG2", m.text) /\ p.at = "doc"
  BY <1>5 DEF Takes, Begins
<1>7. CASE Len(p.frames) > 1
  <2>1. Moves(p, r, "end_name", 0, p.prots)
    BY <1>6, <1>7, PushCloseStart
  <2>2. r.out = "more" /\ Same(p, r.parser) /\ r.parser.at = "end_name" /\ r.parser.prots = p.prots
        /\ Raised(p, r.parser, 0)
    BY <2>1 DEF Moves, Stepped
  <2>3. Spent(r.parser, n)
    <3>1. Spent(p, n) /\ n + 0 = n
      BY DEF Begins
    <3>2. Spent(r.parser, n + 0)
      BY <2>2, <3>1 DEF Raised
    <3> QED BY <3>1, <3>2
  <2>4. Place(item, 2, r.parser, "tag_name", n)
    BY <2>2, <2>3 DEF ClosePlace, Place
  <2>5. r.parser.dom => r.parser.prots = <<>>
    BY <2>2 DEF Begins, Same
  <2>6. 0 + 2 = 2 /\ 2 < Len(W)
    BY <1>1
  <2>7. After(item, W, 0 + 2, p, r.parser, "tag_name", n)
    BY <2>2, <2>4, <2>5, <2>6 DEF After, Here
  <2> QED BY <1>5, <2>2, <2>7, Pushed
<1>8. CASE ~(Len(p.frames) > 1)
  <2>1. r.out = "refused"
    BY <1>6, <1>8, PushSurplus
  <2>2. Fails(item, p)
    BY <1>8 DEF Fails
  <2> QED BY <1>5, <2>1, <2>2, Pushed
<1> QED BY <1>7, <1>8

LEMMA GoesOpen ==
  ASSUME NEW item, OrdinaryItem(item), item.kind = "open", NEW W, W = Written(item),
         NEW s, NEW all, Upcoming(W, 0, s, all), Len(W) > 2,
         NEW p, Growing(p), NEW l, NEW n \in Nat, Begins(p, l, n),
         NEW m, m = LongestMatch(l, s), m.open => all,
         NEW r, r = Push(p, m.token, m.text)
  PROVE  Goes(item, W, 0, s, p, n, m, r)
<1>1. Len(W) \in Nat /\ W[1] = "<" /\ W[2] = "w"
  BY WrittenOpen DEF OpenSpelled, Upcoming
<1>2. s \in Seq(Chars) /\ Len(s) \in Nat /\ Len(s) > 0 /\ l = "initial"
  BY DEF Upcoming, Begins
<1>3. s[1] = "<" /\ (Len(s) >= 2 => s[2] = "w")
  <2>1. 1 <= Len(W) /\ 2 <= Len(W) /\ Len(s) >= 1 /\ 1 \in Nat \ {0} /\ 2 \in Nat \ {0}
    BY <1>1, <1>2
  <2> QED BY <1>1, <2>1, SeesFirst
<1>5. Takes(m, s, 1, "tag_name", "TAG_START_FLAG")
  BY <1>2, <1>3, LexOpen
<1>6. r = Push(p, "TAG_START_FLAG", m.text) /\ p.at = "doc" /\ Typed(p)
  BY <1>5 DEF Takes, Begins, Growing
<1>7. Moves(p, r, "name", 0, p.prots)
  BY <1>6, PushTagStart
<1>8. r.out = "more" /\ Same(p, r.parser) /\ r.parser.at = "name" /\ r.parser.prots = p.prots
      /\ Raised(p, r.parser, 0)
  BY <1>7 DEF Moves, Stepped
<1>9. Spent(r.parser, n)
  <2>1. Spent(p, n) /\ n + 0 = n
    BY DEF Begins
  <2>2. Spent(r.parser, n + 0)
    BY <1>8, <2>1 DEF Raised
  <2> QED BY <2>1, <2>2
<1>10. HasProts(r.parser, item.prots, 0)
  <2>1. SubSeq(MeantProts(item.prots), 1, 0) = <<>>
    OBVIOUS
  <2> QED BY <1>8, <2>1 DEF HasProts, Begins, Same
<1>11. Place(item, 1, r.parser, "tag_name", n)
  BY <1>8, <1>9, <1>10 DEF NamePlace, Place
<1>12. 0 + 1 = 1 /\ 1 < Len(W)
  BY <1>1
<1>13. After(item, W, 0 + 1, p, r.parser, "tag_name", n)
  BY <1>8, <1>11, <1>12 DEF After, Here
<1> QED BY <1>5, <1>8, <1>13, Pushed

LEMMA GoesInComment ==
  ASSUME NEW item, OrdinaryItem(item), item.kind = "comment", NEW W, W = Written(item),
         NEW o, NEW s, NEW all, Upcoming(W, o, s, all),
         NEW p, Growing(p), NEW l, NEW n \in Nat, CommentPlace(item, o, p, l, n),
         p.dom => p.prots = <<>>,
         NEW m, m = LongestMatch(l, s), m.open => all, NEW r
  PROVE  Goes(item, W, o, s, p, n, m, r)
<1> DEFINE t == Len(item.text)
<1>1. /\ t \in Nat /\ Len(W) = t + 7
      /\ W[4 + t + 1] = "-" /\ W[4 + t + 2] = "-" /\ W[4 + t + 3] = ">"
      /\ \A i \in 1..t : ~(W[4 + i] = "-" /\ W[4 + i + 1] = "-" /\ W[4 + i + 2] = ">")
  BY WrittenComment DEF CommentSpelled
<1>2. /\ s \in Seq(Chars) /\ Len(s) \in Nat /\ Len(s) > 0 /\ l = "comment"
      /\ p.at = "doc" /\ Spent(p, n) /\ o \in Nat /\ o >= 4 /\ o <= 4 + t
  <2>1. o \in 4..4 + t
    BY DEF CommentPlace
  <2>2. o \in Nat /\ o >= 4 /\ o <= 4 + t
    BY <1>1, <2>1
  <2> QED BY <2>2 DEF Upcoming, CommentPlace
<1>3. CASE o < 4 + t
  <2> DEFINE i == o - 3
  <2>1. /\ i \in 1..t /\ 4 + i = o + 1 /\ 4 + i + 1 = o + 2 /\ 4 + i + 2 = o + 3
        /\ o + 1 <= Len(W) /\ o + 2 <= Len(W) /\ o + 3 <= Len(W)
    BY <1>1, <1>2, <1>3
  <2> HIDE DEF i, t
  <2>2. ~(W[o + 1] = "-" /\ W[o + 2] = "-" /\ W[o + 3] = ">")
    BY <1>1, <2>1
  <2>3. ~(s[1] = "-" /\ s[2] = "-" /\ s[3] = ">") \/ Len(s) < 3
    <3>1. 1 \in Nat \ {0} /\ 2 \in Nat \ {0} /\ 3 \in Nat \ {0}
      OBVIOUS
    <3>2. ~(Len(s) < 3) => Len(s) >= 1 /\ Len(s) >= 2 /\ Len(s) >= 3
      BY <1>2
    <3>3. ~(Len(s) < 3) => s[1] = W[o + 1] /\ s[2] = W[o + 2] /\ s[3] = W[o + 3]
      BY <2>1, <3>1, <3>2, Sees
    <3> QED BY <2>2, <3>3
  <2>4. Takes(m, s, 1, "comment", "none")
    BY <1>2, <2>3, LexInComment
  <2>5. o + 1 \in 4..4 + t /\ o + 1 < Len(W)
    BY <1>1, <1>2, <1>3
  <2>6. Place(item, o + 1, p, "comment", n)
    BY <1>2, <2>5 DEF CommentPlace, Place, t
  <2> QED BY <2>4, <2>5, <2>6, Eaten
<1>4. CASE o = 4 + t
  <2>1. /\ o + 1 = 4 + t + 1 /\ o + 2 = 4 + t + 2 /\ o + 3 = 4 + t + 3 /\ o + 3 = Len(W)
        /\ o + 1 <= Len(W) /\ o + 2 <= Len(W) /\ o + 3 <= Len(W)
    BY <1>1, <1>4
  <2> HIDE DEF t
  <2>2. s[1] = "-" /\ (Len(s) >= 2 => s[2] = "-") /\ (Len(s) >= 3 => s[3] = ">")
    <3>1. 1 \in Nat \ {0} /\ 2 \in Nat \ {0} /\ 3 \in Nat \ {0} /\ Len(s) >= 1
      BY <1>2
    <3> QED BY <1>1, <2>1, <3>1, Sees
  <2>3. all => Len(s) >= 3
    <3>1. all => Len(s) >= Len(W) - o
      BY DEF Upcoming
    <3>2. Len(W) - o = 3
      BY <1>2, <2>1
    <3> QED BY <3>1, <3>2
  <2>4. Takes(m, s, 3, "initial", "none")
    BY <1>2, <2>2, <2>3, LexCommentEnd
  <2>5. Grown(item, p, p)
    BY SameItself DEF Grown
  <2>6. Begins(p, "initial", n + Cost(item))
    <3>1. Cost(item) = 0 /\ n + 0 = n
      BY Costs1
    <3> QED BY <1>2, <3>1 DEF Begins
  <2> QED BY <2>1, <2>4, <2>5, <2>6, Eaten
<1> QED BY <1>1, <1>2, <1>3, <1>4

LEMMA GoesInMeta ==
  ASSUME NEW item, OrdinaryItem(item), item.kind = "meta", NEW W, W = Written(item),
         NEW o, NEW s, NEW all, Upcoming(W, o, s, all),
         NEW p, Growing(p), NEW l, NEW n \in Nat, MetaPlace(item, o, p, l, n),
         p.dom => p.prots = <<>>,
         NEW m, m = LongestMatch(l, s), m.open => all, NEW r
  PROVE  Goes(item, W, o, s, p, n, m, r)
<1> DEFINE t == Len(item.text)
<1>1. /\ t \in Nat /\ Len(W) = t + 3
      /\ W[2 + t + 1] = ">" /\ \A i \in 1..t : W[2 + i] # ">"
  BY WrittenMeta DEF MetaSpelled
<1>2. /\ s \in Seq(Chars) /\ Len(s) \in Nat /\ Len(s) > 0 /\ l = "meta"
      /\ p.at = "doc" /\ Spent(p, n) /\ o \in Nat /\ o >= 2 /\ o <= 2 + t
  <2>1. o \in 2..2 + t
    BY DEF MetaPlace
  <2>2. o \in Nat /\ o >= 2 /\ o <= 2 + t
    BY <1>1, <2>1
  <2> QED BY <2>2 DEF Upcoming, MetaPlace
<1>3. s[1] = W[o + 1]
  <2>1. 1 \in Nat \ {0} /\ Len(s) >= 1 /\ o + 1 <= Len(W)
    BY <1>1, <1>2
  <2> QED BY <2>1, Sees
<1>4. Takes(m, s, 1, IF s[1] = ">" THEN "initial" ELSE "meta", "none")
  BY <1>2, LexInMeta
<1>5. CASE o < 2 + t
  <2> DEFINE i == o - 1
  <2>1. /\ i \in 1..t /\ 2 + i = o + 1
    BY <1>1, <1>2, <1>5
  <2> HIDE DEF i, t
  <2>2. s[1] # ">"
    BY <1>1, <1>3, <2>1
  <2>4. Takes(m, s, 1, "meta", "none")
    BY <1>4, <2>2
  <2>5. o + 1 \in 2..2 + t /\ o + 1 < Len(W)
    BY <1>1, <1>2, <1>5
  <2>6. Place(item, o + 1, p, "meta", n)
    BY <1>2, <2>5 DEF MetaPlace, Place, t
  <2> QED BY <2>4, <2>5, <2>6, Eaten
<1>6. CASE o = 2 + t
  <2>1. o + 1 = 2 + t + 1 /\ o + 1 = Len(W)
    BY <1>1, <1>6
  <2> HIDE DEF t
  <2>2. s[1] = ">"
    BY <1>1, <1>3, <2>1
  <2>4. Takes(m, s, 1, "initial", "none")
    BY <1>4, <2>2
  <2>5. Grown(item, p, p)
    BY SameItself DEF Grown
  <2>6. Begins(p, "initial", n + Cost(item))
    <3>1. Cost(item) = 0 /\ n + 0 = n
      BY Costs1
    <3> QED BY <1>2, <3>1 DEF Begins
  <2> QED BY <2>1, <2>4, <2>5, <2>6, Eaten
<1> QED BY <1>1, <1>2, <1>5, <1>6

\* What a token that moves the parser leaves as it is.
LEMMA MovesOn ==
  ASSUME NEW p, NEW r, NEW at, NEW k \in Nat, NEW x, Moves(p, r, at, k, x),
         NEW n \in Nat, Spent(p, n)
  PROVE  /\ r.out = "more" /\ Same(p, r.parser) /\ r.parser.at = at /\ r.parser.prots = x
         /\ Spent(r.parser, n + k) /\ r.parser.dom = p.dom
BY DEF Moves, Stepped, Raised

LEMMA GoesCloseName ==
  ASSUME NEW item, item.kind = "close", NEW W, W = Written(item),
         NEW o, NEW s, NEW all, Upcoming(W, o, s, all),
         NEW p, Growing(p), NEW l, NEW n \in Nat, ClosePlace(item, o, p, l, n),
         p.dom => p.prots = <<>>,
         NEW m, m = LongestMatch(l, s), NEW r, r = Push(p, m.token, m.text)
  PROVE  Goes(item, W, o, s, p, n, m, r)
<1>1. Len(W) = 4 /\ W[3] = "w" /\ W[4] = ">"
  BY WrittenClose DEF CloseSpelled
<1>2. /\ s \in Seq(Chars) /\ Len(s) \in Nat /\ Len(s) > 0 /\ l = "tag_name"
      /\ p.at = "end_name" /\ Spent(p, n) /\ o = 2
  BY DEF Upcoming, ClosePlace
<1>3. s[1] = "w" /\ (Len(s) > 1 => s[2] # "w")
  <2>1. /\ 1 \in Nat \ {0} /\ 2 \in Nat \ {0} /\ Len(s) >= 1 /\ o + 1 = 3 /\ o + 2 = 4
        /\ o + 1 <= Len(W) /\ o + 2 <= Len(W) /\ (Len(s) > 1 => Len(s) >= 2)
    BY <1>1, <1>2
  <2>2. s[1] = W[3] /\ (Len(s) > 1 => s[2] = W[4])
    BY <2>1, Sees
  <2> QED BY <1>1, <2>2
<1>4. Takes(m, s, 1, "prot_name", "TAG_NAME")
  BY <1>2, <1>3, LexTagName
<1>5. r = Push(p, "TAG_NAME", m.text) /\ Typed(p)
  BY <1>4 DEF Takes, Growing
<1>6. Moves(p, r, "end", 1, p.prots)
  BY <1>2, <1>5, PushEndName
<1>7. /\ r.out = "more" /\ Same(p, r.parser) /\ r.parser.at = "end" /\ r.parser.prots = p.prots
      /\ Spent(r.parser, n + 1) /\ r.parser.dom = p.dom
  <2>1. 1 \in Nat
    OBVIOUS
  <2> QED BY <1>2, <1>6, <2>1, MovesOn
<1>8. o + 1 = 3 /\ o + 1 < Len(W)
  BY <1>1, <1>2
<1>9. Place(item, o + 1, r.parser, "prot_name", n)
  BY <1>7, <1>8 DEF EndPlace, Place
<1>10. After(item, W, o + 1, p, r.parser, "prot_name", n)
  BY <1>7, <1>8, <1>9 DEF After, Here
<1> QED BY <1>4, <1>7, <1>10, Pushed

LEMMA GoesCloseEnd ==
  ASSUME NEW item, item.kind = "close", NEW W, W = Written(item),
         NEW o, NEW s, NEW all, Upcoming(W, o, s, all),
         NEW p, Growing(p), NEW l, NEW n \in Nat, EndPlace(item, o, p, l, n),
         p.dom => p.prots = <<>>,
         NEW m, m = LongestMatch(l, s), NEW r, r = Push(p, m.token, m.text)
  PROVE  Goes(item, W, o, s, p, n, m, r)
<1>1. Len(W) = 4 /\ W[4] = ">"
  BY WrittenClose DEF CloseSpelled
<1>2. /\ s \in Seq(Chars) /\ Len(s) \in Nat /\ Len(s) > 0 /\ l = "prot_name"
      /\ p.at = "end" /\ Spent(p, n + 1) /\ o = 3
  BY DEF Upcoming, EndPlace
<1>3. s[1] = ">"
  <2>1. 1 \in Nat \ {0} /\ Len(s) >= 1 /\ o + 1 = 4 /\ o + 1 <= Len(W)
    BY <1>1, <1>2
  <2>2. s[1] = W[o + 1]
    BY <2>1, Sees
  <2> QED BY <1>1, <2>1, <2>2
<1>4. Takes(m, s, 1, "initial", "TAG_END_FLAG")
  BY <1>2, <1>3, LexTagEnd
<1>5. r = Push(p, "TAG_END_FLAG", m.text) /\ "TAG_END_FLAG" \in TagEndFlags
  BY <1>4 DEF Takes, TagEndFlags
<1>6. /\ r.out = "more" /\ CloseGrown(p, r.parser) /\ Raised(p, r.parser, 4)
      /\ r.parser.at = "doc" /\ r.parser.prots = p.prots
  BY <1>2, <1>5, PushClose
<1>7. Begins(r.parser, "initial", n + Cost(item))
  <2>1. n + Cost(item) = (n + 1) + 4 /\ n + 1 \in Nat
    <3>1. Cost(item) = 5
      BY Costs1
    <3> QED BY <3>1
  <2>2. Spent(r.parser, (n + 1) + 4) /\ r.parser.dom = p.dom
    BY <1>2, <1>6, <2>1 DEF Raised
  <2> QED BY <1>6, <2>1, <2>2 DEF Begins
<1>8. Len(p.frames) > 1
  BY <1>2 DEF Growing
<1>9. Grown(item, p, r.parser)
  BY <1>6, <1>8 DEF Grown
<1>10. o + 1 = Len(W)
  BY <1>1, <1>2
<1>11. After(item, W, o + 1, p, r.parser, "initial", n)
  BY <1>7, <1>9, <1>10 DEF After
<1> QED BY <1>4, <1>6, <1>11, Pushed

-----------------------------------------------------------------------------
(* A tag and its properties.                                               *)

LEMMA ProtCosts1 ==
  ASSUME NEW prots, prots \in Seq(ToSet(prots))
  PROVE  /\ ProtCost(prots, 0) = 0
         /\ \A k \in 0..Len(prots) : ProtCost(prots, k) \in Nat
         /\ \A k \in 1..Len(prots) :
              ProtCost(prots, k) = ProtCost(prots, k - 1) + IF prots[k].form = "bare" THEN 4 ELSE 5
<1> DEFINE S == ProtCosts(prots)
           m == Len(prots)
<1>1. m \in Nat /\ DOMAIN prots = 1..m
  BY LenProperties
<1>2. S \in [1..m -> Nat] /\ \A k \in 1..m : S[k] = IF prots[k].form = "bare" THEN 4 ELSE 5
  BY <1>1 DEF ProtCosts
<1> HIDE DEF S, m
<1>3. S \in Seq(Nat) /\ Len(S) = m
  BY <1>1, <1>2, FunctionSeq
<1>4. SumsOf(Sums(S), S)
  BY <1>3, SumsAre
<1>5. /\ Sums(S) \in [0..m -> Nat] /\ Sums(S)[0] = 0
      /\ \A k \in 1..m : Sums(S)[k] = Sums(S)[k - 1] + S[k]
  BY <1>3, <1>4 DEF SumsOf
<1>6. \A k : ProtCost(prots, k) = Sums(S)[k]
  BY DEF ProtCost, S
<1>7. \A k \in 0..m : Sums(S)[k] \in Nat
  BY <1>5
<1>8. \A k \in 1..m : ProtCost(prots, k) = ProtCost(prots, k - 1) + IF prots[k].form = "bare" THEN 4 ELSE 5
  BY <1>2, <1>5, <1>6
<1>9. ProtCost(prots, 0) = 0 /\ \A k \in 0..m : ProtCost(prots, k) \in Nat
  BY <1>5, <1>6, <1>7
<1> QED BY <1>8, <1>9 DEF m

LEMMA TagShapeIs ==
  ASSUME NEW item, OrdinaryItem(item), item.kind = "open", NEW W, W = Written(item)
  PROVE  TagShape(item, W)
<1> DEFINE m == Len(item.prots)
           E == Ends(WrittenProts(item.prots))
<1>1. OpenSpelled(item, W, E)
  BY WrittenOpen
<1>2. /\ m \in Nat /\ item.prots \in Seq(ToSet(item.prots)) /\ item.void \in BOOLEAN
      /\ E \in [0..m -> Nat] /\ E[0] = 0 /\ \A k \in 1..m : E[k] <= E[m]
  BY <1>1 DEF OpenSpelled
<1>3. \A k : ProtEnd(item.prots, k) = E[k]
  BY DEF ProtEnd
<1>4. Cost(item) = 7 + ProtCost(item.prots, m)
  BY DEF Cost, ProtCost
<1> HIDE DEF E
<1>5. \A k \in 0..m : E[k] \in Nat /\ E[k] <= E[m]
  BY <1>2
<1> QED BY <1>2, <1>3, <1>4, <1>5, ProtCosts1 DEF TagShape

LEMMA PropIs ==
  ASSUME NEW item, OrdinaryItem(item), item.kind = "open", NEW W, W = Written(item),
         NEW k \in 1..Len(item.prots), NEW e \in Nat, e = ProtEnd(item.prots, k - 1),
         NEW v, v = item.prots[k].value
  PROVE  PropSpelled(item, W, k, e, v)
<1> DEFINE m == Len(item.prots)
           E == Ends(WrittenProts(item.prots))
           P == <<"s", "w">> \o WrittenValue(item.prots[k])
<1>1. OpenSpelled(item, W, E)
  BY WrittenOpen
<1>2. /\ m \in Nat /\ item.prots \in Seq(ToSet(item.prots)) /\ item.void \in BOOLEAN
      /\ E \in [0..m -> Nat]
      /\ OrdinaryValue(item.prots[k], k = m /\ ~item.void)
      /\ ProtSpelled(item.prots[k], P)
      /\ E[k] = E[k - 1] + Len(P)
      /\ \A j \in 1..Len(P) : W[2 + E[k - 1] + j] = P[j]
  BY <1>1 DEF OpenSpelled
<1>3. e = E[k - 1] /\ ProtEnd(item.prots, k) = E[k]
  BY DEF ProtEnd
<1>4. ProtCost(item.prots, k) =
        ProtCost(item.prots, k - 1) + IF item.prots[k].form = "bare" THEN 4 ELSE 5
  BY <1>2, ProtCosts1
<1> HIDE DEF E, P
<1>5. E[k - 1] \in Nat /\ e \in Nat
  BY <1>2
<1>6. /\ P[1] = "s" /\ P[2] = "w" /\ Len(P) \in Nat /\ Len(P) >= 2
      /\ item.prots[k].form \in {"bare", "quoted", "plain"}
  <2>1. Len(P) \in Nat
    BY <1>2, LenProperties DEF ProtSpelled
  <2>2. item.prots[k].form \in {"bare", "quoted", "plain"}
    BY <1>2, Zenon DEF OrdinaryValue
  <2>3. Len(P) >= 2
    <3> DEFINE n == Len(P)
               l == Len(item.prots[k].value)
    <3>1. n = 2 \/ (l \in Nat /\ (n = 5 + l \/ n = 3 + l))
      BY <1>2, <2>2 DEF ProtSpelled
    <3> HIDE DEF n, l
    <3>2. n >= 2
      BY <3>1
    <3> QED BY <3>2 DEF n
  <2> QED BY <1>2, <2>1, <2>2, <2>3 DEF ProtSpelled
<1>7. \A j \in 1..Len(P) : W[e + 2 + j] = P[j]
  <2>1. \A j \in 1..Len(P) : W[2 + e + j] = P[j]
    BY <1>2, <1>3, Zenon
  <2>2. \A j \in 1..Len(P) : 2 + e + j = e + 2 + j
    OBVIOUS
  <2> QED BY <2>1, <2>2
<1>8. W[e + 3] = "s" /\ W[e + 4] = "w"
  <2>1. e + 2 + 1 = e + 3 /\ e + 2 + 2 = e + 4 /\ 1 \in 1..Len(P) /\ 2 \in 1..Len(P)
    BY <1>3, <1>5, <1>6
  <2> QED BY <1>6, <1>7, <2>1
<1>12. E[k] = E[k - 1] + Len(P)
  BY <1>2
<1>9. CASE item.prots[k].form = "bare"
  <2>1. Len(P) = 2
    BY <1>2, <1>9 DEF ProtSpelled
  <2> QED BY <1>2, <1>3, <1>4, <1>5, <1>8, <1>9, <2>1 DEF PropSpelled
<1>10. CASE item.prots[k].form = "quoted"
  <2>1. /\ v \in Seq(Chars \ {"q"}) /\ Len(v) \in Nat /\ Len(P) = 5 + Len(v)
        /\ P[3] = "=" /\ P[4] = "q" /\ P[5 + Len(v)] = "q"
        /\ \A j \in 1..Len(v) : P[4 + j] = v[j]
    BY <1>2, <1>10 DEF ProtSpelled
  <2>9. Len(v) \in Nat /\ Len(P) = 5 + Len(v)
    BY <2>1
  <2> DEFINE n == Len(v)
             L == Len(P)
  <2>2. v \in Seq(Chars) /\ \A j \in 1..Len(v) : v[j] # "q"
    <3>1. \A j \in 1..Len(v) : v[j] \in Chars \ {"q"}
      BY <2>1, ElementOfSeq
    <3>2. v \in Seq(Chars)
      BY <2>1
    <3> QED BY <3>1, <3>2
  <2>3. W[e + 5] = "=" /\ W[e + 6] = "q" /\ W[e + 7 + Len(v)] = "q"
    <3>2. n \in Nat /\ L = 5 + n
      BY <2>9
    <3>3. /\ e + 2 + 3 = e + 5 /\ e + 2 + 4 = e + 6 /\ e + 2 + (5 + n) = e + 7 + n
          /\ 3 \in 1..L /\ 4 \in 1..L /\ 5 + n \in 1..L
      <4> HIDE DEF n, L
      <4>1. e + 2 + 3 = e + 5 /\ e + 2 + 4 = e + 6
        BY <1>5
      <4>2. e + 2 + (5 + n) = e + 7 + n
        BY <1>5, <3>2
      <4>3. 3 \in 1..L /\ 4 \in 1..L /\ 5 + n \in 1..L
        BY <3>2
      <4> QED BY <4>1, <4>2, <4>3
    <3>1. /\ e + 2 + 3 = e + 5 /\ e + 2 + 4 = e + 6 /\ e + 2 + (5 + Len(v)) = e + 7 + Len(v)
          /\ 3 \in 1..Len(P) /\ 4 \in 1..Len(P) /\ 5 + Len(v) \in 1..Len(P)
      BY <3>3
    <3> QED BY <1>7, <2>1, <3>1
  <2>4. \A j \in 1..Len(v) : W[e + 6 + j] = v[j]
    <3> SUFFICES ASSUME NEW j \in 1..Len(v) PROVE W[e + 6 + j] = v[j]
      OBVIOUS
    <3>2. j \in 1..n /\ n \in Nat /\ L = 5 + n
      BY <2>9
    <3>3. e + 2 + (4 + j) = e + 6 + j /\ 4 + j \in 1..L
      <4> HIDE DEF n, L
      <4> QED BY <1>5, <3>2
    <3>1. e + 2 + (4 + j) = e + 6 + j /\ 4 + j \in 1..Len(P)
      BY <3>3
    <3> QED BY <1>7, <2>1, <3>1
  <2>5. ProtEnd(item.prots, k) = e + 5 + Len(v)
    <3>1. n \in Nat /\ L = 5 + n /\ E[k] = E[k - 1] + L /\ E[k - 1] = e
      BY <1>3, <1>12, <2>9
    <3>2. E[k] = e + 5 + n
      <4> HIDE DEF n, L
      <4> QED BY <1>5, <3>1
    <3> QED BY <1>3, <3>2
  <2>6. "quoted" # "bare" /\ "quoted" # "plain"
    OBVIOUS
  <2> HIDE DEF m
  <2> QED BY <1>3, <1>4, <1>5, <1>6, <1>8, <1>10, <2>1, <2>2, <2>3, <2>4, <2>5, <2>6, Zenon DEF PropSpelled
<1>11. CASE item.prots[k].form = "plain"
  <2>1. /\ v \in Seq(Chars \ {"s", "<", ">"}) /\ Len(v) \in Nat /\ Len(P) = 3 + Len(v)
        /\ P[3] = "="
        /\ \A j \in 1..Len(v) : P[3 + j] = v[j]
        /\ IF v = <<>> THEN k = m /\ ~item.void ELSE v[1] # "q"
    BY <1>2, <1>11 DEF ProtSpelled, OrdinaryValue
  <2>9. Len(v) \in Nat /\ Len(P) = 3 + Len(v)
    BY <2>1
  <2> DEFINE n == Len(v)
             L == Len(P)
  <2>2. v \in Seq(Chars) /\ \A j \in 1..Len(v) : v[j] \notin {"s", "<", ">"} /\ v[j] \in Chars
    <3>1. \A j \in 1..Len(v) : v[j] \in Chars \ {"s", "<", ">"}
      BY <2>1, ElementOfSeq
    <3>2. v \in Seq(Chars)
      BY <2>1
    <3> QED BY <3>1, <3>2
  <2>3. W[e + 5] = "="
    <3>1. n \in Nat /\ L = 3 + n
      BY <2>9
    <3>2. e + 2 + 3 = e + 5 /\ 3 \in 1..L
      <4> HIDE DEF n, L
      <4> QED BY <1>5, <3>1
    <3> QED BY <1>7, <2>1, <3>2
  <2>4. \A j \in 1..Len(v) : W[e + 5 + j] = v[j]
    <3> SUFFICES ASSUME NEW j \in 1..Len(v) PROVE W[e + 5 + j] = v[j]
      OBVIOUS
    <3>2. j \in 1..n /\ n \in Nat /\ L = 3 + n
      BY <2>9
    <3>3. e + 2 + (3 + j) = e + 5 + j /\ 3 + j \in 1..L
      <4> HIDE DEF n, L
      <4> QED BY <1>5, <3>2
    <3>1. e + 2 + (3 + j) = e + 5 + j /\ 3 + j \in 1..Len(P)
      BY <3>3
    <3> QED BY <1>7, <2>1, <3>1
  <2>5. ProtEnd(item.prots, k) = e + 3 + Len(v)
    <3>1. n \in Nat /\ L = 3 + n /\ E[k] = E[k - 1] + L /\ E[k - 1] = e
      BY <1>3, <1>12, <2>9
    <3>2. E[k] = e + 3 + n
      <4> HIDE DEF n, L
      <4> QED BY <1>5, <3>1
    <3> QED BY <1>3, <3>2
  <2>6. v # <<>> => Len(v) > 0
    BY <2>1, EmptySeq
  <2>7. "plain" # "bare" /\ "quoted" # "plain"
    OBVIOUS
  <2>8. IF v = <<>> THEN k = m /\ ~item.void ELSE Len(v) > 0 /\ v[1] # "q"
    BY <2>1, <2>6
  <2> QED BY <1>3, <1>4, <1>5, <1>6, <1>8, <1>11, <2>1, <2>2, <2>3, <2>4, <2>5, <2>7, <2>8, Zenon DEF PropSpelled
<1> QED BY <1>6, <1>9, <1>10, <1>11

LEMMA BehindIs ==
  ASSUME NEW item, OrdinaryItem(item), item.kind = "open", NEW W, W = Written(item),
         NEW k \in 0..Len(item.prots), NEW o, o = 2 + ProtEnd(item.prots, k)
  PROVE  Behind(item, W, k, o)
<1> DEFINE m == Len(item.prots)
           e == ProtEnd(item.prots, k)
           E == Ends(WrittenProts(item.prots))
<1>1. TagShape(item, W)
  BY TagShapeIs
<1>2. m \in Nat /\ e \in Nat /\ o \in Nat /\ k \in Nat /\ item.void \in BOOLEAN
  BY <1>1 DEF TagShape
<1>3. /\ ~item.void => Len(W) = ProtEnd(item.prots, m) + 3 /\ W[2 + ProtEnd(item.prots, m) + 1] = ">"
      /\ item.void => /\ Len(W) = ProtEnd(item.prots, m) + 5
                      /\ W[2 + ProtEnd(item.prots, m) + 1] = "s" /\ W[2 + ProtEnd(item.prots, m) + 2] = "/"
                      /\ W[2 + ProtEnd(item.prots, m) + 3] = ">"
  <2>1. OpenSpelled(item, W, E)
    BY WrittenOpen
  <2>2. ProtEnd(item.prots, m) = E[m]
    BY DEF ProtEnd
  <2> QED BY <2>1, <2>2 DEF OpenSpelled
<1> HIDE DEF e, E
<1>4. CASE k < m
  <2>1. k + 1 \in 1..m /\ (k + 1) - 1 = k /\ k # m
    BY <1>2, <1>4
  <2>2. PropSpelled(item, W, k + 1, e, item.prots[k + 1].value)
    BY <1>2, <2>1, PropIs DEF e
  <2>3. W[e + 3] = "s" /\ W[e + 4] = "w" /\ o + 1 = e + 3 /\ o + 2 = e + 4
    BY <1>2, <2>2 DEF PropSpelled, e
  <2>4. ProtEnd(item.prots, k + 1) >= e + 2
    <3>1. /\ item.prots[k + 1].form = "bare" => ProtEnd(item.prots, k + 1) = e + 2
          /\ item.prots[k + 1].form = "quoted" => ProtEnd(item.prots, k + 1) = e + 5 + Len(item.prots[k + 1].value)
          /\ item.prots[k + 1].form = "plain" => ProtEnd(item.prots, k + 1) = e + 3 + Len(item.prots[k + 1].value)
          /\ item.prots[k + 1].form # "bare" => Len(item.prots[k + 1].value) \in Nat
          /\ item.prots[k + 1].form \in {"bare", "quoted", "plain"}
      BY <2>2, Zenon DEF PropSpelled
    <3>2. ProtEnd(item.prots, k + 1) >= e + 2
      <4> DEFINE f == ProtEnd(item.prots, k + 1)
                 n == Len(item.prots[k + 1].value)
      <4>1. f = e + 2 \/ (n \in Nat /\ (f = e + 5 + n \/ f = e + 3 + n))
        BY <3>1
      <4> HIDE DEF f, n
      <4>2. f >= e + 2
        BY <1>2, <4>1
      <4> QED BY <4>2 DEF f
    <3> QED BY <3>2
  <2>5. o + 2 < Len(W)
    <3>1. /\ ProtEnd(item.prots, k + 1) <= ProtEnd(item.prots, m)
          /\ ProtEnd(item.prots, k + 1) \in Nat /\ ProtEnd(item.prots, m) \in Nat
      BY <1>1, <2>1 DEF TagShape
    <3> QED BY <1>2, <1>3, <2>4, <3>1 DEF e
  <2> QED BY <1>2, <1>4, <2>1, <2>3, <2>5, Zenon DEF Behind
<1>5. CASE k = m
  <2>1. ~(k < m)
    BY <1>2, <1>5
  <2>2. ~item.void => W[o + 1] = ">" /\ o + 1 = Len(W)
    BY <1>2, <1>3, <1>5 DEF e
  <2>3. item.void => W[o + 1] = "s" /\ W[o + 2] = "/" /\ W[o + 3] = ">" /\ o + 3 = Len(W)
    BY <1>2, <1>3, <1>5 DEF e
  <2> QED BY <1>2, <1>5, <2>1, <2>2, <2>3, Zenon DEF Behind
<1> QED BY <1>2, <1>4, <1>5

\* The list of properties grows by the one that has ended.
LEMMA ProtsGrow ==
  ASSUME NEW prots, prots \in Seq(ToSet(prots)), NEW k \in 1..Len(prots),
         NEW p, Typed(p), HasProts(p, prots, k - 1),
         NEW q, q.dom = p.dom, q.prots = MoreProts(p, MeantProts(prots)[k])
  PROVE  HasProts(q, prots, k)
<1> DEFINE M == MeantProts(prots)
           m == Len(prots)
           S == {M[i] : i \in 1..m}
<1>1. m \in Nat /\ DOMAIN prots = 1..m
  BY LenProperties
<1>2. M \in [1..m -> S]
  BY <1>1 DEF MeantProts
<1>3. M \in Seq(S) /\ Len(M) = m
  <2> HIDE DEF M, S
  <2> QED BY <1>1, <1>2, FunctionSeq
<1> HIDE DEF M, m, S
<1>4. 1 \in 1..Len(M) /\ k \in 1..Len(M)
  BY <1>1, <1>3 DEF m
<1>5. SubSeq(M, 1, k) = SubSeq(M, 1, k - 1) \o <<M[k]>>
  BY <1>3, <1>4, SubSeqRecursiveSecond
<1>6. SubSeq(M, 1, k - 1) \in Seq(S)
  <2>1. \A i \in 1..k - 1 : M[i] \in S
    BY <1>3, <1>4
  <2> QED BY <1>4, <2>1, SubSeqProperties
<1>7. M[k] \in S
  BY <1>3, <1>4
<1>8. SubSeq(M, 1, k) = Append(SubSeq(M, 1, k - 1), M[k])
  BY <1>5, <1>6, <1>7, AppendIsConcat
<1> QED BY <1>8 DEF HasProts, MoreProts, M

LEMMA ProtsAll ==
  ASSUME NEW prots, prots \in Seq(ToSet(prots)), NEW p, HasProts(p, prots, Len(prots))
  PROVE  p.dom => p.prots = MeantProts(prots)
<1> DEFINE M == MeantProts(prots)
           m == Len(prots)
           S == {M[i] : i \in 1..m}
<1>1. m \in Nat /\ DOMAIN prots = 1..m
  BY LenProperties
<1>2. M \in [1..m -> S]
  BY <1>1 DEF MeantProts
<1>3. M \in Seq(S) /\ Len(M) = m
  <2> HIDE DEF M, S
  <2> QED BY <1>1, <1>2, FunctionSeq
<1>4. SubSeq(M, 1, m) = M
  <2> HIDE DEF M, m, S
  <2>1. SubSeq(M, 1, Len(M)) = M
    BY <1>3, SubSeqFull
  <2> QED BY <1>3, <2>1
<1> QED BY <1>4 DEF HasProts

-----------------------------------------------------------------------------
(* One match within a tag.                                                 *)

LEMMA NextChars ==
  ASSUME NEW W, NEW o, NEW s, NEW all, Upcoming(W, o, s, all)
  PROVE  /\ o \in Nat /\ s \in Seq(Chars) /\ Len(s) \in Nat /\ Len(s) > 0 /\ Len(W) \in Nat
         /\ o + 1 <= Len(W) /\ s[1] = W[o + 1]
         /\ o + 2 <= Len(W) /\ Len(s) > 1 => s[2] = W[o + 2]
<1>1. /\ o \in Nat /\ s \in Seq(Chars) /\ Len(s) \in Nat /\ Len(s) > 0 /\ Len(W) \in Nat
      /\ o < Len(W)
  BY DEF Upcoming
<1>2. o + 1 <= Len(W) /\ Len(s) >= 1 /\ (Len(s) > 1 => Len(s) >= 2)
      /\ 1 \in Nat \ {0} /\ 2 \in Nat \ {0}
  BY <1>1
<1>3. s[1] = W[o + 1]
  BY <1>2, Sees
<1>4. o + 2 <= Len(W) /\ Len(s) > 1 => s[2] = W[o + 2]
  BY <1>2, Sees
<1> QED BY <1>1, <1>2, <1>3, <1>4

LEMMA Stays ==
  ASSUME NEW item, item.kind = "open", NEW W, NEW o, NEW p, NEW n, NEW m, NEW r, NEW s,
         NEW k, NEW next, Takes(m, s, k, next, "none"),
         o + k < Len(W), Place(item, o + k, p, next, n)
  PROVE  Goes(item, W, o, s, p, n, m, r)
BY Eaten

LEMMA Advances ==
  ASSUME NEW item, item.kind = "open", NEW W, NEW o, NEW p, NEW n, NEW m, NEW r, NEW s,
         NEW k, NEW next, NEW token, Takes(m, s, k, next, token), token # "none",
         o + k < Len(W), r.out = "more", Same(p, r.parser), Place(item, o + k, r.parser, next, n)
  PROVE  Goes(item, W, o, s, p, n, m, r)
<1>1. After(item, W, o + k, p, r.parser, next, n)
  BY DEF After, Here
<1> QED BY <1>1, Pushed

LEMMA AtProts ==
  ASSUME NEW item, NEW k, NEW e, NEW o, NEW p, NEW l, NEW n, ProtsPlace(item, k, e, o, p, l, n)
  PROVE  Place(item, o, p, l, n)
BY DEF Place, ProtsPlace

LEMMA AtProt ==
  ASSUME NEW item, NEW k, NEW o, NEW p, NEW l, NEW n,
         EqualPlace(item, k, o, p, l, n) \/ ValuePlace(item, k, o, p, l, n)
           \/ QuotedPlace(item, k, o, p, l, n)
  PROVE  Place(item, o, p, l, n)
<1>1. item.kind = "open" /\ k \in 1..Len(item.prots)
  BY Zenon DEF EqualPlace, ValuePlace, QuotedPlace, WithinProt
<1> QED BY <1>1, Zenon DEF Place

LEMMA SameProts ==
  ASSUME NEW p, NEW q, q.dom = p.dom, q.prots = p.prots, NEW prots, NEW k, HasProts(p, prots, k)
  PROVE  HasProts(q, prots, k)
BY DEF HasProts

LEMMA GoesName ==
  ASSUME NEW item, OrdinaryItem(item), NEW W, W = Written(item),
         NEW o, NEW s, NEW all, Upcoming(W, o, s, all),
         NEW p, Growing(p), NEW l, NEW n \in Nat, NamePlace(item, o, p, l, n),
         NEW m, m = LongestMatch(l, s), NEW r, r = Push(p, m.token, m.text)
  PROVE  Goes(item, W, o, s, p, n, m, r)
<1>1. /\ item.kind = "open" /\ o = 1 /\ l = "tag_name" /\ p.at = "name" /\ Spent(p, n)
      /\ HasProts(p, item.prots, 0) /\ Typed(p)
  BY DEF NamePlace, Growing
<1>2. W[2] = "w"
  BY <1>1, WrittenOpen DEF OpenSpelled
<1>3. TagShape(item, W)
  BY <1>1, TagShapeIs
<1>4. /\ Len(item.prots) \in Nat /\ ProtEnd(item.prots, 0) = 0 /\ ProtCost(item.prots, 0) = 0
      /\ 0 \in 0..Len(item.prots) /\ item.void \in BOOLEAN
  BY <1>3 DEF TagShape
<1>5. Behind(item, W, 0, 2)
  <2>1. 2 = 2 + ProtEnd(item.prots, 0)
    BY <1>4
  <2> QED BY <1>1, <1>4, <2>1, BehindIs
<1>6. W[3] # "w" /\ Len(W) \in Nat /\ 2 < Len(W)
  <2>1. 2 + 1 = 3 /\ 2 + 2 = 4 /\ 2 + 3 = 5
    OBVIOUS
  <2>2. Len(W) \in Nat
    BY NextChars
  <2>3. W[3] = "s" \/ W[3] = ">"
    BY <1>4, <1>5, <2>1 DEF Behind
  <2>4. 2 < Len(W)
    BY <1>4, <1>5, <2>1, <2>2 DEF Behind
  <2> QED BY <2>2, <2>3, <2>4
<1>7. /\ s \in Seq(Chars) /\ Len(s) \in Nat /\ Len(s) > 0
      /\ s[1] = "w" /\ (Len(s) > 1 => s[2] # "w")
  <2>1. o + 1 = 2 /\ o + 2 = 3 /\ o + 2 <= Len(W)
    BY <1>1, <1>6
  <2> QED BY <1>2, <1>6, <2>1, NextChars
<1>8. Takes(m, s, 1, "prot_name", "TAG_NAME")
  BY <1>1, <1>7, LexTagName
<1>9. r = Push(p, "TAG_NAME", m.text)
  BY <1>8 DEF Takes
<1>10. Moves(p, r, "prots", 3, p.prots)
  BY <1>1, <1>9, PushName
<1>11. /\ r.out = "more" /\ Same(p, r.parser) /\ r.parser.at = "prots" /\ r.parser.prots = p.prots
       /\ Spent(r.parser, n + 3) /\ r.parser.dom = p.dom
  <2>1. 3 \in Nat
    OBVIOUS
  <2> QED BY <1>1, <1>10, <2>1, MovesOn
<1>12. ProtsPlace(item, 0, 0, o + 1, r.parser, "prot_name", n)
  <2>1. o + 1 = 2 + ProtEnd(item.prots, 0) + 0 /\ ~(0 > 0) /\ 0 \in {0, 1} /\ 0 # 1
        /\ n + 3 + ProtCost(item.prots, 0) = n + 3
    BY <1>1, <1>4
  <2>2. HasProts(r.parser, item.prots, 0)
    BY <1>1, <1>11, SameProts
  <2> QED BY <1>1, <1>4, <1>11, <2>1, <2>2 DEF ProtsPlace
<1>13. Place(item, o + 1, r.parser, "prot_name", n)
  BY <1>12, AtProts
<1>14. o + 1 < Len(W)
  BY <1>1, <1>6
<1> QED BY <1>1, <1>8, <1>11, <1>13, <1>14, Advances

\* What an item that a ">" ends has become, with as many reductions as it costs.
LEMMA GoesEnd ==
  ASSUME NEW item, OrdinaryItem(item), item.kind = "open", NEW W, W = Written(item),
         NEW o, NEW p, Growing(p), NEW l, NEW n \in Nat, NEW e,
         ProtsPlace(item, Len(item.prots), e, o, p, l, n),
         NEW m, NEW s, NEW j, NEW type \in TagEndFlags, Takes(m, s, j, "initial", type), o + j = Len(W),
         NEW r, r = Push(p, type, m.text)
  PROVE  Goes(item, W, o, s, p, n, m, r)
<1> DEFINE k == Len(item.prots)
           c == ProtCost(item.prots, k)
<1>1. TagShape(item, W)
  BY TagShapeIs
<1>2. k \in Nat /\ c \in Nat /\ Cost(item) = 7 + c
  <2>1. k \in Nat
    BY <1>1 DEF TagShape
  <2>2. k \in 0..Len(item.prots)
    BY <2>1
  <2> QED BY <1>1, <2>1, <2>2 DEF TagShape
<1>3. item.prots \in Seq(ToSet(item.prots))
  BY DEF OrdinaryItem
<1>4. type # "none"
  BY DEF TagEndFlags
<1>5. ASSUME NEW prots, r.out = "more", OpenGrown(p, r.parser, prots), p.dom => prots = MeantProts(item.prots),
             Spent(r.parser, n + 7 + c), r.parser.at = "doc", r.parser.prots = <<>>
      PROVE  Goes(item, W, o, s, p, n, m, r)
  <2>1. Grown(item, p, r.parser)
    BY <1>5 DEF Grown
  <2>2. n + Cost(item) = n + 7 + c
    <3> HIDE DEF c
    <3> QED BY <1>2
  <2>3. Begins(r.parser, "initial", n + Cost(item))
    BY <1>5, <2>2 DEF Begins
  <2>4. After(item, W, o + j, p, r.parser, "initial", n)
    BY <2>1, <2>3 DEF After
  <2> QED BY <1>4, <1>5, <2>4, Pushed
<1>6. CASE k > 0 /\ item.prots[k].form = "bare"
  <2> DEFINE d == ProtCost(item.prots, k - 1)
  <2>1. p.at = "prot" /\ Spent(p, n + 4 + d) /\ HasProts(p, item.prots, k - 1)
    BY <1>6 DEF ProtsPlace
  <2>2. k \in 1..Len(item.prots) /\ k - 1 \in 0..Len(item.prots)
    BY <1>2, <1>6
  <2>3. d \in Nat /\ c = d + 4
    <3>1. d \in Nat
      BY <1>1, <2>2 DEF TagShape
    <3>2. c = d + IF item.prots[k].form = "bare" THEN 4 ELSE 5
      BY <1>3, <2>2, ProtCosts1
    <3> QED BY <1>6, <3>1, <3>2
  <2>4. /\ r.out = "more" /\ OpenGrown(p, r.parser, MoreProts(p, <<>>)) /\ Raised(p, r.parser, 7)
        /\ r.parser.at = "doc" /\ r.parser.prots = <<>>
    BY <2>1, PushBareEnd
  <2>5. Spent(r.parser, n + 7 + c)
    <3> HIDE DEF c, d
    <3>1. (n + 4 + d) + 7 = n + 7 + c /\ n + 4 + d \in Nat
      BY <2>3
    <3>2. Spent(r.parser, (n + 4 + d) + 7)
      BY <2>1, <2>4, <3>1 DEF Raised
    <3> QED BY <3>1, <3>2
  <2>6. p.dom => MoreProts(p, <<>>) = MeantProts(item.prots)
    <3> DEFINE q == [dom |-> p.dom, prots |-> MoreProts(p, <<>>)]
    <3>1. q.dom = p.dom /\ q.prots = MoreProts(p, <<>>)
      OBVIOUS
    <3>2. MeantProts(item.prots)[k] = <<>>
      <4>1. DOMAIN item.prots = 1..Len(item.prots)
        BY <1>3, LenProperties
      <4> QED BY <1>6, <2>2, <4>1 DEF MeantProts
    <3>3. Typed(p)
      BY DEF Growing
    <3> HIDE DEF q, k
    <3>4. HasProts(q, item.prots, k)
      BY <1>3, <2>1, <2>2, <3>1, <3>2, <3>3, ProtsGrow
    <3>5. q.dom => q.prots = MeantProts(item.prots)
      BY <1>3, <3>4, ProtsAll DEF k
    <3> QED BY <3>1, <3>5
  <2> QED BY <1>5, <2>4, <2>5, <2>6
<1>7. CASE ~(k > 0 /\ item.prots[k].form = "bare")
  <2>1. p.at = "prots" /\ Spent(p, n + 3 + c) /\ HasProts(p, item.prots, k)
    BY <1>7 DEF ProtsPlace
  <2>2. /\ r.out = "more" /\ OpenGrown(p, r.parser, p.prots) /\ Raised(p, r.parser, 4)
        /\ r.parser.at = "doc" /\ r.parser.prots = <<>>
    BY <2>1, PushTagEnd
  <2>3. Spent(r.parser, n + 7 + c)
    <3> HIDE DEF c
    <3>1. (n + 3 + c) + 4 = n + 7 + c /\ n + 3 + c \in Nat
      BY <1>2
    <3>2. Spent(r.parser, (n + 3 + c) + 4)
      BY <2>1, <2>2, <3>1 DEF Raised
    <3> QED BY <3>1, <3>2
  <2>4. p.dom => p.prots = MeantProts(item.prots)
    BY <1>3, <2>1, ProtsAll
  <2> QED BY <1>5, <2>2, <2>3, <2>4
<1> QED BY <1>6, <1>7

LEMMA GoesProts ==
  ASSUME NEW item, OrdinaryItem(item), item.kind = "open", NEW W, W = Written(item),
         NEW o, NEW s, NEW all, Upcoming(W, o, s, all),
         NEW p, Growing(p), NEW l, NEW n \in Nat, NEW k \in 0..Len(item.prots),
         ProtsPlace(item, k, 0, o, p, l, n),
         NEW m, m = LongestMatch(l, s), NEW r, r = Push(p, m.token, m.text)
  PROVE  Goes(item, W, o, s, p, n, m, r)
<1>1. TagShape(item, W)
  BY TagShapeIs
<1>2. Len(item.prots) \in Nat /\ ProtEnd(item.prots, k) \in Nat /\ item.void \in BOOLEAN /\ k \in Nat
  BY <1>1 DEF TagShape
<1>3. o = 2 + ProtEnd(item.prots, k) /\ l = "prot_name" /\ o \in Nat
  <2>1. o = 2 + ProtEnd(item.prots, k) + 0 /\ l = "prot_name"
    BY DEF ProtsPlace
  <2> QED BY <1>2, <2>1
<1>4. Behind(item, W, k, o)
  BY <1>3, BehindIs
<1>5. /\ s \in Seq(Chars) /\ Len(s) \in Nat /\ Len(s) > 0 /\ s[1] = W[o + 1] /\ Len(W) \in Nat
      /\ o + 2 <= Len(W) /\ Len(s) > 1 => s[2] = W[o + 2]
  BY NextChars
<1>6. CASE k < Len(item.prots) \/ item.void
  <2>1. W[o + 1] = "s" /\ W[o + 2] # "s" /\ o + 2 <= Len(W) /\ o + 1 < Len(W)
    <3>1. CASE k < Len(item.prots)
      <4>1. W[o + 1] = "s" /\ W[o + 2] = "w" /\ o + 2 < Len(W)
        BY <1>4, <3>1 DEF Behind
      <4> QED BY <1>3, <1>5, <4>1
    <3>2. CASE ~(k < Len(item.prots))
      <4>1. k = Len(item.prots) /\ item.void
        BY <1>2, <1>6, <3>2
      <4>2. W[o + 1] = "s" /\ W[o + 2] = "/" /\ o + 3 = Len(W)
        BY <1>4, <4>1 DEF Behind
      <4> QED BY <1>3, <1>5, <4>2
    <3> QED BY <3>1, <3>2
  <2>2. Takes(m, s, 1, "prot_name", "none")
    BY <1>3, <1>5, <2>1, LexSpace
  <2>3. ProtsPlace(item, k, 1, o + 1, p, "prot_name", n)
    <3>1. o + 1 = 2 + ProtEnd(item.prots, k) + 1
      BY <1>2, <1>3
    <3> QED BY <1>6, <3>1 DEF ProtsPlace
  <2>4. Place(item, o + 1, p, "prot_name", n)
    BY <2>3, AtProts
  <2> QED BY <2>1, <2>2, <2>4, Stays
<1>7. CASE ~(k < Len(item.prots) \/ item.void)
  <2>1. k = Len(item.prots) /\ ~item.void
    BY <1>2, <1>7
  <2>2. W[o + 1] = ">" /\ o + 1 = Len(W)
    BY <1>4, <2>1 DEF Behind
  <2>3. Takes(m, s, 1, "initial", "TAG_END_FLAG")
    BY <1>3, <1>5, <2>2, LexTagEnd
  <2>4. r = Push(p, "TAG_END_FLAG", m.text) /\ "TAG_END_FLAG" \in TagEndFlags
    BY <2>3 DEF Takes, TagEndFlags
  <2> QED BY <2>1, <2>2, <2>3, <2>4, GoesEnd
<1> QED BY <1>6, <1>7

\* A property begins.
LEMMA ProtBegins ==
  ASSUME NEW item, OrdinaryItem(item), item.kind = "open", NEW W, W = Written(item),
         NEW p, Growing(p), NEW l, NEW n \in Nat, NEW k \in 0..Len(item.prots), k < Len(item.prots),
         NEW o, ProtsPlace(item, k, 1, o, p, l, n),
         NEW text, NEW r, r = Push(p, "PROT", text)
  PROVE  /\ r.out = "more" /\ Same(p, r.parser) /\ r.parser.at = "prot"
         /\ Spent(r.parser, n + 4 + ProtCost(item.prots, k)) /\ HasProts(r.parser, item.prots, k)
<1> DEFINE c == ProtCost(item.prots, k)
<1>1. TagShape(item, W)
  BY TagShapeIs
<1>2. c \in Nat /\ k \in Nat
  BY <1>1 DEF TagShape
<1>3. item.prots \in Seq(ToSet(item.prots)) /\ Typed(p)
  BY DEF OrdinaryItem, Growing
<1>4. CASE k > 0 /\ item.prots[k].form = "bare"
  <2> DEFINE d == ProtCost(item.prots, k - 1)
  <2>1. p.at = "prot" /\ Spent(p, n + 4 + d) /\ HasProts(p, item.prots, k - 1)
    BY <1>4 DEF ProtsPlace
  <2>2. k \in 1..Len(item.prots) /\ k - 1 \in 0..Len(item.prots)
    BY <1>2, <1>4
  <2>3. d \in Nat /\ c = d + 4
    <3>1. d \in Nat
      BY <1>1, <2>2 DEF TagShape
    <3>2. c = d + IF item.prots[k].form = "bare" THEN 4 ELSE 5
      BY <1>3, <2>2, ProtCosts1
    <3> QED BY <1>4, <3>1, <3>2
  <2>4. Moves(p, r, "prot", 4, MoreProts(p, <<>>))
    BY <1>3, <2>1, PushBareProt
  <2>5. n + 4 + d \in Nat /\ 4 \in Nat /\ (n + 4 + d) + 4 = n + 4 + c
    <3> HIDE DEF c, d
    <3> QED BY <2>3
  <2>6. /\ r.out = "more" /\ Same(p, r.parser) /\ r.parser.at = "prot" /\ r.parser.prots = MoreProts(p, <<>>)
        /\ Spent(r.parser, (n + 4 + d) + 4) /\ r.parser.dom = p.dom
    <3> HIDE DEF d
    <3> QED BY <2>1, <2>4, <2>5, MovesOn
  <2>7. MeantProts(item.prots)[k] = <<>>
    <3>1. DOMAIN item.prots = 1..Len(item.prots)
      BY <1>3, LenProperties
    <3> QED BY <1>4, <2>2, <3>1 DEF MeantProts
  <2>8. HasProts(r.parser, item.prots, k)
    <3> HIDE DEF d
    <3> QED BY <1>3, <2>1, <2>2, <2>6, <2>7, ProtsGrow
  <2> QED BY <2>5, <2>6, <2>8
<1>5. CASE ~(k > 0 /\ item.prots[k].form = "bare")
  <2>1. p.at = "prots" /\ Spent(p, n + 3 + c) /\ HasProts(p, item.prots, k)
    BY <1>5 DEF ProtsPlace
  <2>2. Moves(p, r, "prot", 1, p.prots)
    BY <1>3, <2>1, PushProt
  <2>3. n + 3 + c \in Nat /\ 1 \in Nat /\ (n + 3 + c) + 1 = n + 4 + c
    <3> HIDE DEF c
    <3> QED BY <1>2
  <2>4. /\ r.out = "more" /\ Same(p, r.parser) /\ r.parser.at = "prot" /\ r.parser.prots = p.prots
        /\ Spent(r.parser, (n + 3 + c) + 1) /\ r.parser.dom = p.dom
    <3> HIDE DEF c
    <3> QED BY <2>1, <2>2, <2>3, MovesOn
  <2>5. HasProts(r.parser, item.prots, k)
    BY <2>1, <2>4, SameProts
  <2> QED BY <2>3, <2>4, <2>5
<1> QED BY <1>4, <1>5

LEMMA GoesProt ==
  ASSUME NEW item, OrdinaryItem(item), item.kind = "open", NEW W, W = Written(item),
         NEW o, NEW s, NEW all, Upcoming(W, o, s, all),
         NEW p, Growing(p), NEW l, NEW n \in Nat, NEW k \in 0..Len(item.prots),
         ProtsPlace(item, k, 1, o, p, l, n),
         NEW m, m = LongestMatch(l, s), m.open => all, NEW r, r = Push(p, m.token, m.text)
  PROVE  Goes(item, W, o, s, p, n, m, r)
<1> DEFINE b == 2 + ProtEnd(item.prots, k)
           e == ProtEnd(item.prots, k)
<1>1. TagShape(item, W)
  BY TagShapeIs
<1>2. Len(item.prots) \in Nat /\ e \in Nat /\ item.void \in BOOLEAN /\ k \in Nat
  BY <1>1 DEF TagShape
<1>3. o = b + 1 /\ l = "prot_name" /\ b \in Nat /\ (k < Len(item.prots) \/ item.void)
  BY <1>2 DEF ProtsPlace
<1>4. Behind(item, W, k, b)
  BY BehindIs
<1>5. /\ s \in Seq(Chars) /\ Len(s) \in Nat /\ Len(s) > 0 /\ s[1] = W[o + 1] /\ Len(W) \in Nat
      /\ o + 2 <= Len(W) /\ Len(s) > 1 => s[2] = W[o + 2]
  BY NextChars
<1>6. o + 1 = b + 2 /\ o + 2 = b + 3 /\ b = 2 + e
  BY <1>3
<1>7. CASE k < Len(item.prots)
  <2> DEFINE f == k + 1
             v == item.prots[f].value
             c == ProtCost(item.prots, k)
  <2>1. f \in 1..Len(item.prots) /\ f - 1 = k /\ f \in 0..Len(item.prots) /\ f > 0
    BY <1>2, <1>7
  <2>2. PropSpelled(item, W, f, e, v)
    <3> HIDE DEF f
    <3> QED BY <1>2, <2>1, PropIs
  <2>3. W[b + 2] = "w" /\ b + 2 < Len(W)
    BY <1>4, <1>7 DEF Behind
  <2>4. W[b + 3] # "w"
    <3>1. CASE item.prots[f].form = "bare"
      <4>1. ProtEnd(item.prots, f) = e + 2
        BY <2>2, <3>1 DEF PropSpelled
      <4>2. b + 2 = 2 + ProtEnd(item.prots, f) /\ (b + 2) + 1 = b + 3
        BY <1>2, <1>6, <4>1
      <4>3. Behind(item, W, f, b + 2)
        <5> HIDE DEF f, b
        <5> QED BY <2>1, <4>2, BehindIs
      <4>4. f < Len(item.prots) \/ (f = Len(item.prots) /\ item.void) \/ (f = Len(item.prots) /\ ~item.void)
        BY <1>2, <2>1
      <4>5. W[(b + 2) + 1] = "s" \/ W[(b + 2) + 1] = ">"
        <5> HIDE DEF f, b
        <5> QED BY <4>3, <4>4 DEF Behind
      <4> QED BY <4>2, <4>5
    <3>2. CASE item.prots[f].form # "bare"
      <4>1. W[e + 5] = "="
        BY <2>2, <3>2 DEF PropSpelled
      <4>2. b + 3 = e + 5
        BY <1>2
      <4> QED BY <4>1, <4>2
    <3> QED BY <3>1, <3>2
  <2>5. s[1] = "w" /\ (Len(s) > 1 => s[2] # "w")
    <3>1. b + 3 <= Len(W)
      BY <1>3, <1>5, <2>3
    <3> QED BY <1>5, <1>6, <2>3, <2>4, <3>1
  <2>6. Takes(m, s, 1, "prot_name", "PROT")
    BY <1>3, <1>5, <2>5, LexProt
  <2>7. r = Push(p, "PROT", m.text)
    BY <2>6 DEF Takes
  <2>8. /\ r.out = "more" /\ Same(p, r.parser) /\ r.parser.at = "prot"
        /\ Spent(r.parser, n + 4 + c) /\ HasProts(r.parser, item.prots, k)
    BY <1>7, <2>7, ProtBegins
  <2>9. Place(item, o + 1, r.parser, "prot_name", n)
    <3>1. CASE item.prots[f].form = "bare"
      <4>1. ProtEnd(item.prots, f) = e + 2
        BY <2>2, <3>1 DEF PropSpelled
      <4>2. o + 1 = 2 + ProtEnd(item.prots, f) + 0
        BY <1>2, <1>6, <4>1
      <4>3. 0 \in {0, 1} /\ 0 # 1
        OBVIOUS
      <4>4. ProtsPlace(item, f, 0, o + 1, r.parser, "prot_name", n)
        <5> HIDE DEF f, c
        <5>1. Spent(r.parser, n + 4 + ProtCost(item.prots, f - 1)) /\ HasProts(r.parser, item.prots, f - 1)
          BY <2>1, <2>8 DEF c
        <5> QED BY <2>1, <2>8, <3>1, <4>2, <4>3, <5>1, Zenon DEF ProtsPlace
      <4> QED BY <4>4, AtProts
    <3>2. CASE item.prots[f].form # "bare"
      <4>1. o + 1 = 2 + ProtEnd(item.prots, f - 1) + 2
        BY <1>2, <1>6, <2>1
      <4>2. EqualPlace(item, f, o + 1, r.parser, "prot_name", n)
        <5> HIDE DEF f, c
        <5>1. Spent(r.parser, n + 4 + ProtCost(item.prots, f - 1)) /\ HasProts(r.parser, item.prots, f - 1)
          BY <2>1, <2>8 DEF c
        <5> QED BY <2>1, <2>8, <3>2, <4>1, <5>1, Zenon DEF EqualPlace, WithinProt
      <4> QED BY <4>2, AtProt
    <3> QED BY <3>1, <3>2
  <2>10. o + 1 < Len(W) /\ "PROT" # "none"
    BY <1>6, <2>3
  <2> QED BY <2>6, <2>8, <2>9, <2>10, Advances
<1>8. CASE ~(k < Len(item.prots))
  <2>1. k = Len(item.prots) /\ item.void
    BY <1>2, <1>3, <1>8
  <2>2. W[b + 2] = "/" /\ W[b + 3] = ">" /\ b + 3 = Len(W)
    BY <1>4, <2>1 DEF Behind
  <2>3. s[1] = "/" /\ (Len(s) > 1 => s[2] = ">") /\ o + 2 = Len(W)
    <3>1. b + 3 <= Len(W)
      BY <1>3, <1>5, <2>2
    <3> QED BY <1>5, <1>6, <2>2, <3>1
  <2>4. all => Len(s) >= 2
    <3>1. all => Len(s) >= Len(W) - o
      BY DEF Upcoming
    <3>2. Len(W) - o = 2
      <4> HIDE DEF b
      <4> QED BY <1>3, <2>3
    <3> QED BY <3>1, <3>2
  <2>5. Takes(m, s, 2, "initial", "TAG_END_FLAG2")
    BY <1>3, <1>5, <2>3, <2>4, LexVoidEnd
  <2>6. r = Push(p, "TAG_END_FLAG2", m.text) /\ "TAG_END_FLAG2" \in TagEndFlags
    BY <2>5 DEF Takes, TagEndFlags
  <2> QED BY <2>1, <2>3, <2>5, <2>6, GoesEnd
<1> QED BY <1>7, <1>8

LEMMA GoesEqual ==
  ASSUME NEW item, OrdinaryItem(item), NEW W, W = Written(item),
         NEW o, NEW s, NEW all, Upcoming(W, o, s, all),
         NEW p, Growing(p), NEW l, NEW n \in Nat, NEW k, EqualPlace(item, k, o, p, l, n),
         NEW m, m = LongestMatch(l, s), NEW r, r = Push(p, m.token, m.text)
  PROVE  Goes(item, W, o, s, p, n, m, r)
<1> DEFINE e == ProtEnd(item.prots, k - 1)
           v == item.prots[k].value
           c == ProtCost(item.prots, k - 1)
<1>1. /\ item.kind = "open" /\ k \in 1..Len(item.prots) /\ item.prots[k].form # "bare"
      /\ o = 2 + e + 2 /\ Spent(p, n + 4 + c) /\ HasProts(p, item.prots, k - 1)
      /\ l = "prot_name" /\ p.at = "prot"
  BY DEF EqualPlace, WithinProt
<1>2. TagShape(item, W) /\ Typed(p)
  BY <1>1, TagShapeIs DEF Growing
<1>3. k \in 0..Len(item.prots) /\ k - 1 \in 0..Len(item.prots) /\ Len(item.prots) \in Nat
  BY <1>1, <1>2 DEF TagShape
<1>4. e \in Nat /\ c \in Nat
  BY <1>2, <1>3 DEF TagShape
<1>5. PropSpelled(item, W, k, e, v)
  BY <1>1, <1>4, PropIs
<1>6. W[e + 5] = "="
  BY <1>1, <1>5 DEF PropSpelled
<1>7. /\ s \in Seq(Chars) /\ Len(s) \in Nat /\ Len(s) > 0 /\ s[1] = W[o + 1] /\ Len(W) \in Nat
  BY NextChars
<1>8. Behind(item, W, k, 2 + ProtEnd(item.prots, k))
  BY <1>1, <1>3, BehindIs
<1>9. ProtEnd(item.prots, k) >= e + 3 /\ ProtEnd(item.prots, k) \in Nat
  <2>1. ProtEnd(item.prots, k) \in Nat
    BY <1>2, <1>3 DEF TagShape
  <2> DEFINE f == ProtEnd(item.prots, k)
             j == Len(v)
  <2>2. j \in Nat /\ (f = e + 5 + j \/ f = e + 3 + j)
    BY <1>1, <1>5 DEF PropSpelled
  <2> HIDE DEF e, f, j
  <2>3. f >= e + 3
    BY <1>4, <2>2
  <2> QED BY <2>1, <2>3 DEF f
<1>10. 2 + ProtEnd(item.prots, k) < Len(W)
  <2> DEFINE b == 2 + ProtEnd(item.prots, k)
  <2>1. b \in Nat /\ (k < Len(item.prots) \/ (k = Len(item.prots) /\ item.void) \/ (k = Len(item.prots) /\ ~item.void))
    BY <1>2, <1>3, <1>9 DEF TagShape
  <2>2. b + 2 < Len(W) \/ b + 3 = Len(W) \/ b + 1 = Len(W)
    BY <1>8, <2>1 DEF Behind
  <2> HIDE DEF b
  <2>3. b < Len(W)
    BY <1>7, <2>1, <2>2
  <2> QED BY <2>3 DEF b
<1>11. o + 1 = e + 5 /\ o + 1 < Len(W) /\ o + 1 = 2 + e + 3
  <2> HIDE DEF e, c
  <2> QED BY <1>1, <1>4, <1>7, <1>9, <1>10
<1>12. s[1] = "="
  BY <1>6, <1>7, <1>11
<1>13. Takes(m, s, 1, "prot_value", "EQUAL")
  BY <1>1, <1>7, <1>12, LexEqual
<1>14. r = Push(p, "EQUAL", m.text)
  BY <1>13 DEF Takes
<1>15. Moves(p, r, "value", 0, p.prots)
  BY <1>1, <1>2, <1>14, PushEqual
<1>16. /\ r.out = "more" /\ Same(p, r.parser) /\ r.parser.at = "value" /\ r.parser.prots = p.prots
       /\ Spent(r.parser, n + 4 + c) /\ r.parser.dom = p.dom
  <2>1. n + 4 + c \in Nat /\ 0 \in Nat /\ (n + 4 + c) + 0 = n + 4 + c
    <3> HIDE DEF c
    <3> QED BY <1>4
  <2>2. /\ r.out = "more" /\ Same(p, r.parser) /\ r.parser.at = "value" /\ r.parser.prots = p.prots
        /\ Spent(r.parser, (n + 4 + c) + 0) /\ r.parser.dom = p.dom
    <3> HIDE DEF c
    <3> QED BY <1>1, <1>15, <2>1, MovesOn
  <2> QED BY <2>1, <2>2
<1>17. HasProts(r.parser, item.prots, k - 1)
  BY <1>1, <1>16, SameProts
<1>18. ValuePlace(item, k, o + 1, r.parser, "prot_value", n)
  <2> HIDE DEF c
  <2> QED BY <1>1, <1>11, <1>16, <1>17, Zenon DEF ValuePlace, WithinProt, c
<1>19. Place(item, o + 1, r.parser, "prot_value", n)
  BY <1>18, AtProt
<1>20. "EQUAL" # "none"
  OBVIOUS
<1> QED BY <1>1, <1>11, <1>13, <1>16, <1>19, <1>20, Advances

\* The value of property k has come.
LEMMA ValueComes ==
  ASSUME NEW item, OrdinaryItem(item), item.kind = "open", NEW W, W = Written(item),
         NEW p, Growing(p), p.at = "value", NEW n \in Nat,
         NEW k \in 1..Len(item.prots), item.prots[k].form # "bare",
         Spent(p, n + 4 + ProtCost(item.prots, k - 1)), HasProts(p, item.prots, k - 1),
         NEW o, NEW s, NEW m, NEW j, Takes(m, s, j, "prot_name", "TEXT"),
         m.text = item.prots[k].value, o + j = 2 + ProtEnd(item.prots, k),
         NEW r, r = Push(p, m.token, m.text)
  PROVE  Goes(item, W, o, s, p, n, m, r)
<1> DEFINE v == item.prots[k].value
           c == ProtCost(item.prots, k - 1)
           d == ProtCost(item.prots, k)
           b == 2 + ProtEnd(item.prots, k)
<1>1. TagShape(item, W) /\ Typed(p) /\ item.prots \in Seq(ToSet(item.prots))
  BY TagShapeIs DEF Growing, OrdinaryItem
<1>2. k \in 0..Len(item.prots) /\ k - 1 \in 0..Len(item.prots) /\ Len(item.prots) \in Nat /\ k > 0
  BY <1>1 DEF TagShape
<1>3. c \in Nat /\ b \in Nat
  BY <1>1, <1>2 DEF TagShape
<1>4. d = c + 5
  BY <1>1, ProtCosts1
<1>5. r = Push(p, "TEXT", v)
  BY DEF Takes
<1>6. Moves(p, r, "prots", 4, MoreProts(p, <<v>>))
  <2> HIDE DEF v
  <2> QED BY <1>1, <1>5, PushValue
<1>7. /\ r.out = "more" /\ Same(p, r.parser) /\ r.parser.at = "prots" /\ r.parser.prots = MoreProts(p, <<v>>)
      /\ Spent(r.parser, n + 3 + d) /\ r.parser.dom = p.dom
  <2>1. n + 4 + c \in Nat /\ 4 \in Nat /\ (n + 4 + c) + 4 = n + 3 + d
    <3> HIDE DEF c, d
    <3> QED BY <1>3, <1>4
  <2>2. /\ r.out = "more" /\ Same(p, r.parser) /\ r.parser.at = "prots" /\ r.parser.prots = MoreProts(p, <<v>>)
        /\ Spent(r.parser, (n + 4 + c) + 4) /\ r.parser.dom = p.dom
    <3> HIDE DEF v
    <3> QED BY <1>6, <2>1, MovesOn
  <2> QED BY <2>1, <2>2
<1>8. MeantProts(item.prots)[k] = <<v>>
  <2>1. DOMAIN item.prots = 1..Len(item.prots)
    BY <1>1, LenProperties
  <2> QED BY <2>1 DEF MeantProts
<1>9. HasProts(r.parser, item.prots, k)
  BY <1>1, <1>7, <1>8, ProtsGrow
<1>10. ProtsPlace(item, k, 0, o + j, r.parser, "prot_name", n)
  <2>1. o + j = 2 + ProtEnd(item.prots, k) + 0 /\ 0 \in {0, 1} /\ 0 # 1
    BY <1>3
  <2> HIDE DEF d, c
  <2> QED BY <1>2, <1>7, <1>9, <2>1, Zenon DEF ProtsPlace, d
<1>11. Place(item, o + j, r.parser, "prot_name", n)
  BY <1>10, AtProts
<1>12. b < Len(W)
  <2>1. Behind(item, W, k, b)
    BY <1>2, BehindIs
  <2>2. b \in Nat /\ (k < Len(item.prots) \/ (k = Len(item.prots) /\ item.void) \/ (k = Len(item.prots) /\ ~item.void))
    BY <1>1, <1>2, <1>3 DEF TagShape
  <2>3. b + 2 < Len(W) \/ b + 3 = Len(W) \/ b + 1 = Len(W)
    BY <2>1, <2>2 DEF Behind
  <2>4. Len(W) \in Nat
    <3>1. W \in Seq(Chars)
      BY WrittenOpen DEF OpenSpelled
    <3> QED BY <3>1, LenProperties
  <2> HIDE DEF b
  <2> QED BY <2>2, <2>3, <2>4
<1>13. "TEXT" # "none"
  OBVIOUS
<1> QED BY <1>7, <1>11, <1>12, <1>13, Advances

LEMMA PrefixOf ==
  ASSUME NEW s \in Seq(Chars), NEW v \in Seq(Chars), Len(v) <= Len(s),
         \A i \in 1..Len(v) : s[i] = v[i]
  PROVE  SubSeq(s, 1, Len(v)) = v
<1>1. Len(v) \in Nat /\ Len(s) \in Nat
  BY LenProperties
<1>2. SubSeq(v, 1, Len(v)) = v
  BY SubSeqFull
<1>3. SubSeq(s, 1, Len(v)) = SubSeq(v, 1, Len(v))
  BY <1>1
<1> QED BY <1>2, <1>3

LEMMA GoesQuoted ==
  ASSUME NEW item, OrdinaryItem(item), NEW W, W = Written(item),
         NEW o, NEW s, NEW all, Upcoming(W, o, s, all),
         NEW p, Growing(p), NEW l, NEW n \in Nat, NEW k, QuotedPlace(item, k, o, p, l, n),
         NEW m, m = LongestMatch(l, s), m.open => all, NEW r, r = Push(p, m.token, m.text)
  PROVE  Goes(item, W, o, s, p, n, m, r)
<1> DEFINE e == ProtEnd(item.prots, k - 1)
           v == item.prots[k].value
           c == ProtCost(item.prots, k - 1)
           N == Len(v)
           b == 2 + ProtEnd(item.prots, k)
<1>1. /\ item.kind = "open" /\ k \in 1..Len(item.prots) /\ item.prots[k].form # "bare"
      /\ o = 2 + e + 4 /\ Spent(p, n + 4 + c) /\ HasProts(p, item.prots, k - 1)
      /\ item.prots[k].form = "quoted" /\ l = "quoted" /\ p.at = "value"
  BY DEF QuotedPlace, WithinProt
<1>2. TagShape(item, W)
  BY <1>1, TagShapeIs
<1>3. k \in 0..Len(item.prots) /\ k - 1 \in 0..Len(item.prots) /\ Len(item.prots) \in Nat
  BY <1>1, <1>2 DEF TagShape
<1>4. e \in Nat
  BY <1>2, <1>3 DEF TagShape
<1>5. PropSpelled(item, W, k, e, v)
  BY <1>1, <1>4, PropIs
<1>6. /\ N \in Nat /\ v \in Seq(Chars) /\ ProtEnd(item.prots, k) = e + 5 + N
      /\ W[e + 7 + N] = "q" /\ \A j \in 1..N : v[j] # "q" /\ W[e + 6 + j] = v[j]
  BY <1>1, <1>5 DEF PropSpelled
<1>7. /\ s \in Seq(Chars) /\ Len(s) \in Nat /\ Len(s) > 0 /\ Len(W) \in Nat
  BY NextChars
<1>8. b <= Len(W) /\ b \in Nat
  <2>1. Behind(item, W, k, b)
    BY <1>1, <1>3, BehindIs
  <2>2. b \in Nat /\ (k < Len(item.prots) \/ (k = Len(item.prots) /\ item.void) \/ (k = Len(item.prots) /\ ~item.void))
    BY <1>2, <1>3 DEF TagShape
  <2>3. b + 2 < Len(W) \/ b + 3 = Len(W) \/ b + 1 = Len(W)
    BY <2>1, <2>2 DEF Behind
  <2> HIDE DEF b
  <2> QED BY <1>7, <2>2, <2>3
<1> HIDE DEF c
<1>9. o = e + 6 /\ o + N + 1 = b
  <2>1. b = 2 + (e + 5 + N)
    BY <1>6
  <2> HIDE DEF b, e, N
  <2> QED BY <1>1, <1>4, <1>6, <2>1
<1>10. \A i \in 1..Len(s) : (i <= N => s[i] = v[i] /\ s[i] # "q") /\ (i = N + 1 => s[i] = "q")
  <2> HIDE DEF b, N, e, v
  <2> SUFFICES ASSUME NEW i \in 1..Len(s)
               PROVE (i <= N => s[i] = v[i] /\ s[i] # "q") /\ (i = N + 1 => s[i] = "q")
    OBVIOUS
  <2>1. i \in Nat \ {0} /\ Len(s) >= i
    BY <1>7
  <2>2. i <= N + 1 => o + i <= Len(W)
    BY <1>4, <1>6, <1>7, <1>8, <1>9, <2>1
  <2>3. i <= N + 1 => s[i] = W[o + i]
    BY <2>1, <2>2, Sees
  <2>4. i <= N => i \in 1..N /\ i <= N + 1 /\ o + i = e + 6 + i
    BY <1>4, <1>6, <1>9, <2>1
  <2>5. i = N + 1 => i <= N + 1 /\ o + i = e + 7 + N
    BY <1>4, <1>6, <1>9, <2>1
  <2> QED BY <1>6, <2>3, <2>4, <2>5
<1>11. all => Len(s) >= N + 1
  <2>1. all => Len(s) >= Len(W) - o
    BY DEF Upcoming
  <2>2. Len(W) - o >= N + 1
    <3> HIDE DEF b, N, e, v
    <3> QED BY <1>4, <1>6, <1>7, <1>8, <1>9
  <2> HIDE DEF N
  <2> QED BY <1>4, <1>6, <1>7, <1>9, <2>1, <2>2
<1>12. Takes(m, s, N + 1, "prot_name", "TEXT") /\ m.text = SubSeq(s, 1, N)
  <2>1. \A i \in 1..Len(s) : (i <= N => s[i] # "q") /\ (i = N + 1 => s[i] = "q")
    BY <1>10
  <2>2. m = LongestMatch("quoted", s)
    BY <1>1
  <2>3. N \in Nat
    BY <1>6
  <2> HIDE DEF b, N, e, v
  <2> QED BY <1>7, <1>11, <2>1, <2>2, <2>3, LexQuoted
<1>13. m.text = v
  <2>1. N + 1 <= Len(s)
    BY <1>12 DEF Takes
  <2>2. N <= Len(s) /\ \A i \in 1..N : s[i] = v[i]
    <3> HIDE DEF N
    <3>1. N <= Len(s)
      BY <1>6, <1>7, <2>1
    <3>2. \A i \in 1..N : i \in 1..Len(s) /\ i <= N
      BY <1>6, <1>7, <3>1
    <3> QED BY <1>10, <3>1, <3>2
  <2> HIDE DEF v
  <2> QED BY <1>6, <1>7, <1>12, <2>2, PrefixOf DEF N
<1>14. o + (N + 1) = 2 + ProtEnd(item.prots, k)
  <2>1. o + (N + 1) = b
    <3> HIDE DEF b, N, e
    <3> QED BY <1>4, <1>6, <1>9
  <2> QED BY <2>1
<1> HIDE DEF N, b, e
<1> QED BY <1>1, <1>12, <1>13, <1>14, ValueComes DEF c, v

LEMMA ValueIs ==
  ASSUME NEW item, OrdinaryItem(item), NEW W, W = Written(item), Len(W) \in Nat,
         NEW o, NEW p, NEW l, NEW n \in Nat, NEW k, ValuePlace(item, k, o, p, l, n)
  PROVE  AtValue(item, W, k, o, p, n) /\ item.kind = "open" /\ item.prots[k].form # "bare"
<1> DEFINE e == ProtEnd(item.prots, k - 1)
           b == 2 + ProtEnd(item.prots, k)
<1>1. /\ item.kind = "open" /\ k \in 1..Len(item.prots) /\ item.prots[k].form # "bare"
      /\ o = 2 + e + 3 /\ p.at = "value" /\ WithinProt(item, k, o, p, "value", n, 3)
  BY DEF ValuePlace, WithinProt
<1>2. TagShape(item, W)
  BY <1>1, TagShapeIs
<1>3. k \in 0..Len(item.prots) /\ k - 1 \in 0..Len(item.prots) /\ Len(item.prots) \in Nat
  BY <1>1, <1>2 DEF TagShape
<1>4. e \in Nat /\ o = e + 5
  <2>1. e \in Nat
    BY <1>2, <1>3 DEF TagShape
  <2> HIDE DEF e
  <2> QED BY <1>1, <2>1
<1>5. PropSpelled(item, W, k, e, item.prots[k].value)
  BY <1>1, <1>4, PropIs
<1>6. Behind(item, W, k, b)
  BY <1>1, <1>3, BehindIs
<1>7. b < Len(W)
  <2>2. b \in Nat /\ (k < Len(item.prots) \/ (k = Len(item.prots) /\ item.void) \/ (k = Len(item.prots) /\ ~item.void))
    BY <1>2, <1>3 DEF TagShape
  <2>3. b + 2 < Len(W) \/ b + 3 = Len(W) \/ b + 1 = Len(W)
    BY <1>6, <2>2 DEF Behind
  <2> HIDE DEF b
  <2> QED BY <2>2, <2>3
<1> QED BY <1>1, <1>3, <1>4, <1>5, <1>6, <1>7 DEF AtValue

\* An empty value in the open: what comes is the end of its tag.
LEMMA EmptyIs ==
  ASSUME NEW item, item.kind = "open", NEW W, NEW o, NEW p, NEW n, NEW k, AtValue(item, W, k, o, p, n),
         item.prots[k].form = "plain", item.prots[k].value = <<>>
  PROVE  W[o + 1] = ">" /\ o + 1 = Len(W) /\ Fails(item, p)
<1> DEFINE e == ProtEnd(item.prots, k - 1)
           v == item.prots[k].value
<1>1. /\ PropSpelled(item, W, k, e, v) /\ e \in Nat /\ o = e + 5
      /\ Behind(item, W, k, 2 + ProtEnd(item.prots, k)) /\ k \in 1..Len(item.prots)
  BY DEF AtValue
<1>2. ProtEnd(item.prots, k) = e + 3 + Len(v) /\ k = Len(item.prots) /\ ~item.void
  BY <1>1 DEF PropSpelled
<1>3. Len(v) = 0
  OBVIOUS
<1>4. 2 + ProtEnd(item.prots, k) = o
  <2> HIDE DEF v
  <2> QED BY <1>1, <1>2, <1>3
<1>5. W[o + 1] = ">" /\ o + 1 = Len(W)
  BY <1>1, <1>2, <1>4 DEF Behind
<1>6. DOMAIN item.prots = 1..Len(item.prots) \/ k \in DOMAIN item.prots
  OBVIOUS
<1> QED BY <1>1, <1>5, <1>6 DEF Fails

LEMMA GoesBack ==
  ASSUME NEW item, item.kind = "open", NEW W, NEW o, NEW s, NEW p, NEW n, NEW m, NEW r, NEW next,
         Backs(m, next), Place(item, o, p, next, n)
  PROVE  Goes(item, W, o, s, p, n, m, r)
BY DEF Backs, Goes, Here

LEMMA GoesToValue ==
  ASSUME NEW item, OrdinaryItem(item), NEW W, W = Written(item),
         NEW o, NEW s, NEW all, Upcoming(W, o, s, all),
         NEW p, Growing(p), NEW n \in Nat, NEW k, ValuePlace(item, k, o, p, "prot_value", n),
         NEW m, m = LongestMatch("prot_value", s), NEW r
  PROVE  Goes(item, W, o, s, p, n, m, r)
<1> DEFINE e == ProtEnd(item.prots, k - 1)
           v == item.prots[k].value
<1>1. /\ s \in Seq(Chars) /\ Len(s) \in Nat /\ Len(s) > 0 /\ s[1] = W[o + 1] /\ Len(W) \in Nat
  BY NextChars
<1>2. AtValue(item, W, k, o, p, n) /\ item.kind = "open" /\ item.prots[k].form # "bare"
  BY <1>1, ValueIs
<1>3. /\ PropSpelled(item, W, k, e, v) /\ e \in Nat /\ o = e + 5 /\ o + 1 = e + 6
      /\ WithinProt(item, k, o, p, "value", n, 3) /\ p.at = "value" /\ k \in 1..Len(item.prots)
      /\ 2 + ProtEnd(item.prots, k) < Len(W)
  BY <1>2 DEF AtValue
<1>4. CASE item.prots[k].form = "quoted"
  <2>1. W[e + 6] = "q" /\ Len(v) \in Nat /\ ProtEnd(item.prots, k) = e + 5 + Len(v)
    BY <1>3, <1>4 DEF PropSpelled
  <2>2. s[1] = "q"
    BY <1>1, <1>3, <2>1
  <2>3. Takes(m, s, 1, "quoted", "none")
    BY <1>1, <2>2, LexQuote
  <2>4. QuotedPlace(item, k, o + 1, p, "quoted", n)
    <3>1. o + 1 = 2 + e + 4
      <4> HIDE DEF e
      <4> QED BY <1>3
    <3> QED BY <1>3, <1>4, <3>1 DEF QuotedPlace, WithinProt
  <2>5. Place(item, o + 1, p, "quoted", n)
    BY <2>4, AtProt
  <2>6. o + 1 < Len(W)
    <3> DEFINE f == ProtEnd(item.prots, k)
               j == Len(v)
    <3>1. j \in Nat /\ f = e + 5 + j /\ 2 + f < Len(W)
      BY <1>3, <2>1
    <3> HIDE DEF e, f, j
    <3> QED BY <1>1, <1>3, <3>1
  <2> QED BY <1>2, <2>3, <2>5, <2>6, Stays
<1>5. CASE item.prots[k].form # "quoted"
  <2>1. item.prots[k].form = "plain"
    BY <1>2, <1>3, <1>5 DEF PropSpelled
  <2>2. s[1] \notin {"s", "q"}
    <3>1. CASE v = <<>>
      <4>1. W[o + 1] = ">"
        BY <1>2, <2>1, <3>1, EmptyIs
      <4> QED BY <1>1, <4>1
    <3>2. CASE v # <<>>
      <4>1. /\ \A j \in 1..Len(v) : v[j] \notin {"s", "<", ">"} /\ v[j] \in Chars /\ W[e + 5 + j] = v[j]
            /\ Len(v) > 0 /\ v[1] # "q" /\ Len(v) \in Nat
        BY <1>2, <1>3, <2>1, <3>2 DEF PropSpelled
      <4>2. 1 \in 1..Len(v) /\ e + 5 + 1 = e + 6
        <5> HIDE DEF v, e
        <5> QED BY <1>3, <4>1
      <4>3. W[e + 6] = v[1] /\ v[1] # "s"
        BY <4>1, <4>2
      <4> QED BY <1>1, <1>3, <4>1, <4>3
    <3> QED BY <3>1, <3>2
  <2>3. Backs(m, "noquote")
    BY <1>1, <2>2, LexNoQuote
  <2>4. ValuePlace(item, k, o, p, "noquote", n)
    BY <1>3, <2>1 DEF ValuePlace, WithinProt
  <2>5. Place(item, o, p, "noquote", n)
    BY <2>4, AtProt
  <2> QED BY <1>2, <2>3, <2>5, GoesBack
<1> QED BY <1>4, <1>5

LEMMA GoesPlain ==
  ASSUME NEW item, OrdinaryItem(item), NEW W, W = Written(item),
         NEW o, NEW s, NEW all, Upcoming(W, o, s, all),
         NEW p, Growing(p), NEW n \in Nat, NEW k, ValuePlace(item, k, o, p, "noquote", n),
         NEW m, m = LongestMatch("noquote", s), m.open => all, NEW r, r = Push(p, m.token, m.text)
  PROVE  Goes(item, W, o, s, p, n, m, r)
<1> DEFINE e == ProtEnd(item.prots, k - 1)
           v == item.prots[k].value
           N == Len(v)
           b == 2 + ProtEnd(item.prots, k)
<1>1. /\ s \in Seq(Chars) /\ Len(s) \in Nat /\ Len(s) > 0 /\ s[1] = W[o + 1] /\ Len(W) \in Nat
  BY NextChars
<1>2. AtValue(item, W, k, o, p, n) /\ item.kind = "open" /\ item.prots[k].form # "bare"
  BY <1>1, ValueIs
<1>3. /\ PropSpelled(item, W, k, e, v) /\ e \in Nat /\ o = e + 5
      /\ WithinProt(item, k, o, p, "value", n, 3) /\ p.at = "value" /\ k \in 1..Len(item.prots)
      /\ b < Len(W) /\ Behind(item, W, k, b)
  BY <1>2 DEF AtValue
<1>4. item.prots[k].form = "plain"
  <2>1. "noquote" # "prot_value" /\ "noquote" # "prot_name"
    OBVIOUS
  <2> QED BY <2>1, Zenon DEF ValuePlace
<1>5. CASE v = <<>>
  <2>1. W[o + 1] = ">"
    BY <1>2, <1>4, <1>5, EmptyIs
  <2>2. s[1] \in {"s", "<", ">"}
    BY <1>1, <2>1
  <2>3. Backs(m, "prot_name")
    BY <1>1, <2>2, LexNoValue
  <2>4. ValuePlace(item, k, o, p, "prot_name", n)
    BY <1>3, <1>4, <1>5 DEF ValuePlace, WithinProt
  <2>5. Place(item, o, p, "prot_name", n)
    BY <2>4, AtProt
  <2> QED BY <1>2, <2>3, <2>5, GoesBack
<1>6. CASE v # <<>>
  <2>1. /\ N \in Nat /\ N > 0 /\ v \in Seq(Chars) /\ ProtEnd(item.prots, k) = e + 3 + N
        /\ \A j \in 1..N : v[j] \notin {"s", "<", ">"} /\ W[e + 5 + j] = v[j]
    BY <1>2, <1>3, <1>4, <1>6 DEF PropSpelled
  <2>2. o + N = b /\ b \in Nat
    <3>1. b = 2 + (e + 3 + N)
      BY <2>1
    <3>2. o = e + 5 /\ e \in Nat /\ N \in Nat
      BY <1>3, <2>1
    <3> HIDE DEF b, e, N
    <3> QED BY <3>1, <3>2
  <2>3. W[b + 1] \in {"s", "<", ">"}
    <3>1. TagShape(item, W)
      BY <1>2, TagShapeIs
    <3>2. k < Len(item.prots) \/ (k = Len(item.prots) /\ item.void) \/ (k = Len(item.prots) /\ ~item.void)
      BY <1>3, <3>1 DEF TagShape
    <3>3. W[b + 1] = "s" \/ W[b + 1] = ">"
      <4> HIDE DEF b
      <4> QED BY <1>3, <3>2 DEF Behind
    <3> QED BY <3>3
  <2>4. \A i \in 1..Len(s) : (i <= N => s[i] = v[i] /\ s[i] \notin {"s", "<", ">"})
                              /\ (i = N + 1 => s[i] \in {"s", "<", ">"})
    <3> HIDE DEF b, N, e, v
    <3> SUFFICES ASSUME NEW i \in 1..Len(s)
                 PROVE (i <= N => s[i] = v[i] /\ s[i] \notin {"s", "<", ">"})
                       /\ (i = N + 1 => s[i] \in {"s", "<", ">"})
      OBVIOUS
    <3>1. i \in Nat \ {0} /\ Len(s) >= i
      BY <1>1
    <3>2. i <= N + 1 => o + i <= Len(W)
      BY <1>1, <1>3, <2>1, <2>2, <3>1
    <3>3. i <= N + 1 => s[i] = W[o + i]
      BY <3>1, <3>2, Sees
    <3>4. i <= N => i \in 1..N /\ i <= N + 1 /\ o + i = e + 5 + i
      BY <1>3, <2>1, <3>1
    <3>5. i = N + 1 => i <= N + 1 /\ o + i = b + 1
      BY <1>3, <2>1, <2>2, <3>1
    <3> QED BY <2>1, <2>3, <3>3, <3>4, <3>5
  <2>5. all => Len(s) >= N
    <3>1. all => Len(s) >= Len(W) - o
      BY DEF Upcoming
    <3>2. Len(W) - o >= N
      <4> HIDE DEF b, N, e, v
      <4> QED BY <1>1, <1>3, <2>1, <2>2
    <3> HIDE DEF N
    <3> QED BY <1>1, <1>3, <2>1, <3>1, <3>2
  <2>6. Takes(m, s, N, "prot_name", "TEXT") /\ m.text = SubSeq(s, 1, N)
    <3>1. \A i \in 1..Len(s) : (i <= N => s[i] \notin {"s", "<", ">"})
                                /\ (i = N + 1 => s[i] \in {"s", "<", ">"})
      BY <2>4
    <3>2. N \in Nat /\ N > 0
      BY <2>1
    <3> HIDE DEF b, N, e, v
    <3> QED BY <1>1, <2>5, <3>1, <3>2, LexPlain
  <2>7. m.text = v
    <3>1. N <= Len(s)
      BY <2>6 DEF Takes
    <3>2. \A i \in 1..N : s[i] = v[i]
      <4> HIDE DEF N
      <4>2. \A i \in 1..N : i \in 1..Len(s) /\ i <= N
        BY <1>1, <2>1, <3>1
      <4> QED BY <2>4, <4>2
    <3> HIDE DEF v
    <3> QED BY <1>1, <2>1, <2>6, <3>1, <3>2, PrefixOf DEF N
  <2>8. Spent(p, n + 4 + ProtCost(item.prots, k - 1)) /\ HasProts(p, item.prots, k - 1)
    BY <1>3 DEF WithinProt
  <2>9. o + N = 2 + ProtEnd(item.prots, k)
    BY <2>2
  <2> HIDE DEF N, b, e
  <2> QED BY <1>2, <1>3, <2>6, <2>7, <2>8, <2>9, ValueComes DEF v
<1> QED BY <1>5, <1>6

LEMMA GoesNoValue ==
  ASSUME NEW item, OrdinaryItem(item), NEW W, W = Written(item),
         NEW o, NEW s, NEW all, Upcoming(W, o, s, all),
         NEW p, NEW n \in Nat, NEW k, ValuePlace(item, k, o, p, "prot_name", n),
         NEW m, m = LongestMatch("prot_name", s), NEW r, r = Push(p, m.token, m.text)
  PROVE  Goes(item, W, o, s, p, n, m, r)
<1>1. /\ s \in Seq(Chars) /\ Len(s) \in Nat /\ Len(s) > 0 /\ s[1] = W[o + 1] /\ Len(W) \in Nat
  BY NextChars
<1>2. AtValue(item, W, k, o, p, n) /\ item.kind = "open" /\ item.prots[k].form # "bare"
  BY <1>1, ValueIs
<1>3. item.prots[k].form = "plain" /\ item.prots[k].value = <<>> /\ p.at = "value"
  <2>1. "prot_name" # "prot_value" /\ "noquote" # "prot_name"
    OBVIOUS
  <2> QED BY <2>1, Zenon DEF ValuePlace
<1>4. W[o + 1] = ">" /\ Fails(item, p)
  BY <1>2, <1>3, EmptyIs
<1>5. Takes(m, s, 1, "initial", "TAG_END_FLAG")
  BY <1>1, <1>4, LexTagEnd
<1>6. r = Push(p, "TAG_END_FLAG", m.text)
  BY <1>5 DEF Takes
<1>7. r.out = "refused"
  BY <1>3, <1>6, PushNoValue
<1>8. "TAG_END_FLAG" # "none"
  OBVIOUS
<1> QED BY <1>4, <1>5, <1>7, <1>8, Pushed

LEMMA WrittenIs ==
  ASSUME NEW item, OrdinaryItem(item)
  PROVE  /\ item.kind \in {"open", "close", "text", "comment", "meta"}
         /\ Written(item) \in Seq(Chars) /\ Len(Written(item)) \in Nat /\ Len(Written(item)) > 0
         /\ item.kind = "open" => Len(Written(item)) > 2
         /\ item.kind # "text" => Written(item)[1] = "<"
         /\ item.kind = "text" => \A i \in 1..Len(Written(item)) : Written(item)[i] # "<"
<1> DEFINE W == Written(item)
<1>0. item.kind \in {"open", "close", "text", "comment", "meta"}
  BY DEF OrdinaryItem
<1>1. CASE item.kind = "text"
  <2>1. W = item.text /\ W \in Seq(Chars \ {"<"}) /\ W \in Seq(Chars) /\ Len(W) \in Nat \ {0}
    BY <1>1, WrittenText DEF TextSpelled
  <2>2. \A i \in 1..Len(W) : W[i] # "<"
    BY <2>1, ElementOfSeq
  <2> HIDE DEF W
  <2>3. W \in Seq(Chars) /\ Len(W) \in Nat /\ Len(W) > 0
    BY <2>1
  <2> QED BY <1>0, <1>1, <2>2, <2>3 DEF W
<1>2. CASE item.kind = "close"
  <2>1. CloseSpelled(W)
    BY <1>2, WrittenClose
  <2> HIDE DEF W
  <2>2. W \in Seq(Chars) /\ Len(W) = 4 /\ W[1] = "<"
    BY <2>1 DEF CloseSpelled
  <2> QED BY <1>0, <1>2, <2>2 DEF W
<1>3. CASE item.kind = "comment"
  <2>1. CommentSpelled(item, W)
    BY <1>3, WrittenComment
  <2> DEFINE t == Len(item.text)
  <2> HIDE DEF W
  <2>2. W \in Seq(Chars) /\ t \in Nat /\ Len(W) = t + 7 /\ W[1] = "<"
    BY <2>1 DEF CommentSpelled
  <2> HIDE DEF t
  <2>3. Len(W) \in Nat /\ Len(W) > 0
    BY <2>2
  <2> QED BY <1>0, <1>3, <2>2, <2>3 DEF W
<1>4. CASE item.kind = "meta"
  <2>1. MetaSpelled(item, W)
    BY <1>4, WrittenMeta
  <2> DEFINE t == Len(item.text)
  <2> HIDE DEF W
  <2>2. W \in Seq(Chars) /\ t \in Nat /\ Len(W) = t + 3 /\ W[1] = "<"
    BY <2>1 DEF MetaSpelled
  <2> HIDE DEF t
  <2>3. Len(W) \in Nat /\ Len(W) > 0
    BY <2>2
  <2> QED BY <1>0, <1>4, <2>2, <2>3 DEF W
<1>5. CASE item.kind = "open"
  <2>1. OpenSpelled(item, W, Ends(WrittenProts(item.prots)))
    BY <1>5, WrittenOpen
  <2> DEFINE f == ProtEnd(item.prots, Len(item.prots))
  <2>2. W \in Seq(Chars) /\ W[1] = "<" /\ item.void \in BOOLEAN
        /\ (~item.void => Len(W) = f + 3) /\ (item.void => Len(W) = f + 5)
    <3> HIDE DEF W
    <3> QED BY <2>1 DEF OpenSpelled, ProtEnd
  <2>3. f \in Nat
    <3>1. TagShape(item, W)
      BY <1>5, TagShapeIs
    <3> HIDE DEF W
    <3>2. Len(item.prots) \in Nat
      BY <3>1 DEF TagShape
    <3>3. Len(item.prots) \in 0..Len(item.prots)
      BY <3>2
    <3> QED BY <3>1, <3>3 DEF TagShape
  <2> HIDE DEF W, f
  <2>4. Len(W) \in Nat /\ Len(W) > 2
    BY <2>2, <2>3
  <2> QED BY <1>0, <1>5, <2>2, <2>4 DEF W
<1> QED BY <1>0, <1>1, <1>2, <1>3, <1>4, <1>5

\* Behind property k something comes.
LEMMA BehindMore ==
  ASSUME NEW item, OrdinaryItem(item), item.kind = "open", NEW W, W = Written(item),
         NEW k \in 0..Len(item.prots)
  PROVE  /\ ProtEnd(item.prots, k) \in Nat /\ 2 + ProtEnd(item.prots, k) < Len(W)
         /\ k < Len(item.prots) \/ item.void => 2 + ProtEnd(item.prots, k) + 1 < Len(W)
<1> DEFINE b == 2 + ProtEnd(item.prots, k)
<1>1. TagShape(item, W) /\ Len(W) \in Nat
  BY TagShapeIs, WrittenIs
<1>2. b \in Nat /\ ProtEnd(item.prots, k) \in Nat
      /\ (k < Len(item.prots) \/ (k = Len(item.prots) /\ item.void) \/ (k = Len(item.prots) /\ ~item.void))
  BY <1>1 DEF TagShape
<1>3. Behind(item, W, k, b)
  BY BehindIs
<1>4. CASE k < Len(item.prots) \/ (k = Len(item.prots) /\ item.void)
  <2>1. b + 2 < Len(W) \/ b + 3 = Len(W)
    BY <1>3, <1>4 DEF Behind
  <2> HIDE DEF b
  <2>2. b < Len(W) /\ b + 1 < Len(W)
    BY <1>1, <1>2, <2>1
  <2> QED BY <1>2, <2>2 DEF b
<1>5. CASE ~(k < Len(item.prots) \/ (k = Len(item.prots) /\ item.void))
  <2>1. b + 1 = Len(W) /\ ~item.void /\ ~(k < Len(item.prots))
    BY <1>2, <1>3, <1>5 DEF Behind
  <2> HIDE DEF b
  <2>2. b < Len(W)
    BY <1>1, <1>2, <2>1
  <2> QED BY <1>2, <2>1, <2>2 DEF b
<1> QED BY <1>4, <1>5

LEMMA ProtInside ==
  ASSUME NEW item, OrdinaryItem(item), item.kind = "open", NEW W, W = Written(item),
         NEW k, NEW d \in {2, 3, 4}, NEW o, NEW p, NEW l, NEW n,
         WithinProt(item, k, o, p, l, n, d), d = 4 => item.prots[k].form = "quoted"
  PROVE  o \in Nat /\ o < Len(W)
<1> DEFINE e == ProtEnd(item.prots, k - 1)
           f == ProtEnd(item.prots, k)
           v == item.prots[k].value
           j == Len(v)
<1>1. k \in 1..Len(item.prots) /\ item.prots[k].form # "bare" /\ o = 2 + e + d
  BY DEF WithinProt
<1>2. TagShape(item, W) /\ Len(W) \in Nat
  BY TagShapeIs, WrittenIs
<1>3. k \in 0..Len(item.prots) /\ k - 1 \in 0..Len(item.prots)
  BY <1>1, <1>2 DEF TagShape
<1>4. e \in Nat /\ f \in Nat
  BY <1>2, <1>3 DEF TagShape
<1>5. PropSpelled(item, W, k, e, v)
  BY <1>1, <1>4, PropIs
<1>6. /\ j \in Nat /\ (item.prots[k].form = "quoted" => f = e + 5 + j)
      /\ (item.prots[k].form = "quoted" \/ f = e + 3 + j)
  BY <1>1, <1>5 DEF PropSpelled
<1>7. 2 + f < Len(W)
  BY <1>3, BehindMore
<1>8. f = e + 5 + j \/ (d # 4 /\ f = e + 3 + j)
  BY <1>6
<1>9. d = 2 \/ d = 3 \/ d = 4
  OBVIOUS
<1>10. j \in Nat
  BY <1>6
<1> HIDE DEF e, f, j, v
<1> QED BY <1>1, <1>2, <1>4, <1>7, <1>8, <1>9, <1>10

LEMMA PlaceInside ==
  ASSUME NEW item, OrdinaryItem(item), NEW W, W = Written(item),
         NEW o, NEW p, NEW l, NEW n, Place(item, o, p, l, n)
  PROVE  o \in Nat /\ o < Len(W)
<1>0. Len(W) \in Nat
  BY WrittenIs
<1>1. CASE CommentPlace(item, o, p, l, n)
  <2> DEFINE t == Len(item.text)
  <2>1. o \in 4..4 + t /\ item.kind = "comment"
    BY <1>1 DEF CommentPlace
  <2>2. t \in Nat /\ Len(W) = t + 7
    BY <2>1, WrittenComment DEF CommentSpelled
  <2> HIDE DEF t
  <2> QED BY <2>1, <2>2
<1>2. CASE MetaPlace(item, o, p, l, n)
  <2> DEFINE t == Len(item.text)
  <2>1. o \in 2..2 + t /\ item.kind = "meta"
    BY <1>2 DEF MetaPlace
  <2>2. t \in Nat /\ Len(W) = t + 3
    BY <2>1, WrittenMeta DEF MetaSpelled
  <2> HIDE DEF t
  <2> QED BY <2>1, <2>2
<1>3. CASE ClosePlace(item, o, p, l, n) \/ EndPlace(item, o, p, l, n)
  <2>1. (o = 2 \/ o = 3) /\ item.kind = "close"
    BY <1>3 DEF ClosePlace, EndPlace
  <2>2. Len(W) = 4
    BY <2>1, WrittenClose DEF CloseSpelled
  <2> QED BY <2>1, <2>2
<1>4. CASE NamePlace(item, o, p, l, n)
  <2>1. o = 1 /\ item.kind = "open"
    BY <1>4 DEF NamePlace
  <2>2. Len(W) > 2
    BY <2>1, WrittenIs
  <2> QED BY <1>0, <2>1, <2>2
<1>5. CASE \E k \in 0..Len(item.prots), e \in {0, 1} : ProtsPlace(item, k, e, o, p, l, n)
  <2>1. PICK k \in 0..Len(item.prots), e \in {0, 1} : ProtsPlace(item, k, e, o, p, l, n)
    BY <1>5
  <2> DEFINE f == ProtEnd(item.prots, k)
  <2>2. /\ item.kind = "open" /\ o = 2 + f + e
        /\ e = 1 => k < Len(item.prots) \/ item.void
    BY <2>1 DEF ProtsPlace
  <2>3. f \in Nat /\ 2 + f < Len(W) /\ (e = 1 => 2 + f + 1 < Len(W))
    BY <2>2, BehindMore
  <2> HIDE DEF f
  <2> QED BY <1>0, <2>2, <2>3
<1>6. CASE \E k \in 1..Len(item.prots) :
             EqualPlace(item, k, o, p, l, n) \/ ValuePlace(item, k, o, p, l, n) \/ QuotedPlace(item, k, o, p, l, n)
  <2>1. PICK k \in 1..Len(item.prots) :
             EqualPlace(item, k, o, p, l, n) \/ ValuePlace(item, k, o, p, l, n) \/ QuotedPlace(item, k, o, p, l, n)
    BY <1>6
  <2>2. CASE EqualPlace(item, k, o, p, l, n)
    <3>1. WithinProt(item, k, o, p, l, n, 2) /\ item.kind = "open"
      BY <2>2 DEF EqualPlace, WithinProt
    <3>2. 2 \in {2, 3, 4} /\ 2 # 4
      OBVIOUS
    <3> QED BY <3>1, <3>2, ProtInside
  <2>3. CASE ValuePlace(item, k, o, p, l, n)
    <3>1. WithinProt(item, k, o, p, l, n, 3) /\ item.kind = "open"
      BY <2>3 DEF ValuePlace, WithinProt
    <3>2. 3 \in {2, 3, 4} /\ 3 # 4
      OBVIOUS
    <3> QED BY <3>1, <3>2, ProtInside
  <2>4. CASE QuotedPlace(item, k, o, p, l, n)
    <3>1. WithinProt(item, k, o, p, l, n, 4) /\ item.kind = "open" /\ item.prots[k].form = "quoted"
      BY <2>4 DEF QuotedPlace, WithinProt
    <3>2. 4 \in {2, 3, 4}
      OBVIOUS
    <3> QED BY <3>1, <3>2, ProtInside
  <2> QED BY <2>1, <2>2, <2>3, <2>4
<1> QED BY <1>1, <1>2, <1>3, <1>4, <1>5, <1>6, Zenon DEF Place

LEMMA GoesOn ==
  ASSUME NEW item, OrdinaryItem(item), NEW W, W = Written(item),
         NEW o, NEW s, NEW all, Upcoming(W, o, s, all),
         item.kind = "text" /\ o = 0 /\ Len(s) > Len(W) => s[Len(W) + 1] = "<",
         NEW p, Growing(p), NEW l, NEW n \in Nat, Here(item, o, p, l, n),
         NEW m, m = LongestMatch(l, s), m.open => all, NEW r, r = Push(p, m.token, m.text)
  PROVE  Goes(item, W, o, s, p, n, m, r)
<1>1. /\ item.kind \in {"open", "close", "text", "comment", "meta"}
      /\ item.kind = "open" => Len(W) > 2
  BY WrittenIs
<1>2. CASE o = 0 /\ Begins(p, l, n)
  <2>1. Upcoming(W, 0, s, all)
    BY <1>2
  <2>2. Goes(item, W, 0, s, p, n, m, r)
    <3>1. CASE item.kind = "text"
      BY <1>2, <2>1, <3>1, GoesText
    <3>2. CASE item.kind = "open"
      BY <1>1, <1>2, <2>1, <3>2, GoesOpen
    <3>3. CASE item.kind = "close"
      BY <1>2, <2>1, <3>3, GoesClose
    <3>4. CASE item.kind = "comment"
      BY <1>2, <2>1, <3>4, GoesComment
    <3>5. CASE item.kind = "meta"
      BY <1>2, <2>1, <3>5, GoesMeta
    <3> QED BY <1>1, <3>1, <3>2, <3>3, <3>4, <3>5
  <2> QED BY <1>2, <2>2
<1>3. CASE Place(item, o, p, l, n) /\ (item.kind # "open" => (p.dom => p.prots = <<>>))
  <2>1. CASE CommentPlace(item, o, p, l, n)
    <3>1. item.kind = "comment" /\ (p.dom => p.prots = <<>>)
      BY <1>3, <2>1 DEF CommentPlace
    <3> QED BY <2>1, <3>1, GoesInComment
  <2>2. CASE MetaPlace(item, o, p, l, n)
    <3>1. item.kind = "meta" /\ (p.dom => p.prots = <<>>)
      BY <1>3, <2>2 DEF MetaPlace
    <3> QED BY <2>2, <3>1, GoesInMeta
  <2>3. CASE ClosePlace(item, o, p, l, n)
    <3>1. item.kind = "close" /\ (p.dom => p.prots = <<>>)
      BY <1>3, <2>3 DEF ClosePlace
    <3> QED BY <2>3, <3>1, GoesCloseName
  <2>4. CASE EndPlace(item, o, p, l, n)
    <3>1. item.kind = "close" /\ (p.dom => p.prots = <<>>)
      BY <1>3, <2>4 DEF EndPlace
    <3> QED BY <2>4, <3>1, GoesCloseEnd
  <2>5. CASE NamePlace(item, o, p, l, n)
    BY <2>5, GoesName
  <2>6. CASE \E k \in 0..Len(item.prots), e \in {0, 1} : ProtsPlace(item, k, e, o, p, l, n)
    <3>1. PICK k \in 0..Len(item.prots), e \in {0, 1} : ProtsPlace(item, k, e, o, p, l, n)
      BY <2>6
    <3>2. item.kind = "open"
      BY <3>1 DEF ProtsPlace
    <3>3. CASE e = 0
      BY <3>1, <3>2, <3>3, GoesProts
    <3>4. CASE e = 1
      BY <3>1, <3>2, <3>4, GoesProt
    <3> QED BY <3>3, <3>4
  <2>7. CASE \E k \in 1..Len(item.prots) :
               EqualPlace(item, k, o, p, l, n) \/ ValuePlace(item, k, o, p, l, n) \/ QuotedPlace(item, k, o, p, l, n)
    <3>1. PICK k \in 1..Len(item.prots) :
             EqualPlace(item, k, o, p, l, n) \/ ValuePlace(item, k, o, p, l, n) \/ QuotedPlace(item, k, o, p, l, n)
      BY <2>7
    <3>2. CASE EqualPlace(item, k, o, p, l, n)
      BY <3>2, GoesEqual
    <3>3. CASE ValuePlace(item, k, o, p, l, n)
      <4>1. l = "prot_value" \/ l = "noquote" \/ l = "prot_name"
        BY <3>3, Zenon DEF ValuePlace
      <4>2. CASE l = "prot_value"
        BY <3>3, <4>2, GoesToValue
      <4>3. CASE l = "noquote"
        BY <3>3, <4>3, GoesPlain
      <4>4. CASE l = "prot_name"
        BY <3>3, <4>4, GoesNoValue
      <4> QED BY <4>1, <4>2, <4>3, <4>4
    <3>4. CASE QuotedPlace(item, k, o, p, l, n)
      BY <3>4, GoesQuoted
    <3> QED BY <3>1, <3>2, <3>3, <3>4
  <2> QED BY <1>3, <2>1, <2>2, <2>3, <2>4, <2>5, <2>6, <2>7, Zenon DEF Place
<1> QED BY <1>2, <1>3, Zenon DEF Here

-----------------------------------------------------------------------------
(* One match within a page.                                                *)

LEMMA CostIs ==
  ASSUME NEW item, OrdinaryItem(item)
  PROVE  Cost(item) \in Nat
<1>1. item.kind \in {"open", "close", "text", "comment", "meta"}
  BY WrittenIs
<1>2. CASE item.kind = "open"
  <2>1. TagShape(item, Written(item))
    BY <1>2, TagShapeIs
  <2>2. Len(item.prots) \in Nat
    BY <2>1 DEF TagShape
  <2>3. Len(item.prots) \in 0..Len(item.prots)
    BY <2>2
  <2> DEFINE c == ProtCost(item.prots, Len(item.prots))
  <2>4. c \in Nat /\ Cost(item) = 7 + c
    BY <2>1, <2>3 DEF TagShape
  <2> HIDE DEF c
  <2> QED BY <2>4
<1>3. CASE item.kind # "open"
  <2>1. Cost(item) = 2 \/ Cost(item) = 5 \/ Cost(item) = 0
    BY <1>1, <1>3, Costs1
  <2> QED BY <2>1
<1> QED BY <1>2, <1>3

LEMMA PageLaid ==
  ASSUME NEW page, Ordinary(page)
  PROVE  LaidPage(page)
<1> DEFINE N == Len(page)
           s == Items(page)
           E == Ends(s)
           S == Costs(page)
           h == Html(page)
<1>1. /\ N \in Nat /\ DOMAIN page = 1..N /\ \A i \in 1..N : OrdinaryItem(page[i])
  BY LenProperties DEF Ordinary
<1>2. s \in [1..N -> Seq(Chars)] /\ \A i \in 1..N : s[i] = Written(page[i])
  BY <1>1, WrittenIs DEF Items
<1>3. s \in Seq(Seq(Chars)) /\ Len(s) = N
  <2> HIDE DEF s, N
  <2> QED BY <1>1, <1>2, FunctionSeq
<1>4. h = FlattenSeq(s)
  BY DEF Html, Items
<1>5. h \in Seq(Chars) /\ Laid(h, s, E) /\ EndsOf(E, s)
  <2> HIDE DEF s, h
  <2> QED BY <1>3, <1>4, FlattenLaid, EndsAre
<1>6. S \in [1..N -> Nat] /\ \A i \in 1..N : S[i] = Cost(page[i])
  BY <1>1, CostIs DEF Costs
<1>7. S \in Seq(Nat) /\ Len(S) = N
  <2> HIDE DEF S, N
  <2> QED BY <1>1, <1>6, FunctionSeq
<1>8. SumsOf(Sums(S), S)
  <2> HIDE DEF S
  <2> QED BY <1>7, SumsAre
<1>9. (\A c : ItemEnd(page, c) = E[c]) /\ (\A c : PageCost(page, c) = Sums(S)[c])
  BY DEF ItemEnd, PageCost
<1> HIDE DEF N, s, E, S, h
<1>10. /\ E \in [0..N -> Nat] /\ E[0] = 0 /\ Len(h) = E[N]
       /\ \A k \in 1..N : E[k] = E[k - 1] + Len(s[k])
       /\ \A k \in 0..N : E[k] <= E[N]
       /\ \A k \in 1..N : \A j \in 1..Len(s[k]) : h[E[k - 1] + j] = s[k][j]
  <2>1. \A k \in 0..N : N \in k..N
    BY <1>1
  <2>2. /\ \A j \in 0..N : \A k \in j..N : E[j] <= E[k]
        /\ E \in [0..N -> Nat] /\ E[0] = 0 /\ \A k \in 1..N : E[k] = E[k - 1] + Len(s[k])
    BY <1>3, <1>5 DEF EndsOf
  <2>3. Len(h) = E[N] /\ \A k \in 1..N : \A j \in 1..Len(s[k]) : h[E[k - 1] + j] = s[k][j]
    BY <1>3, <1>5 DEF Laid
  <2> QED BY <2>1, <2>2, <2>3
<1>11. /\ Sums(S) \in [0..N -> Nat] /\ Sums(S)[0] = 0
       /\ \A k \in 1..N : Sums(S)[k] = Sums(S)[k - 1] + S[k]
  BY <1>7, <1>8 DEF SumsOf
<1>12. \A c \in 0..N : E[c] \in Nat /\ Sums(S)[c] \in Nat /\ E[c] <= Len(h)
  BY <1>10, <1>11
<1>13. \A c \in 0..N - 1 : LaidItem(page, c, page[c + 1], Written(page[c + 1]))
  <2> SUFFICES ASSUME NEW c \in 0..N - 1
               PROVE  LaidItem(page, c, page[c + 1], Written(page[c + 1]))
    OBVIOUS
  <2> DEFINE k == c + 1
  <2>1. k \in 1..N /\ k - 1 = c /\ c \in 0..N /\ k \in 0..N
    BY <1>1
  <2> HIDE DEF k
  <2>2. /\ E[k] = E[c] + Len(s[k]) /\ s[k] = Written(page[k])
        /\ \A j \in 1..Len(s[k]) : h[E[c] + j] = s[k][j]
    BY <1>2, <1>10, <2>1
  <2>3. /\ Sums(S)[k] = Sums(S)[c] + Cost(page[k])
    BY <1>6, <1>11, <2>1
  <2>4. /\ OrdinaryItem(page[k]) /\ Written(page[k]) \in Seq(Chars) /\ Len(Written(page[k])) \in Nat
        /\ Len(Written(page[k])) > 0
    BY <1>1, <2>1, WrittenIs
  <2>5. /\ ItemEnd(page, c) \in Nat /\ ItemEnd(page, k) = ItemEnd(page, c) + Len(Written(page[k]))
        /\ ItemEnd(page, k) \in Nat /\ ItemEnd(page, k) <= Len(h)
    BY <1>9, <1>12, <2>1, <2>2
  <2>6. \A j \in 1..Len(Written(page[k])) : h[ItemEnd(page, c) + j] = Written(page[k])[j]
    BY <1>9, <2>2
  <2>7. PageCost(page, c) \in Nat /\ PageCost(page, k) = PageCost(page, c) + Cost(page[k])
    BY <1>9, <1>12, <2>1, <2>3
  <2>8. LaidItem(page, c, page[k], Written(page[k]))
    BY <2>4, <2>5, <2>6, <2>7, Zenon DEF LaidItem, k, h
  <2> QED BY <2>8 DEF k
<1>14. /\ ItemEnd(page, 0) = 0 /\ Len(h) = ItemEnd(page, N) /\ PageCost(page, 0) = 0
       /\ \A c \in 0..N : ItemEnd(page, c) \in Nat /\ PageCost(page, c) \in Nat /\ ItemEnd(page, c) <= Len(h)
  BY <1>9, <1>10, <1>11, <1>12
<1>15. Len(h) \in Nat
  BY <1>5, LenProperties
<1> QED BY <1>1, <1>5, <1>13, <1>14, <1>15 DEF LaidPage, PageTyped, N, h

LEMMA PieceIs ==
  ASSUME NEW h \in Seq(Chars), NEW pos \in Nat, NEW end \in Nat, pos <= end, end <= Len(h)
  PROVE  PieceOf(SubSeq(h, pos + 1, end), h, pos, end)
<1>1. \A i \in pos + 1..end : h[i] \in Chars
  <2>1. \A i \in pos + 1..end : i \in 1..Len(h)
    OBVIOUS
  <2> QED BY <2>1, ElementOfSeq
<1>2. pos + 1 \in Int /\ end \in Int /\ (IF pos + 1 <= end THEN end - (pos + 1) + 1 ELSE 0) = end - pos
  OBVIOUS
<1> DEFINE s == SubSeq(h, pos + 1, end)
<1>3. /\ s \in Seq(Chars)
      /\ Len(s) = IF pos + 1 <= end THEN end - (pos + 1) + 1 ELSE 0
      /\ \A i \in 1..end - (pos + 1) + 1 : s[i] = h[pos + 1 + i - 1]
  BY <1>1, <1>2, SubSeqProperties
<1>4. end - (pos + 1) + 1 = end - pos /\ \A i \in 1..end - pos : pos + 1 + i - 1 = pos + i
  OBVIOUS
<1> HIDE DEF s
<1>5. PieceOf(s, h, pos, end)
  BY <1>2, <1>3, <1>4 DEF PieceOf
<1> QED BY <1>5 DEF s

\* What is in the buffer is what comes next.
LEMMA ComesNext ==
  ASSUME NEW page, LaidPage(page), NEW c \in 0..Len(page) - 1, NEW W, W = Written(page[c + 1]),
         NEW o \in Nat, NEW pos \in Nat, pos = ItemEnd(page, c) + o, NEW end \in Nat,
         o < Len(W), pos < end, end <= Len(Html(page)), NEW all, all => end = Len(Html(page)),
         NEW s, PieceOf(s, Html(page), pos, end)
  PROVE  Upcoming(W, o, s, all)
<1> DEFINE h == Html(page)
           b == ItemEnd(page, c)
           f == ItemEnd(page, c + 1)
<1>1. LaidItem(page, c, page[c + 1], W) /\ Len(h) \in Nat
  BY DEF LaidPage
<1>2. /\ W \in Seq(Chars) /\ Len(W) \in Nat /\ b \in Nat /\ f = b + Len(W) /\ f <= Len(h)
      /\ \A j \in 1..Len(W) : h[b + j] = W[j]
  BY <1>1 DEF LaidItem
<1>3. pos = b + o /\ end <= Len(h) /\ (all => end = Len(h))
  OBVIOUS
<1>4. s \in Seq(Chars) /\ Len(s) = end - pos /\ \A i \in 1..end - pos : s[i] = h[pos + i]
  BY DEF PieceOf
<1> HIDE DEF h, b, f
<1>5. Len(s) \in Nat \ {0}
  BY <1>3, <1>4
<1>6. \A i \in 1..Len(s) : o + i <= Len(W) => s[i] = W[o + i]
  <2> SUFFICES ASSUME NEW i \in 1..Len(s), o + i <= Len(W) PROVE s[i] = W[o + i]
    OBVIOUS
  <2>1. i \in 1..end - pos
    BY <1>4
  <2>2. o + i \in 1..Len(W)
    BY <1>2, <2>1
  <2>3. b + (o + i) = pos + i
    <3>1. b \in Nat /\ pos = b + o
      BY <1>2, <1>3
    <3>2. i \in Nat
      OBVIOUS
    <3>3. \A x, y, z \in Nat : x + (y + z) = (x + y) + z
      OBVIOUS
    <3>4. b + (o + i) = (b + o) + i
      BY <3>1, <3>2, <3>3, Zenon
    <3> QED BY <3>1, <3>4, Zenon
  <2> QED BY <1>2, <1>4, <2>1, <2>2, <2>3
<1>7. all => Len(s) >= Len(W) - o
  BY <1>1, <1>2, <1>3, <1>4
<1> QED BY <1>2, <1>4, <1>5, <1>6, <1>7 DEF Upcoming

LEMMA BehindPiece ==
  ASSUME NEW b \in Nat, NEW pos \in Nat, NEW end \in Nat, NEW y \in Nat,
         end <= y, end - pos > b
  PROVE  pos + b < y /\ b + 1 \in 1..end - pos /\ pos + b + 1 = pos + (b + 1)
OBVIOUS

\* A text ends where something else begins.
LEMMA TextStops ==
  ASSUME NEW page, Ordinary(page), NEW c \in 0..Len(page) - 1, page[c + 1].kind = "text",
         NEW W, W = Written(page[c + 1]),
         NEW end \in Nat, end <= Len(Html(page)), NEW pos \in Nat, pos = ItemEnd(page, c),
         NEW s, PieceOf(s, Html(page), pos, end), Len(s) > Len(W)
  PROVE  s[Len(W) + 1] = "<"
<1> DEFINE h == Html(page)
           f == ItemEnd(page, c + 1)
           V == Written(page[c + 2])
<1>1. LaidPage(page)
  BY PageLaid
<1>2. LaidItem(page, c, page[c + 1], W) /\ Len(h) \in Nat
  BY <1>1 DEF LaidPage
<1>3. Len(W) \in Nat /\ f = pos + Len(W) /\ f <= Len(h) /\ end <= Len(h)
  BY <1>2 DEF LaidItem
<1>4. Len(s) = end - pos /\ \A i \in 1..end - pos : s[i] = h[pos + i]
  BY DEF PieceOf
<1> HIDE DEF h, f, V
<1>5. f < Len(h) /\ Len(W) + 1 \in 1..end - pos /\ f + 1 = pos + (Len(W) + 1)
  <2> DEFINE b == Len(W)
             x == Len(s)
             y == Len(h)
  <2>1. b \in Nat /\ f = pos + b /\ f <= y /\ end <= y
    BY <1>3
  <2>2. y \in Nat /\ x = end - pos /\ x > b
    BY <1>2, <1>4
  <2> HIDE DEF b, x, y
  <2>3. end - pos > b
    BY <2>2, Zenon
  <2>4. pos + b < y /\ b + 1 \in 1..end - pos /\ pos + b + 1 = pos + (b + 1)
    BY <2>1, <2>2, <2>3, BehindPiece, Zenon
  <2>5. f < y /\ b + 1 \in 1..end - pos /\ f + 1 = pos + (b + 1)
    BY <2>1, <2>4, Zenon
  <2> QED BY <2>5 DEF b, y
<1>6. c + 1 # Len(page)
  <2>1. Len(h) = ItemEnd(page, Len(page))
    BY <1>1 DEF LaidPage, h
  <2>2. c + 1 = Len(page) => Len(h) = f
    BY <2>1 DEF f
  <2> QED BY <1>2, <1>5, <2>2
<1>7. Len(page) \in Nat /\ DOMAIN page = 1..Len(page)
  BY <1>1 DEF LaidPage, PageTyped
<1>8. c + 1 \in 0..Len(page) - 1 /\ c + 2 \in 1..Len(page) /\ (c + 1) + 1 = c + 2 /\ c + 2 > 1 /\ (c + 2) - 1 = c + 1
  <2>1. \A N \in Nat : \A d \in 0..N - 1 : d + 1 # N =>
          /\ d + 1 \in 0..N - 1 /\ d + 2 \in 1..N
          /\ (d + 1) + 1 = d + 2 /\ d + 2 > 1 /\ (d + 2) - 1 = d + 1
    OBVIOUS
  <2> QED BY <1>6, <1>7, <2>1, Zenon
<1>9. page[c + 2].kind # "text"
  <2>1. page[c + 2].kind = "text" => page[(c + 2) - 1].kind # "text"
    BY <1>7, <1>8 DEF Ordinary
  <2> QED BY <1>8, <2>1
<1>10. LaidItem(page, c + 1, page[c + 2], V)
  BY <1>1, <1>8 DEF LaidPage, V
<1>11. /\ OrdinaryItem(page[c + 2]) /\ Len(V) \in Nat /\ Len(V) > 0
       /\ \A j \in 1..Len(V) : h[f + j] = V[j]
  BY <1>10 DEF LaidItem, h, f
<1>12. V[1] = "<"
  BY <1>9, <1>11, WrittenIs DEF V
<1>13. h[f + 1] = "<"
  <2>1. 1 \in 1..Len(V)
    BY <1>11
  <2> QED BY <1>11, <1>12, <2>1
<1> QED BY <1>4, <1>5, <1>13

LEMMA SameTaken ==
  ASSUME NEW page, NEW c, NEW p, Taken(page, c, p), NEW q, Same(p, q)
  PROVE  Taken(page, c, q)
<1>1. q.frames = p.frames /\ q.nodes = p.nodes /\ q.dom = p.dom
  BY DEF Same
<1>2. NodesSoFar(page, c, p) => NodesSoFar(page, c, q)
  BY <1>1, Zenon DEF NodesSoFar
<1>3. \A k : Contents(p, k) = Contents(q, k)
  BY <1>1, Zenon DEF Contents
<1>4. \A st : Stacked(page, c, p, st) => Stacked(page, c, q, st)
  <2> SUFFICES ASSUME NEW st, Stacked(page, c, p, st) PROVE Stacked(page, c, q, st)
    OBVIOUS
  <2> QED BY <1>1, <1>3, Zenon DEF Stacked
<1> QED BY <1>1, <1>2, <1>4, Zenon DEF Taken

LEMMA ReadHere ==
  ASSUME NEW page, LaidPage(page), NEW pos \in Nat, pos < Len(Html(page)),
         NEW p, NEW l, Read(page, pos, p, l)
  PROVE  \E c \in 0..Len(page) - 1 : \E o \in Nat : HereIn(page, c, o, pos, p, l)
<1> DEFINE N == Len(page)
<1>1. PICK c \in 0..N : Taken(page, c, p) /\ (Between(page, c, pos, p, l) \/ Inside(page, c, pos, p, l))
  BY DEF Read
<1>2. N \in Nat
  BY DEF LaidPage, PageTyped
<1>3. c < N
  <2>1. CASE Inside(page, c, pos, p, l)
    BY <2>1 DEF Inside
  <2>2. CASE Between(page, c, pos, p, l)
    <3>1. pos = ItemEnd(page, c) /\ Len(Html(page)) = ItemEnd(page, N)
      BY <2>2 DEF Between, LaidPage
    <3>2. c # N
      BY <3>1
    <3> HIDE DEF N
    <3> QED BY <1>2, <3>2
  <2> QED BY <1>1, <2>1, <2>2
<1> HIDE DEF N
<1>4. c \in 0..N - 1
  BY <1>2, <1>3
<1>5. LaidItem(page, c, page[c + 1], Written(page[c + 1])) /\ ItemEnd(page, c) \in Nat
  BY <1>1, <1>4 DEF LaidPage, N
<1> DEFINE W == Written(page[c + 1])
           b == ItemEnd(page, c)
<1>6. Len(W) \in Nat /\ Len(W) > 0 /\ b \in Nat /\ OrdinaryItem(page[c + 1])
  BY <1>5 DEF LaidItem
<1>7. CASE Between(page, c, pos, p, l)
  <2>1. pos = b + 0
    BY <1>6, <1>7 DEF Between
  <2>2. Here(page[c + 1], 0, p, l, PageCost(page, c))
    BY <1>7, Zenon DEF Between, Here, Begins
  <2>3. HereIn(page, c, 0, pos, p, l) /\ 0 \in Nat
    BY <1>1, <1>6, <2>1, <2>2 DEF HereIn
  <2> QED BY <1>4, <2>3, Zenon DEF N
<1>8. CASE Inside(page, c, pos, p, l)
  <2> DEFINE o == pos - b
  <2>1. /\ Place(page[c + 1], o, p, l, PageCost(page, c))
        /\ page[c + 1].kind # "open" => (p.dom => p.prots = <<>>)
    BY <1>8, Zenon DEF Inside
  <2>2. o \in Nat /\ o < Len(W)
    <3> HIDE DEF o
    <3> QED BY <1>6, <2>1, PlaceInside
  <2>3. pos = b + o
    BY <1>6
  <2> HIDE DEF o
  <2>4. Here(page[c + 1], o, p, l, PageCost(page, c))
    BY <2>1, Zenon DEF Here
  <2>5. HereIn(page, c, o, pos, p, l)
    BY <1>1, <2>2, <2>3, <2>4, Zenon DEF HereIn, W, b
  <2> QED BY <1>4, <2>2, <2>5, Zenon DEF N
<1> QED BY <1>1, <1>7, <1>8

LEMMA ReadEnd ==
  ASSUME NEW page, LaidPage(page), NEW p, NEW l, Read(page, Len(Html(page)), p, l)
  PROVE  Taken(page, Len(page), p) /\ p.at = "doc" /\ Spent(p, PageCost(page, Len(page)))
<1> DEFINE N == Len(page)
           h == Len(Html(page))
<1>1. PICK c \in 0..N : Taken(page, c, p) /\ (Between(page, c, h, p, l) \/ Inside(page, c, h, p, l))
  BY DEF Read
<1>2. N \in Nat /\ h \in Nat
  BY DEF LaidPage, PageTyped
<1>3. ASSUME c # N PROVE FALSE
  <2> HIDE DEF N, h
  <2>1. c \in 0..N - 1
    BY <1>2, <1>3
  <2>2. LaidItem(page, c, page[c + 1], Written(page[c + 1]))
    BY <2>1 DEF LaidPage, N
  <2> DEFINE L == Len(Written(page[c + 1]))
             b == ItemEnd(page, c)
             f == ItemEnd(page, c + 1)
  <2>3. /\ L \in Nat /\ L > 0 /\ b \in Nat /\ f = b + L /\ f <= h /\ OrdinaryItem(page[c + 1])
    BY <2>2 DEF LaidItem, h
  <2>4. CASE Between(page, c, h, p, l)
    <3>1. h = b
      BY <2>4 DEF Between
    <3> HIDE DEF L, b, f
    <3> QED BY <1>2, <2>3, <3>1
  <2>5. CASE Inside(page, c, h, p, l)
    <3> DEFINE o == h - b
    <3>1. Place(page[c + 1], o, p, l, PageCost(page, c))
      BY <2>5 DEF Inside
    <3>2. o < L
      <4> HIDE DEF o
      <4> QED BY <2>3, <3>1, PlaceInside
    <3> HIDE DEF L, b, f
    <3> QED BY <1>2, <2>3, <3>2
  <2> QED BY <1>1, <2>4, <2>5
<1>4. c = N
  BY <1>3
<1>5. Between(page, N, h, p, l)
  <2>1. ~Inside(page, N, h, p, l)
    <3> HIDE DEF h
    <3>1. ~(N < N)
      BY <1>2
    <3> QED BY <3>1 DEF Inside
  <2> QED BY <1>1, <1>4, <2>1
<1> QED BY <1>1, <1>4, <1>5, Zenon DEF Between

LEMMA AfterRead ==
  ASSUME NEW page, LaidPage(page), NEW c \in 0..Len(page) - 1, NEW o \in Nat, NEW k \in Nat,
         NEW pos, pos = ItemEnd(page, c) + o, NEW p, Growing(p), Taken(page, c, p),
         NEW q, Growing(q), NEW l,
         After(page[c + 1], Written(page[c + 1]), o + k, p, q, l, PageCost(page, c))
  PROVE  Read(page, pos + k, q, l)
<1> DEFINE N == Len(page)
           item == page[c + 1]
           W == Written(item)
           b == ItemEnd(page, c)
           f == ItemEnd(page, c + 1)
           e == o + k
           n == PageCost(page, c)
<1>1. N \in Nat /\ PageTyped(page) /\ LaidItem(page, c, item, W)
  BY DEF LaidPage, PageTyped
<1>2. /\ OrdinaryItem(item) /\ Len(W) \in Nat /\ b \in Nat /\ f = b + Len(W)
      /\ n \in Nat /\ PageCost(page, c + 1) = n + Cost(item)
  BY <1>1 DEF LaidItem
<1>3. c \in 0..N /\ c + 1 \in 0..N /\ c < N
  BY <1>1
<1>4. pos + k = b + e /\ e \in Nat /\ (b + e) - b = e /\ b + 0 = b
  BY <1>2
<1>5. After(item, W, e, p, q, l, n)
  OBVIOUS
<1> HIDE DEF N, item, W, b, f, e, n
<1>6. CASE Same(p, q) /\ Here(item, e, q, l, n)
  <2>1. Taken(page, c, q)
    BY <1>6, SameTaken
  <2>2. CASE e = 0 /\ Begins(q, l, n)
    <3>1. Between(page, c, b + e, q, l)
      BY <1>4, <2>2, Zenon DEF Between, Begins, b, n
    <3> QED BY <1>3, <1>4, <2>1, <3>1, Zenon DEF Read, N
  <2>3. CASE Place(item, e, q, l, n) /\ (item.kind # "open" => (q.dom => q.prots = <<>>))
    <3>1. Inside(page, c, b + e, q, l)
      BY <1>3, <1>4, <2>3, Zenon DEF Inside, b, n, item, N
    <3> QED BY <1>3, <1>4, <2>1, <3>1, Zenon DEF Read, N
  <2> QED BY <1>6, <2>2, <2>3, Zenon DEF Here
<1>7. CASE e = Len(W) /\ Grown(item, p, q) /\ Begins(q, l, n + Cost(item))
  <2>1. Between(page, c + 1, b + e, q, l)
    BY <1>2, <1>7, Zenon DEF Between, Begins, f
  <2>2. Taken(page, c + 1, q)
    <3>1. Typed(q) /\ item.kind \in {"open", "close", "text", "comment", "meta"}
      BY <1>2, WrittenIs DEF Growing
    <3>2. CASE item.kind = "open"
      <4>1. PICK prots : OpenGrown(p, q, prots) /\ (p.dom => prots = MeantProts(item.prots))
        BY <1>7, <3>2, Zenon DEF Grown
      <4> QED BY <1>1, <3>1, <3>2, <4>1, OpenTaken DEF item
    <3>3. CASE item.kind = "close"
      <4>1. CloseGrown(p, q) /\ Len(p.frames) > 1
        BY <1>7, <3>3, Zenon DEF Grown
      <4> QED BY <1>1, <3>1, <3>3, <4>1, CloseTaken DEF item
    <3>4. CASE item.kind = "text"
      <4>1. TextGrown(p, q, item.text)
        BY <1>7, <3>4, Zenon DEF Grown
      <4> QED BY <1>1, <3>1, <3>4, <4>1, TextTaken DEF item
    <3>5. CASE item.kind \in {"comment", "meta"}
      <4>1. Same(p, q)
        BY <1>7, <3>5, Zenon DEF Grown
      <4> QED BY <1>1, <3>5, <4>1, SilentTaken DEF item
    <3> QED BY <3>1, <3>2, <3>3, <3>4, <3>5
  <2> QED BY <1>3, <1>4, <2>1, <2>2, Zenon DEF Read, N
<1> QED BY <1>5, <1>6, <1>7, Zenon DEF After

LEMMA FailsFor ==
  ASSUME NEW page, LaidPage(page), NEW c \in 0..Len(page) - 1, NEW p, Growing(p), Taken(page, c, p),
         Fails(page[c + 1], p)
  PROVE  HasSurplusClose(page) \/ HasNoValue(page)
<1>1. PageTyped(page) /\ Len(page) \in Nat
  BY DEF LaidPage, PageTyped
<1>2. CASE page[c + 1].kind = "close" /\ ~(Len(p.frames) > 1)
  <2>1. Rise(page, c) = 0
    <3>1. c \in 0..Len(page)
      BY <1>1
    <3>2. c \in 0..c
      BY <1>1
    <3> DEFINE d == Len(p.frames)
               x == Rise(page, c)
    <3>3. d = 1 + x
      BY DEF Taken
    <3>4. x \in Int
      BY <1>1, <3>1, RiseIs DEF RiseSteps
    <3>5. d \in Nat /\ d > 0 /\ ~(d > 1)
      BY <1>2, FramesLen DEF Growing
    <3> HIDE DEF d, x
    <3>6. x = 0
      BY <3>3, <3>4, <3>5
    <3> QED BY <3>6 DEF x
  <2> QED BY <1>1, <1>2, <2>1, SurplusClose
<1>3. CASE page[c + 1].kind = "open" /\ \E k \in DOMAIN page[c + 1].prots :
             page[c + 1].prots[k].form = "plain" /\ page[c + 1].prots[k].value = <<>>
  <2>1. c + 1 \in DOMAIN page
    BY <1>1 DEF PageTyped
  <2> QED BY <1>3, <2>1, Zenon DEF HasNoValue
<1> QED BY <1>2, <1>3, Zenon DEF Fails

LEMMA ReadsOn ==
  ASSUME NEW page, Ordinary(page), NEW pos \in Nat, NEW end \in Nat, pos < end, end <= Len(Html(page)),
         NEW s, PieceOf(s, Html(page), pos, end), NEW all, all => end = Len(Html(page)),
         NEW p, Growing(p), NEW l, Read(page, pos, p, l),
         NEW m, m = LongestMatch(l, s), m.open => all, NEW r, r = Push(p, m.token, m.text)
  PROVE  Reads(page, pos, s, p, m, r)
<1>1. LaidPage(page) /\ Len(page) \in Nat
  BY PageLaid DEF LaidPage, PageTyped
<1>2. pos < Len(Html(page))
  BY <1>1 DEF LaidPage
<1>3. PICK c \in 0..Len(page) - 1 : \E o \in Nat : HereIn(page, c, o, pos, p, l)
  BY <1>1, <1>2, ReadHere
<1>4. PICK o \in Nat : HereIn(page, c, o, pos, p, l)
  BY <1>3
<1> DEFINE item == page[c + 1]
           W == Written(item)
           n == PageCost(page, c)
           b == ItemEnd(page, c)
<1>5. /\ Taken(page, c, p) /\ o < Len(W) /\ pos = b + o /\ Here(item, o, p, l, n)
  BY <1>4, Zenon DEF HereIn
<1>6. LaidItem(page, c, item, W)
  BY <1>1 DEF LaidPage
<1>7. OrdinaryItem(item) /\ n \in Nat /\ b \in Nat
  BY <1>6 DEF LaidItem
<1> HIDE DEF n, b, W, item
<1>8. Upcoming(W, o, s, all)
  BY <1>1, <1>5, ComesNext DEF W, item, b
<1>9. item.kind = "text" /\ o = 0 /\ Len(s) > Len(W) => s[Len(W) + 1] = "<"
  <2> SUFFICES ASSUME item.kind = "text", o = 0, Len(s) > Len(W) PROVE s[Len(W) + 1] = "<"
    OBVIOUS
  <2>1. pos = b
    BY <1>5, <1>7
  <2> QED BY <2>1, TextStops DEF W, item, b
<1>10. Goes(item, W, o, s, p, n, m, r)
  BY <1>5, <1>7, <1>8, <1>9, GoesOn DEF W
<1>11. \A k \in Nat : \A q, x : Growing(q) /\ After(item, W, o + k, p, q, x, n) => Read(page, pos + k, q, x)
  <2> SUFFICES ASSUME NEW k \in Nat, NEW q, NEW x, Growing(q), After(item, W, o + k, p, q, x, n)
               PROVE  Read(page, pos + k, q, x)
    OBVIOUS
  <2> QED BY <1>1, <1>5, AfterRead DEF item, W, n, b
<1>12. ~m.back => m.len \in Nat /\ m.len <= Len(s)
  BY <1>10, Zenon DEF Goes
<1>13. m.token = "none" /\ ~m.back => Read(page, pos + m.len, p, m.next)
  BY <1>10, <1>11, <1>12, Zenon DEF Goes
<1>14. m.back => m.token = "none" /\ Read(page, pos, p, m.next)
  <2> SUFFICES ASSUME m.back PROVE m.token = "none" /\ Read(page, pos, p, m.next)
    OBVIOUS
  <2>1. m.token = "none" /\ Here(item, o, p, m.next, n)
    BY <1>10, Zenon DEF Goes
  <2>2. Same(p, p)
    BY SameItself
  <2>3. After(item, W, o + 0, p, p, m.next, n)
    <3>1. o + 0 = o
      OBVIOUS
    <3> QED BY <1>5, <2>1, <2>2, <3>1, Zenon DEF After
  <2>4. Read(page, pos + 0, p, m.next)
    BY <1>11, <2>3
  <2> QED BY <2>1, <2>4
<1>15. m.token # "none" =>
         \/ r.out = "more" /\ Read(page, pos + m.len, r.parser, m.next)
         \/ r.out = "refused" /\ (HasSurplusClose(page) \/ HasNoValue(page))
  <2> SUFFICES ASSUME m.token # "none"
               PROVE  \/ r.out = "more" /\ Read(page, pos + m.len, r.parser, m.next)
                      \/ r.out = "refused" /\ (HasSurplusClose(page) \/ HasNoValue(page))
    OBVIOUS
  <2>1. \/ r.out = "more" /\ After(item, W, o + m.len, p, r.parser, m.next, n)
        \/ r.out = "refused" /\ Fails(item, p)
    BY <1>10, Zenon DEF Goes
  <2>2. ~m.back
    BY <1>14
  <2>3. CASE r.out = "more" /\ After(item, W, o + m.len, p, r.parser, m.next, n)
    <3>1. Result(p, r)
      BY PushResult
    <3>2. Growing(r.parser)
      BY <2>3, <3>1, Zenon DEF Result
    <3> QED BY <1>11, <1>12, <2>2, <2>3, <3>2, Zenon
  <2>4. CASE r.out = "refused" /\ Fails(item, p)
    BY <1>1, <1>5, <2>4, FailsFor DEF item
  <2> QED BY <2>1, <2>3, <2>4
<1> QED BY <1>12, <1>13, <1>14, <1>15, Zenon DEF Reads

-----------------------------------------------------------------------------
(* Characters that are put back, and values.                               *)

LEMMA MinIs ==
  ASSUME NEW S \in SUBSET Nat, S # {}
  PROVE  Min(S) \in S /\ \A y \in S : Min(S) <= y
<1>1. \E x \in S : \A y \in S : x <= y
  <2> SUFFICES ASSUME \A x \in S : ~\A y \in S : x <= y PROVE FALSE
    OBVIOUS
  <2> DEFINE T == {n \in Nat : \A y \in S : n <= y}
  <2>1. 0 \in T
    OBVIOUS
  <2>2. \A n \in T : n + 1 \in T
    <3> SUFFICES ASSUME NEW n \in T PROVE n + 1 \in T
      OBVIOUS
    <3>1. n \in Nat /\ (\A y \in S : n <= y) /\ n \notin S
      OBVIOUS
    <3>2. \A y \in S : n + 1 <= y
      BY <3>1
    <3> QED BY <3>1, <3>2
  <2>3. Nat \subseteq T
    <3>1. T \in SUBSET Nat
      OBVIOUS
    <3> HIDE DEF T
    <3> QED BY <2>1, <2>2, <3>1, SetInduction
  <2>4. PICK y \in S : TRUE
    OBVIOUS
  <2>5. y \in Nat /\ y + 1 \in T
    BY <2>3, <2>4
  <2> QED BY <2>4, <2>5
<1> QED BY <1>1, Zenon DEF Min

LEMMA SpanSome ==
  ASSUME NEW s \in Seq(Chars), NEW C, Len(s) > 0, Span(s, C) = 0
  PROVE  s[1] \notin C
<1> DEFINE stops == {i \in DOMAIN s : s[i] \notin C}
<1>1. Len(s) \in Nat /\ DOMAIN s = 1..Len(s)
  BY LenProperties
<1>2. Span(s, C) = IF stops = {} THEN Len(s) ELSE Min(stops) - 1
  BY Zenon DEF Span
<1>3. stops # {} /\ Min(stops) - 1 = 0
  BY <1>1, <1>2
<1>4. stops \in SUBSET Nat
  BY <1>1
<1>5. Min(stops) \in stops
  <2> HIDE DEF stops
  <2> QED BY <1>3, <1>4, MinIs
<1>6. Min(stops) = 1
  BY <1>3, <1>4, <1>5
<1> QED BY <1>5, <1>6

LEMMA SpanNat ==
  ASSUME NEW s \in Seq(Chars), NEW C
  PROVE  Span(s, C) \in Nat
<1> DEFINE stops == {i \in DOMAIN s : s[i] \notin C}
<1>1. Len(s) \in Nat /\ DOMAIN s = 1..Len(s)
  BY LenProperties
<1>2. Span(s, C) = IF stops = {} THEN Len(s) ELSE Min(stops) - 1
  BY Zenon DEF Span
<1>3. stops \in SUBSET Nat /\ \A i \in stops : i \in Nat \ {0}
  BY <1>1
<1> HIDE DEF stops
<1>4. stops # {} => Min(stops) \in Nat \ {0}
  BY <1>3, MinIs
<1> QED BY <1>1, <1>2, <1>4

LEMMA KeptMatch ==
  ASSUME NEW n, NEW open, NEW next, next # "noquote", NEW token, NEW s, NEW k
  PROVE  /\ Keeps(Match(n, open, next, token)) /\ Keeps(Eats(n, open, next))
         /\ Keeps(TextOf(Match(n, open, next, token), s, k))
BY DEF Keeps, Match, Eats, TextOf

LEMMA KeepsElsewhere ==
  ASSUME NEW s, NEW l, l \in LexStates \ {"prot_value", "noquote"}
  PROVE  Keeps(LongestMatch(l, s))
<1>1. CASE l = "initial"
  <2>1. Keeps(InInitial(s))
    BY KeptMatch DEF InInitial
  <2> QED BY <1>1, <2>1 DEF LongestMatch
<1>2. CASE l = "comment"
  <2>1. Keeps(InComment(s))
    BY KeptMatch DEF InComment
  <2> QED BY <1>2, <2>1 DEF LongestMatch
<1>3. CASE l = "meta"
  <2>1. Keeps(InMeta(s))
    BY KeptMatch DEF InMeta
  <2> QED BY <1>3, <2>1 DEF LongestMatch
<1>4. CASE l = "tag_name"
  <2>1. Keeps(InTagName(s))
    BY KeptMatch DEF InTagName
  <2> QED BY <1>4, <2>1 DEF LongestMatch
<1>5. CASE l = "prot_name"
  <2>1. Keeps(InProtName(s))
    BY KeptMatch DEF InProtName
  <2> QED BY <1>5, <2>1 DEF LongestMatch
<1>6. CASE l = "quoted"
  <2>1. Keeps(InQuoted(s))
    BY KeptMatch DEF InQuoted
  <2> QED BY <1>6, <2>1 DEF LongestMatch
<1> QED BY <1>1, <1>2, <1>3, <1>4, <1>5, <1>6 DEF LexStates

\* What is put back, and in front of what.
LEMMA BackRules ==
  ASSUME NEW s \in Seq(Chars), Len(s) > 0, NEW l \in LexStates, NEW m, m = LongestMatch(l, s)
  PROVE  \/ Keeps(m)
         \/ l = "prot_value" /\ Backs(m, "noquote") /\ s[1] \notin {"s", "q"}
         \/ l = "noquote" /\ Backs(m, "prot_name") /\ s[1] \in {"s", "<", ">"}
<1>1. CASE l \notin {"prot_value", "noquote"}
  BY <1>1, KeepsElsewhere
<1>2. CASE l = "prot_value"
  <2>1. CASE s[1] = "s"
    <3>1. Span(s, {"s"}) # 0
      BY <2>1, SpanSome
    <3>2. Span(s, {"s"}) > 0 => Keeps(InProtValue(s))
      BY KeptMatch DEF InProtValue
    <3>3. Span(s, {"s"}) > 0
      BY <2>1, <3>1, SpanNat
    <3> QED BY <1>2, <3>2, <3>3 DEF LongestMatch
  <2>2. CASE s[1] = "q"
    <3>1. Takes(m, s, 1, "quoted", "none")
      BY <1>2, <2>2, LexQuote
    <3> QED BY <3>1 DEF Takes, Keeps
  <2>3. CASE s[1] \notin {"s", "q"}
    BY <1>2, <2>3, LexNoQuote
  <2> QED BY <2>1, <2>2, <2>3
<1>3. CASE l = "noquote"
  <2>1. CASE s[1] \in {"s", "<", ">"}
    BY <1>3, <2>1, LexNoValue
  <2>2. CASE s[1] \notin {"s", "<", ">"}
    <3> DEFINE C == Chars \ {"s", "<", ">"}
    <3>1. s[1] \in C
      <4>1. 1 \in 1..Len(s)
        BY LenProperties
      <4> QED BY <2>2, <4>1, ElementOfSeq
    <3> HIDE DEF C
    <3>2. Span(s, C) # 0
      BY <3>1, SpanSome
    <3>3. Span(s, C) > 0
      BY <3>2, SpanNat
    <3>4. m = TextOf(Match(Span(s, C), Span(s, C) = Len(s), "prot_name", "TEXT"), s, Span(s, C))
      BY <1>3, <3>3 DEF LongestMatch, InNoQuote, C
    <3> DEFINE k == Span(s, C)
               open == k = Len(s)
    <3>5. m = TextOf(Match(k, open, "prot_name", "TEXT"), s, k)
      BY <3>4
    <3> HIDE DEF k, open
    <3> QED BY <3>5, KeptMatch
  <2> QED BY <2>1, <2>2
<1> QED BY <1>1, <1>2, <1>3

\* Only white space in front of a value is more than a character, or may go on.
LEMMA ValueRules ==
  ASSUME NEW s \in Seq(Chars), Len(s) > 0, s[1] # "s", NEW m, m = LongestMatch("prot_value", s)
  PROVE  m.len = 1 /\ ~m.open
<1>1. CASE s[1] = "q"
  BY <1>1, LexQuote DEF Takes
<1>2. CASE s[1] # "q"
  <2>1. Backs(m, "noquote")
    BY <1>2, LexNoQuote
  <2> QED BY <2>1 DEF Backs
<1> QED BY <1>1, <1>2

LEMMA ReadLex ==
  ASSUME NEW page, NEW pos, NEW p, NEW l, Read(page, pos, p, l)
  PROVE  l \in LexStates
<1>1. ASSUME NEW item, NEW o, NEW n, Place(item, o, p, l, n) PROVE l \in LexStates
  BY <1>1 DEF Place, CommentPlace, MetaPlace, ClosePlace, EndPlace, NamePlace, ProtsPlace, EqualPlace,
              ValuePlace, QuotedPlace, LexStates
<1>2. \A c : Between(page, c, pos, p, l) => l \in LexStates
  BY DEF Between, LexStates
<1>3. \A c : Inside(page, c, pos, p, l) => l \in LexStates
  BY <1>1, Zenon DEF Inside
<1> QED BY <1>2, <1>3, Zenon DEF Read

LEMMA ValueFirst ==
  ASSUME NEW item, item.kind = "open", NEW W, NEW o, NEW p, NEW n, NEW k, AtValue(item, W, k, o, p, n),
         item.prots[k].form # "bare"
  PROVE  W[o] = "=" /\ W[o + 1] # "s"
<1> DEFINE e == ProtEnd(item.prots, k - 1)
           v == item.prots[k].value
<1>1. /\ PropSpelled(item, W, k, e, v) /\ e \in Nat /\ o = e + 5
  BY DEF AtValue
<1>2. W[o] = "=" /\ item.prots[k].form \in {"quoted", "plain"}
  BY <1>1 DEF PropSpelled
<1>3. o + 1 = e + 6
  <2> HIDE DEF e
  <2> QED BY <1>1
<1>4. CASE item.prots[k].form = "quoted"
  <2>1. W[e + 6] = "q"
    BY <1>1, <1>4 DEF PropSpelled
  <2> QED BY <1>2, <1>3, <2>1
<1>5. CASE item.prots[k].form = "plain"
  <2>1. CASE v = <<>>
    <3>1. W[o + 1] = ">"
      BY <1>5, <2>1, EmptyIs
    <3> QED BY <1>2, <3>1
  <2>2. CASE v # <<>>
    <3>1. /\ \A j \in 1..Len(v) : v[j] \notin {"s", "<", ">"} /\ W[e + 5 + j] = v[j]
          /\ Len(v) > 0 /\ Len(v) \in Nat
      BY <1>1, <1>5, <2>2 DEF PropSpelled
    <3>2. 1 \in 1..Len(v) /\ e + 5 + 1 = e + 6
      <4> HIDE DEF v, e
      <4> QED BY <1>1, <3>1
    <3>3. W[e + 6] = v[1] /\ v[1] # "s"
      BY <3>1, <3>2
    <3> QED BY <1>2, <1>3, <3>3
  <2> QED BY <2>1, <2>2
<1> QED BY <1>2, <1>4, <1>5

\* A value is behind an "=", and there is no white space between them.
LEMMA ReadValue ==
  ASSUME NEW page, Ordinary(page), NEW pos \in Nat, pos < Len(Html(page)),
         NEW p, Read(page, pos, p, "prot_value")
  PROVE  pos > 0 /\ Html(page)[pos] = "=" /\ Html(page)[pos + 1] # "s"
<1>1. LaidPage(page) /\ Len(page) \in Nat
  BY PageLaid DEF LaidPage, PageTyped
<1>2. PICK c \in 0..Len(page) - 1 : \E o \in Nat : HereIn(page, c, o, pos, p, "prot_value")
  BY <1>1, ReadHere
<1>3. PICK o \in Nat : HereIn(page, c, o, pos, p, "prot_value")
  BY <1>2
<1> DEFINE item == page[c + 1]
           W == Written(item)
           n == PageCost(page, c)
           b == ItemEnd(page, c)
           h == Html(page)
<1>4. /\ o < Len(W) /\ pos = b + o /\ Here(item, o, p, "prot_value", n)
  BY <1>3, Zenon DEF HereIn
<1>5. LaidItem(page, c, item, W)
  BY <1>1 DEF LaidPage
<1>6. /\ OrdinaryItem(item) /\ n \in Nat /\ b \in Nat /\ W \in Seq(Chars) /\ Len(W) \in Nat
      /\ \A j \in 1..Len(W) : h[b + j] = W[j]
  BY <1>5 DEF LaidItem
<1> HIDE DEF n, b, item, h
<1>7. W = Written(item)
  OBVIOUS
<1> HIDE DEF W
<1>8. Place(item, o, p, "prot_value", n)
  BY <1>4, Zenon DEF Here, Begins
<1>9. \E k \in 1..Len(item.prots) : ValuePlace(item, k, o, p, "prot_value", n)
  BY <1>8 DEF Place, CommentPlace, MetaPlace, ClosePlace, EndPlace, NamePlace, ProtsPlace, EqualPlace,
              QuotedPlace
<1>10. PICK k \in 1..Len(item.prots) : ValuePlace(item, k, o, p, "prot_value", n)
  BY <1>9
<1>11. AtValue(item, W, k, o, p, n) /\ item.kind = "open" /\ item.prots[k].form # "bare"
  BY <1>6, <1>7, <1>10, ValueIs
<1> DEFINE e == ProtEnd(item.prots, k - 1)
           v == item.prots[k].value
<1>12. /\ e \in Nat /\ o = e + 5 /\ PropSpelled(item, W, k, e, v)
  BY <1>11 DEF AtValue
<1> HIDE DEF e, v
<1>13. W[o] = "=" /\ W[o + 1] # "s"
  BY <1>11, <1>12, ValueFirst
<1>14. o \in 1..Len(W) /\ o + 1 \in 1..Len(W) /\ pos > 0 /\ b + (o + 1) = pos + 1
  <2> DEFINE N == Len(W)
  <2>1. e \in Nat /\ o = e + 5
    BY <1>12
  <2>2. b \in Nat /\ N \in Nat
    BY <1>6
  <2>3. o < N /\ pos = b + o
    BY <1>4
  <2> HIDE DEF N
  <2>4. o \in 1..N /\ o + 1 \in 1..N /\ pos > 0 /\ b + (o + 1) = pos + 1
    BY <2>1, <2>2, <2>3
  <2> QED BY <2>4 DEF N
<1>15. h[b + o] = "=" /\ h[b + (o + 1)] # "s"
  BY <1>6, <1>13, <1>14
<1> QED BY <1>4, <1>14, <1>15 DEF h

-----------------------------------------------------------------------------
(* Decoding.                                                               *)

LEMMA PiecesJoin ==
  ASSUME NEW h, NEW x \in Nat, NEW y \in Nat, NEW z \in Nat, x <= y, y <= z,
         NEW a, PieceOf(a, h, x, y), NEW b, PieceOf(b, h, y, z)
  PROVE  PieceOf(a \o b, h, x, z)
<1>1. /\ a \in Seq(Chars) /\ Len(a) = y - x /\ \A i \in 1..y - x : a[i] = h[x + i]
      /\ b \in Seq(Chars) /\ Len(b) = z - y /\ \A i \in 1..z - y : b[i] = h[y + i]
  BY DEF PieceOf
<1> DEFINE c == a \o b
<1>2. /\ c \in Seq(Chars) /\ Len(c) = Len(a) + Len(b)
      /\ \A i \in 1..Len(a) : c[i] = a[i]
      /\ \A i \in 1..Len(b) : c[Len(a) + i] = b[i]
  BY <1>1, Concat DEF Joins
<1> HIDE DEF c
<1>3. Len(c) = z - x
  BY <1>1, <1>2
<1>4. ASSUME NEW i \in 1..z - x PROVE c[i] = h[x + i]
  <2>1. CASE i <= y - x
    <3>1. i \in 1..y - x
      BY <2>1
    <3> QED BY <1>1, <1>2, <3>1
  <2>2. CASE ~(i <= y - x)
    <3> DEFINE j == i - (y - x)
    <3>1. j \in 1..z - y /\ (y - x) + j = i /\ y + j = x + i
      BY <2>2
    <3>2. c[i] = b[j]
      BY <1>1, <1>2, <3>1
    <3> HIDE DEF j
    <3>3. b[j] = h[y + j]
      BY <1>1, <3>1
    <3> QED BY <3>1, <3>2, <3>3
  <2> QED BY <2>1, <2>2
<1> QED BY <1>2, <1>3, <1>4 DEF PieceOf, c

LEMMA PieceLeft ==
  ASSUME NEW h, NEW x \in Nat, NEW z \in Nat, x <= z, NEW a, PieceOf(a, h, x, z), NEW k \in 0..Len(a)
  PROVE  PieceOf(SubSeq(a, k + 1, Len(a)), h, x + k, z)
<1>1. a \in Seq(Chars) /\ Len(a) = z - x /\ \A i \in 1..z - x : a[i] = h[x + i]
  BY DEF PieceOf
<1> DEFINE c == SubSeq(a, k + 1, Len(a))
           L == Len(a)
<1>2. L \in Nat /\ L = z - x /\ k \in Nat /\ k <= L
  BY <1>1
<1>3. PieceOf(c, a, k, L)
  BY <1>1, <1>2, PieceIs
<1> HIDE DEF c, L
<1>4. c \in Seq(Chars) /\ Len(c) = L - k /\ \A i \in 1..L - k : c[i] = a[k + i]
  BY <1>3 DEF PieceOf
<1>5. z - (x + k) = L - k
  BY <1>2
<1>6. ASSUME NEW i \in 1..L - k PROVE c[i] = h[(x + k) + i]
  <2>1. k + i \in 1..z - x /\ x + (k + i) = (x + k) + i
    BY <1>2
  <2> QED BY <1>1, <1>4, <2>1
<1> QED BY <1>4, <1>5, <1>6 DEF PieceOf, c

LEMMA Steady ==
  ASSUME Correct, job' = job, score' = score, parser'.dom = parser.dom, Outcome'
  PROVE  Correct'
<1>1. Jobs' /\ Training'
  <2>1. IsCheck' = IsCheck /\ TrainingPage' = TrainingPage
    BY DEF IsCheck, TrainingPage
  <2> QED BY <2>1 DEF Correct, Jobs, Training
<1>2. PlainArgumentsClean'
  <2>1. \A argv : AllStand(argv) <=> AllStand(argv)'
    BY DEF AllStand
  <2> QED BY <2>1 DEF Correct, PlainArgumentsClean, IsCheck
<1> QED BY <1>1, <1>2 DEF Correct

LEMMA PageStays ==
  ASSUME job' = job, score' = score
  PROVE  Page' = Page /\ IsCheck' = IsCheck
BY DEF Page, IsCheck, TrainingPage

LEMMA HtmlIs ==
  ASSUME NEW page, Ordinary(page)
  PROVE  Html(page) \in Seq(Chars) /\ Len(Html(page)) \in Nat
BY PageLaid DEF LaidPage

LEMMA CallIs ==
  ASSUME Ordinary(Page), Buffered, status = "call"
  PROVE  CallHolds
<1>1. html \in Seq(Chars) /\ Len(html) \in Nat
  BY HtmlIs DEF Buffered
<1>2. fed \in Nat /\ fed <= Len(html) /\ from \in Nat /\ from <= fed /\ Pos \in Nat /\ Pos <= fed
  <2> HIDE DEF Pos
  <2> QED BY <1>1 DEF Buffered
<1>3. PieceOf(buf, html, Pos, fed) /\ saved = <<>> /\ html = Html(Page) /\ (last => fed = Len(html))
  BY DEF Buffered
<1>4. buf \in Seq(Chars) /\ Len(buf) = fed - Pos
  BY <1>3 DEF PieceOf
<1>5. Len(buf) \in Nat
  <2> HIDE DEF Pos
  <2> QED BY <1>2, <1>4
<1> QED BY <1>1, <1>2, <1>3, <1>4, <1>5, Zenon DEF CallHolds

LEMMA FeedOutcome ==
  ASSUME Outcome, NEW n, NEW l, Feed(n, l)
  PROVE  Outcome'
<1>1. /\ status = "idle" /\ status' = "call" /\ html' = html /\ greedy' = greedy
      /\ lex' = lex /\ parser' = parser /\ job' = job /\ score' = score
      /\ from' = fed /\ fed' = fed + n /\ last' = l /\ (l => fed + n = Len(html))
      /\ n \in 0..(Len(html) - fed) /\ start' = TRUE /\ saved' = <<>>
      /\ buf' = saved \o SubSeq(html, fed + 1, fed + n)
  BY DEF Feed
<1>2. Page' = Page
  BY <1>1, PageStays
<1> SUFFICES ASSUME Ordinary(Page) PROVE Underway'
  BY <1>1, <1>2 DEF Outcome
<1>3. Buffered /\ Read(Page, Pos, parser, lex) /\ EmptyValueHeld /\ ValueHeld
  BY <1>1, Zenon DEF Outcome, Underway
<1>4. html \in Seq(Chars) /\ Len(html) \in Nat /\ html = Html(Page)
  BY <1>3, HtmlIs DEF Buffered
<1> DEFINE e == fed + n
           x == Pos
<1>5. /\ fed \in Nat /\ fed <= Len(html) /\ from \in Nat /\ from <= fed
      /\ buf = <<>> /\ PieceOf(saved, html, x, fed) /\ x \in Nat /\ x <= fed
  <2> HIDE DEF Pos
  <2> QED BY <1>1, <1>3, <1>4 DEF Buffered
<1>6. e \in Nat /\ fed <= e /\ e <= Len(html)
  BY <1>1, <1>4, <1>5
<1> HIDE DEF e, x
<1>7. PieceOf(SubSeq(html, fed + 1, e), html, fed, e)
  BY <1>4, <1>5, <1>6, PieceIs
<1>8. PieceOf(buf', html, x, e)
  BY <1>1, <1>5, <1>6, <1>7, PiecesJoin DEF e
<1>9. Len(buf') = e - x /\ Len(saved') = 0 /\ fed' = e
  BY <1>1, <1>8 DEF PieceOf, e
<1>10. Pos' = x
  <2>1. \A y, z \in Nat : y - 0 - (y - z) = z
    OBVIOUS
  <2> QED BY <1>5, <1>6, <1>9, <2>1 DEF Pos
<1>11. Buffered'
  <2>1. html' = Html(Page')
    BY <1>1, <1>2, <1>4
  <2>2. /\ fed' \in 0..Len(html') /\ from' \in 0..fed'
        /\ last' => fed' = Len(html')
        /\ Pos' \in 0..fed'
    <3>1. Len(html') = Len(html) /\ from' = fed /\ (last' => fed + n = Len(html))
      BY <1>1
    <3> QED BY <1>5, <1>6, <1>9, <1>10, <3>1 DEF e
  <2>3. /\ status' = "call" => saved' = <<>> /\ PieceOf(buf', html', Pos', fed')
        /\ status' # "idle"
    BY <1>1, <1>8, <1>9, <1>10
  <2> QED BY <2>1, <2>2, <2>3 DEF Buffered
<1>12. Read(Page', Pos', parser', lex')
  BY <1>1, <1>2, <1>3, <1>10 DEF x
<1>13. EmptyValueHeld'
  <2>1. ~(lex = "noquote" /\ Pos < Len(html) /\ html[Pos + 1] \in {"s", "<", ">"})
    BY <1>1, <1>3 DEF EmptyValueHeld
  <2> HIDE DEF Pos
  <2>2. ~(lex' = "noquote" /\ Pos' < Len(html') /\ html'[Pos' + 1] \in {"s", "<", ">"})
    BY <1>1, <1>10, <2>1 DEF x
  <2> QED BY <2>2 DEF EmptyValueHeld
<1>14. ValueHeld'
  <2>1. lex = "prot_value" => x = fed \/ (greedy /\ x = fed - 1)
    BY <1>1, <1>3 DEF ValueHeld, x
  <2> QED BY <1>1, <1>10, <2>1 DEF ValueHeld
<1> QED BY <1>11, <1>12, <1>13, <1>14 DEF Underway

LEMMA SuspendOutcome ==
  ASSUME Inv, Outcome, Suspend
  PROVE  Outcome'
<1>1. /\ status = "call" /\ status' = "idle" /\ html' = html /\ greedy' = greedy /\ ~last
      /\ lex' = lex /\ parser' = parser /\ job' = job /\ score' = score
      /\ from' = from /\ fed' = fed /\ last' = last /\ start' = start
      /\ saved' = buf /\ buf' = <<>>
      /\ buf # <<>> => Waits(LongestMatch(lex, buf))
  BY DEF Suspend
<1>2. Page' = Page
  BY <1>1, PageStays
<1> SUFFICES ASSUME Ordinary(Page) PROVE Underway'
  BY <1>1, <1>2 DEF Outcome
<1>3. Buffered /\ Read(Page, Pos, parser, lex) /\ EmptyValueHeld /\ ValueHeld
  BY <1>1, Zenon DEF Outcome, Underway
<1>4. CallHolds
  BY <1>1, <1>3, CallIs
<1> DEFINE x == Pos
           N == Len(buf)
<1>5. /\ html = Html(Page) /\ fed \in Nat /\ fed <= Len(html) /\ from \in Nat /\ from <= fed
      /\ x \in Nat /\ x <= fed /\ PieceOf(buf, html, x, fed)
      /\ buf \in Seq(Chars) /\ N \in Nat /\ N = fed - x /\ Len(html) \in Nat
  BY <1>4, Zenon DEF CallHolds
<1> HIDE DEF x, N
<1>6. Pos' = x
  <2>1. Pos' = fed - N - 0
    BY <1>1 DEF Pos, N
  <2> QED BY <1>5, <2>1
<1>7. Buffered'
  <2>1. html' = Html(Page')
    BY <1>1, <1>2, <1>5
  <2>2. /\ fed' \in 0..Len(html') /\ from' \in 0..fed' /\ ~last' /\ Pos' \in 0..fed'
    <3>1. Len(html') = Len(html) /\ from' = from /\ fed' = fed /\ ~last'
      BY <1>1
    <3> QED BY <1>5, <1>6, <3>1
  <2>3. /\ status' = "idle" => buf' = <<>> /\ PieceOf(saved', html', Pos', fed')
        /\ status' # "call"
    BY <1>1, <1>5, <1>6
  <2> QED BY <2>1, <2>2, <2>3 DEF Buffered
<1>8. Read(Page', Pos', parser', lex')
  BY <1>1, <1>2, <1>3, <1>6 DEF x
<1>9. buf # <<>> => N > 0 /\ buf[1] = html[x + 1]
  <2> SUFFICES ASSUME buf # <<>> PROVE N > 0 /\ buf[1] = html[x + 1]
    OBVIOUS
  <2>1. N > 0
    <3>1. N # 0
      BY <1>5, EmptySeq DEF N
    <3> QED BY <1>5, <3>1
  <2>2. 1 \in 1..fed - x
    BY <1>5, <2>1
  <2> QED BY <1>5, <2>1, <2>2 DEF PieceOf
<1>10. EmptyValueHeld'
  <2>1. ASSUME lex = "noquote", x < Len(html), html[x + 1] \in {"s", "<", ">"} PROVE FALSE
    <3>1. buf # <<>> /\ (last \/ ~greedy \/ N > 1)
      BY <1>3, <2>1 DEF EmptyValueHeld, x, N
    <3>2. buf[1] \in {"s", "<", ">"} /\ Len(buf) > 0
      BY <1>9, <2>1, <3>1 DEF N
    <3>3. Backs(LongestMatch("noquote", buf), "prot_name")
      BY <1>5, <3>2, LexNoValue
    <3>4. ~Waits(LongestMatch(lex, buf))
      <4> DEFINE m == LongestMatch("noquote", buf)
      <4>1. m.len = 1 /\ m.open = FALSE
        BY <3>3 DEF Backs
      <4>2. m.len = N => ~greedy
        BY <1>1, <1>5, <3>1, <4>1
      <4> HIDE DEF m
      <4>3. ~Waits(m)
        BY <4>1, <4>2 DEF Waits, N
      <4> QED BY <2>1, <4>3 DEF m
    <3> QED BY <1>1, <3>1, <3>4
  <2> QED BY <1>1, <1>6, <2>1 DEF EmptyValueHeld
<1>11. ValueHeld'
  <2> SUFFICES ASSUME lex = "prot_value" PROVE x = fed \/ (greedy /\ x = fed - 1)
    BY <1>1, <1>6 DEF ValueHeld
  <2>1. CASE buf = <<>>
    <3>1. N = 0
      BY <2>1 DEF N
    <3> QED BY <1>5, <3>1
  <2>2. CASE buf # <<>>
    <3> DEFINE m == LongestMatch("prot_value", buf)
    <3>1. x < Len(html) /\ N > 0
      BY <1>5, <1>9, <2>2
    <3>2. Read(Page, x, parser, "prot_value")
      BY <1>3 DEF x
    <3>3. html[x + 1] # "s"
      BY <1>5, <3>1, <3>2, ReadValue
    <3>4. m.len = 1 /\ ~m.open
      BY <1>5, <1>9, <2>2, <3>1, <3>3, ValueRules DEF N
    <3>5. Waits(m)
      BY <1>1, <2>2
    <3> HIDE DEF m
    <3>6. greedy /\ N = 1
      BY <3>4, <3>5 DEF Waits, N
    <3> QED BY <1>5, <3>6
  <2> QED BY <2>1, <2>2
<1> QED BY <1>7, <1>8, <1>10, <1>11 DEF Underway

\* A match in a call, and what it makes of the page.
LEMMA StepReads ==
  ASSUME Inv, Outcome, Ordinary(Page), status = "call", buf # <<>>,
         NEW m, m = LongestMatch(lex, buf), ~Waits(m), NEW r, r = Push(parser, m.token, m.text)
  PROVE  /\ CallHolds /\ Read(Page, Pos, parser, lex) /\ EmptyValueHeld /\ ValueHeld
         /\ Len(buf) > 0 /\ Pos < Len(html) /\ buf[1] = html[Pos + 1] /\ lex \in LexStates
         /\ Reads(Page, Pos, buf, parser, m, r)
<1>1. Buffered /\ Read(Page, Pos, parser, lex) /\ EmptyValueHeld /\ ValueHeld
  BY Zenon DEF Outcome, Underway
<1>2. CallHolds
  BY <1>1, CallIs
<1> DEFINE x == Pos
           N == Len(buf)
           all == last
<1>3. /\ html = Html(Page) /\ fed \in Nat /\ fed <= Len(html) /\ (all => fed = Len(html))
      /\ x \in Nat /\ x <= fed /\ PieceOf(buf, html, x, fed)
      /\ buf \in Seq(Chars) /\ N \in Nat /\ N = fed - x /\ Len(html) \in Nat
  BY <1>2, Zenon DEF CallHolds
<1> HIDE DEF x, N
<1>4. N > 0
  <2>1. N # 0
    BY <1>3, EmptySeq DEF N
  <2> QED BY <1>3, <2>1
<1>5. x < fed /\ x < Len(html)
  BY <1>3, <1>4
<1>6. buf[1] = html[x + 1]
  <2>1. 1 \in 1..fed - x
    BY <1>3, <1>4
  <2> QED BY <1>3, <2>1 DEF PieceOf
<1>7. lex \in LexStates
  BY <1>1, ReadLex
<1>8. m.open => all
  BY DEF Waits
<1>9. Growing(parser)
  BY DEF Inv
<1>10. Reads(Page, x, buf, parser, m, r)
  <2>1. Read(Page, x, parser, lex) /\ PieceOf(buf, Html(Page), x, fed) /\ (all => fed = Len(Html(Page)))
        /\ fed <= Len(Html(Page))
    BY <1>1, <1>3 DEF x
  <2> HIDE DEF all
  <2> QED BY <1>3, <1>5, <1>8, <1>9, <2>1, ReadsOn
<1> QED BY <1>1, <1>2, <1>4, <1>5, <1>6, <1>7, <1>10 DEF x, N

LEMMA NotPutBack ==
  ASSUME NEW s \in Seq(Chars), Len(s) > 0, NEW l \in LexStates, NEW m, m = LongestMatch(l, s), ~m.back
  PROVE  m.next # "noquote"
<1>1. Keeps(m) \/ Backs(m, "noquote") \/ Backs(m, "prot_name")
  BY BackRules, Zenon
<1> QED BY <1>1 DEF Keeps, Backs

\* The characters of a match are taken.
LEMMA LexUnderway ==
  ASSUME Ordinary(Page), CallHolds, NEW m, Lex(m), status' = "call", m.len \in Nat, m.len <= Len(buf),
         m.next # "noquote", Read(Page, Pos + m.len, parser', m.next)
  PROVE  Underway'
<1>1. /\ lex' = m.next /\ buf' = SubSeq(buf, m.len + 1, Len(buf)) /\ start' = FALSE
      /\ job' = job /\ html' = html /\ greedy' = greedy /\ from' = from /\ fed' = fed
      /\ last' = last /\ saved' = saved /\ score' = score
  BY DEF Lex
<1>2. Page' = Page
  BY <1>1, PageStays
<1> DEFINE x == Pos
           N == Len(buf)
           k == m.len
           y == x + k
<1>3. /\ html = Html(Page) /\ fed \in Nat /\ fed <= Len(html) /\ (last => fed = Len(html))
      /\ from \in Nat /\ from <= fed /\ saved = <<>>
      /\ x \in Nat /\ x <= fed /\ PieceOf(buf, html, x, fed)
      /\ buf \in Seq(Chars) /\ N \in Nat /\ N = fed - x /\ Len(html) \in Nat
  BY Zenon DEF CallHolds
<1>4. k \in 0..N /\ k \in Nat /\ k <= N
  BY <1>3
<1> HIDE DEF x, N, k
<1>5. y \in Nat /\ y <= fed
  BY <1>3, <1>4
<1>6. PieceOf(buf', html, y, fed)
  BY <1>1, <1>3, <1>4, PieceLeft DEF N, k
<1> HIDE DEF y
<1>7. Pos' = y
  <2>1. Len(buf') = fed - y /\ Len(saved') = 0
    BY <1>1, <1>3, <1>6 DEF PieceOf
  <2>2. \A a, b \in Nat : a - 0 - (a - b) = b
    OBVIOUS
  <2>3. Pos' = fed - 0 - (fed - y)
    BY <1>1, <2>1 DEF Pos
  <2> QED BY <1>3, <1>5, <2>2, <2>3, Zenon
<1>8. Buffered'
  <2>1. html' = Html(Page')
    BY <1>1, <1>2, <1>3
  <2>2. /\ fed' \in 0..Len(html') /\ from' \in 0..fed' /\ (last' => fed' = Len(html')) /\ Pos' \in 0..fed'
    <3>1. Len(html') = Len(html) /\ from' = from /\ fed' = fed /\ last' = last
      BY <1>1
    <3> QED BY <1>3, <1>5, <1>7, <3>1
  <2>3. /\ status' = "call" => saved' = <<>> /\ PieceOf(buf', html', Pos', fed')
        /\ status' # "idle"
    BY <1>1, <1>3, <1>6, <1>7
  <2> QED BY <2>1, <2>2, <2>3 DEF Buffered
<1>9. Read(Page', Pos', parser', lex')
  BY <1>1, <1>2, <1>7 DEF x, y, k
<1>10. EmptyValueHeld' /\ ValueHeld'
  BY <1>1 DEF EmptyValueHeld, ValueHeld
<1> QED BY <1>8, <1>9, <1>10 DEF Underway

LEMMA EatOutcome ==
  ASSUME Inv, Outcome, Eat
  PROVE  Outcome'
<1>1. PICK m \in {LongestMatch(lex, buf)} : Lex(m) /\ m.token = "none"
  BY Zenon DEF Eat
<1>2. /\ status = "call" /\ buf # <<>> /\ parser' = parser /\ status' = status
      /\ m = LongestMatch(lex, buf) /\ ~Waits(m) /\ ~m.back /\ job' = job /\ score' = score
  BY <1>1 DEF Eat, Lex
<1>3. Page' = Page
  BY <1>2, PageStays
<1> SUFFICES ASSUME Ordinary(Page) PROVE Underway'
  BY <1>2, <1>3 DEF Outcome
<1> DEFINE r == Push(parser, m.token, m.text)
<1> HIDE DEF r
<1>4. /\ CallHolds /\ Len(buf) > 0 /\ lex \in LexStates /\ Reads(Page, Pos, buf, parser, m, r)
  BY <1>2, StepReads DEF r
<1>5. m.len \in Nat /\ m.len <= Len(buf) /\ Read(Page, Pos + m.len, parser, m.next)
  BY <1>1, <1>2, <1>4, Zenon DEF Reads
<1>6. m.next # "noquote"
  BY <1>2, <1>4, NotPutBack DEF CallHolds
<1> QED BY <1>1, <1>2, <1>4, <1>5, <1>6, LexUnderway

LEMMA TokenOutcome ==
  ASSUME Inv, Outcome, Token
  PROVE  Outcome'
<1>1. PICK m \in {LongestMatch(lex, buf)} :
        /\ Lex(m)
        /\ m.token # "none"
        /\ \E r \in {Push(parser, m.token, m.text)} :
             /\ parser' = r.parser
             /\ status' = IF r.out = "more" THEN "call" ELSE r.out
  BY Zenon DEF Token
<1>2. PICK r \in {Push(parser, m.token, m.text)} :
        /\ parser' = r.parser
        /\ status' = IF r.out = "more" THEN "call" ELSE r.out
  BY <1>1
<1>3. r = Push(parser, m.token, m.text) /\ m = LongestMatch(lex, buf)
  BY <1>1, <1>2
<1>4. /\ status = "call" /\ buf # <<>> /\ ~Waits(m) /\ ~m.back /\ job' = job /\ score' = score
  BY <1>1 DEF Token, Lex
<1>5. Page' = Page
  BY <1>4, PageStays
<1> SUFFICES ASSUME Ordinary(Page)
             PROVE  \/ status' = "call" /\ Underway'
                    \/ status' = "refused" /\ (HasSurplusClose(Page) \/ HasNoValue(Page))
  BY <1>5 DEF Outcome
<1>6. /\ CallHolds /\ Len(buf) > 0 /\ lex \in LexStates /\ Reads(Page, Pos, buf, parser, m, r)
  BY <1>3, <1>4, StepReads
<1>7. m.len \in Nat /\ m.len <= Len(buf)
  BY <1>4, <1>6, Zenon DEF Reads
<1>8. m.next # "noquote"
  BY <1>3, <1>4, <1>6, NotPutBack DEF CallHolds
<1>9. \/ r.out = "more" /\ Read(Page, Pos + m.len, r.parser, m.next)
      \/ r.out = "refused" /\ (HasSurplusClose(Page) \/ HasNoValue(Page))
  BY <1>1, <1>6, Zenon DEF Reads
<1>10. CASE r.out = "more" /\ Read(Page, Pos + m.len, r.parser, m.next)
  <2>1. status' = "call"
    BY <1>2, <1>10
  <2>2. Read(Page, Pos + m.len, parser', m.next)
    BY <1>2, <1>10, Zenon
  <2> QED BY <1>1, <1>6, <1>7, <1>8, <2>1, <2>2, LexUnderway
<1>11. CASE r.out = "refused" /\ (HasSurplusClose(Page) \/ HasNoValue(Page))
  <2>1. status' = "refused"
    BY <1>2, <1>11
  <2> QED BY <1>11, <2>1
<1> QED BY <1>9, <1>10, <1>11

LEMMA PutBackOutcome ==
  ASSUME Inv, Outcome, PutBack
  PROVE  Outcome'
<1> DEFINE m == LongestMatch(lex, buf)
           r == Push(parser, m.token, m.text)
<1>1. /\ status = "call" /\ buf # <<>> /\ m.back /\ ~Waits(m) /\ lex' = m.next
      /\ status' = IF start THEN "crashed" ELSE "call"
      /\ job' = job /\ html' = html /\ greedy' = greedy /\ from' = from /\ fed' = fed /\ last' = last
      /\ buf' = buf /\ start' = start /\ saved' = saved /\ parser' = parser /\ score' = score
  BY DEF PutBack
<1>2. m = LongestMatch(lex, buf) /\ r = Push(parser, m.token, m.text)
  OBVIOUS
<1>3. Page' = Page
  BY <1>1, PageStays
<1> HIDE DEF m, r
<1> SUFFICES ASSUME Ordinary(Page)
             PROVE  \/ status' = "call" /\ Underway'
                    \/ status' = "crashed" /\ (from + 1 \in PlainStarts \/ (greedy /\ from \in PlainStarts))
  <2>1. PlainStarts' = PlainStarts
    BY <1>1 DEF PlainStarts
  <2> QED BY <1>1, <1>3, <2>1 DEF Outcome
<1>4. /\ CallHolds /\ Read(Page, Pos, parser, lex) /\ EmptyValueHeld /\ ValueHeld
      /\ Len(buf) > 0 /\ Pos < Len(html) /\ buf[1] = html[Pos + 1] /\ lex \in LexStates
      /\ Reads(Page, Pos, buf, parser, m, r)
  BY <1>1, <1>2, StepReads
<1> DEFINE x == Pos
           N == Len(buf)
<1>5. /\ html = Html(Page) /\ fed \in Nat /\ fed <= Len(html) /\ (last => fed = Len(html))
      /\ from \in Nat /\ from <= fed /\ saved = <<>>
      /\ x \in Nat /\ x <= fed /\ PieceOf(buf, html, x, fed)
      /\ buf \in Seq(Chars) /\ N \in Nat /\ N = fed - x
      /\ html \in Seq(Chars) /\ Len(html) \in Nat
  BY <1>4, Zenon DEF CallHolds
<1>6. \/ lex = "prot_value" /\ Backs(m, "noquote") /\ buf[1] \notin {"s", "q"}
      \/ lex = "noquote" /\ Backs(m, "prot_name") /\ buf[1] \in {"s", "<", ">"}
  <2>1. ~Keeps(m)
    BY <1>1 DEF Keeps
  <2> QED BY <1>2, <1>4, <1>5, <2>1, BackRules
<1>7. CASE start
  <2>1. status' = "crashed"
    BY <1>1, <1>7
  <2>2. lex # "noquote"
    <3>1. lex = "noquote" => html[Pos + 1] \in {"s", "<", ">"}
      BY <1>4, <1>6
    <3> QED BY <1>4, <1>7, <3>1 DEF EmptyValueHeld
  <2>3. lex = "prot_value" /\ buf[1] \notin {"s", "q"}
    BY <1>6, <2>2
  <2>4. x > 0 /\ html[x] = "=" /\ html[x + 1] \notin {"s", "q"}
    <3>1. x > 0 /\ html[x] = "="
      <4>1. Read(Page, x, parser, "prot_value") /\ x < Len(Html(Page))
        BY <1>4, <1>5, <2>3
      <4> HIDE DEF x
      <4> QED BY <1>5, <4>1, ReadValue
    <3> QED BY <1>4, <2>3, <3>1
  <2>5. x = from \/ (greedy /\ x = from - 1)
    BY <1>1, <1>4, <1>7, <2>3 DEF ValueHeld
  <2>6. x < Len(html)
    BY <1>4
  <2> HIDE DEF x
  <2>7. x + 1 \in DOMAIN html /\ x + 1 > 1 /\ (x + 1) - 1 = x
    <3> DEFINE L == Len(html)
    <3>1. DOMAIN html = 1..L
      BY <1>5, LenProperties
    <3>2. x \in Nat /\ x > 0 /\ L \in Nat /\ x < L
      BY <1>5, <2>4, <2>6
    <3> HIDE DEF L
    <3>3. x + 1 \in 1..L /\ x + 1 > 1 /\ (x + 1) - 1 = x
      BY <3>2
    <3> QED BY <3>1, <3>3
  <2>8. x + 1 \in PlainStarts
    BY <2>4, <2>7 DEF PlainStarts
  <2>9. x = from - 1 => x + 1 = from
    BY <1>5
  <2> QED BY <2>1, <2>5, <2>8, <2>9
<1>8. CASE ~start
  <2>1. status' = "call"
    BY <1>1, <1>8
  <2>2. Pos' = Pos
    BY <1>1 DEF Pos
  <2>3. Buffered'
    <3>1. html' = Html(Page')
      BY <1>1, <1>3, <1>5
    <3>2. /\ fed' \in 0..Len(html') /\ from' \in 0..fed' /\ (last' => fed' = Len(html')) /\ Pos' \in 0..fed'
      <4>1. Len(html') = Len(html) /\ from' = from /\ fed' = fed /\ last' = last /\ Pos' = x
        BY <1>1, <2>2
      <4> HIDE DEF x
      <4> QED BY <1>5, <4>1
    <3>3. /\ status' = "call" => saved' = <<>> /\ PieceOf(buf', html', Pos', fed')
          /\ status' # "idle"
      BY <1>1, <1>5, <2>1, <2>2
    <3> QED BY <3>1, <3>2, <3>3 DEF Buffered
  <2>4. Read(Page', Pos', parser', lex')
    <3>1. Read(Page, Pos, parser, m.next)
      BY <1>1, <1>4, Zenon DEF Reads
    <3> QED BY <1>1, <1>3, <2>2, <3>1
  <2>5. EmptyValueHeld'
    <3>1. m.len = 1
      BY <1>6 DEF Backs
    <3>2. last \/ ~greedy \/ N > 1
      <4>1. last \/ ~greedy \/ 1 # N
        BY <1>1, <3>1 DEF Waits
      <4>2. N > 0
        BY <1>4
      <4> HIDE DEF N
      <4> QED BY <1>5, <4>1, <4>2
    <3> QED BY <1>1, <1>8, <2>1, <3>2 DEF EmptyValueHeld
  <2>6. ValueHeld'
    BY <1>1, <1>6 DEF Backs, ValueHeld
  <2> QED BY <2>1, <2>3, <2>4, <2>5, <2>6 DEF Underway
<1> QED BY <1>7, <1>8

LEMMA EndOutcome ==
  ASSUME Inv, Outcome, Jobs, EndOfInput
  PROVE  Outcome'
<1> DEFINE r == Push(parser, "EOF", <<>>)
<1>1. /\ status = "call" /\ buf = <<>> /\ last /\ parser' = r.parser /\ status' = r.out
      /\ job' = job /\ score' = score
  BY DEF EndOfInput
<1>2. r = Push(parser, "EOF", <<>>)
  OBVIOUS
<1>3. Page' = Page /\ IsCheck' = IsCheck
  BY <1>1, PageStays
<1> HIDE DEF r
<1> SUFFICES ASSUME Ordinary(Page)
             PROVE  /\ status' = "accepted"
                    /\ ~IsCheck => TreeIs(Page, parser')
                    /\ IsCheck => Scored(Page, parser'.reduced)
  BY <1>3 DEF Outcome
<1>4. Buffered /\ Read(Page, Pos, parser, lex)
  BY <1>1, Zenon DEF Outcome, Underway
<1>5. CallHolds
  BY <1>1, <1>4, CallIs
<1>6. Pos = Len(html) /\ html = Html(Page)
  <2> DEFINE x == Pos
             N == Len(buf)
  <2>1. /\ html = Html(Page) /\ fed \in Nat /\ fed = Len(html) /\ x \in Nat /\ N = fed - x
    BY <1>1, <1>5, Zenon DEF CallHolds
  <2>2. N = 0
    BY <1>1
  <2> HIDE DEF x, N
  <2>3. x = Len(html)
    BY <2>1, <2>2
  <2> QED BY <2>1, <2>3 DEF x
<1> DEFINE c == Len(Page)
           n == PageCost(Page, c)
           p == parser
           d == Len(p.frames)
           v == Rise(Page, c)
<1>7. LaidPage(Page) /\ PageTyped(Page) /\ c \in Nat
  BY PageLaid DEF LaidPage, PageTyped
<1>8. n \in Nat
  <2>1. c \in 0..c
    BY <1>7
  <2> QED BY <1>7, <2>1 DEF LaidPage
<1>9. Taken(Page, c, p) /\ p.at = "doc" /\ Spent(p, n)
  BY <1>4, <1>6, <1>7, ReadEnd
<1>10. Growing(p)
  BY <1>1 DEF Inv
<1>11. r.out = "accepted" /\ EndGrown(p, r.parser)
  BY <1>2, <1>9, <1>10, PushEnd
<1>12. ~IsCheck => TreeIs(Page, r.parser)
  <2>1. ~IsCheck => p.dom
    BY DEF Jobs
  <2> QED BY <1>7, <1>9, <1>10, <1>11, <2>1, EndTree
<1>13. IsCheck => Scored(Page, r.parser.reduced)
  <2> SUFFICES ASSUME IsCheck PROVE Scored(Page, r.parser.reduced)
    OBVIOUS
  <2>1. ~p.dom
    BY DEF Inv
  <2>2. p.reduced = 2 + n /\ r.parser.reduced = p.reduced + 4 * (d - 1) + 1
    BY <1>9, <1>11, <2>1 DEF Spent, EndGrown
  <2>3. d = 1 + v /\ \A b \in 0..c : Rise(Page, b) >= 0
    BY <1>9 DEF Taken
  <2>4. v \in Int
    <3>1. c \in 0..c
      BY <1>7
    <3> QED BY <1>7, <3>1, RiseIs DEF RiseSteps
  <2> HIDE DEF n, d, v
  <2>5. r.parser.reduced = 3 + n + 4 * v
    BY <1>8, <2>2, <2>3, <2>4
  <2> QED BY <2>3, <2>5 DEF Scored, FinalCost, n, v
<1> QED BY <1>1, <1>11, <1>12, <1>13

-----------------------------------------------------------------------------
(* Beginnings.                                                             *)

LEMMA NoneCounted ==
  ASSUME NEW page
  PROVE  Rise(page, 0) = 0 /\ Number(page, 0) = 0 /\ KidsSoFar(page, 0, 0) = {}
<1>1. /\ {i \in 1..0 : page[i].kind = "open"} = {}
      /\ {i \in 1..0 : page[i].kind = "close"} = {}
      /\ {i \in 1..0 : page[i].kind \in Shown} = {}
  OBVIOUS
<1>2. Cardinality({}) = 0
  BY FS_EmptySet
<1>3. Rise(page, 0) = 0
  BY <1>1, <1>2 DEF Rise
<1>4. Number(page, 0) = 0
  BY <1>1, <1>2 DEF Number
<1>5. KidsSoFar(page, 0, 0) = {}
  BY DEF KidsSoFar
<1> QED BY <1>3, <1>4, <1>5

LEMMA FreshTaken ==
  ASSUME NEW page, NEW dom \in BOOLEAN, NEW p, p = FreshParser(dom)
  PROVE  Taken(page, 0, p)
<1> DEFINE f == [tag |-> 0, list |-> <<>>]
           st == [k \in 1..1 |-> 0]
<1>1. Typed(p)
  BY FreshGrowing DEF Growing
<1>2. p.frames = <<f>> /\ p.nodes = <<>> /\ f.tag = 0 /\ f.list = <<>>
  BY DEF FreshParser
<1> HIDE DEF f
<1>3. Len(p.frames) = 1 /\ p.frames[1] = f /\ Len(p.nodes) = 0
  BY <1>2
<1>4. Rise(page, 0) = 0 /\ Number(page, 0) = 0 /\ KidsSoFar(page, 0, 0) = {}
  BY NoneCounted
<1>5. Contents(p, 1) = <<>>
  <2>1. 1 \in 1..Len(p.frames) /\ ~(1 < Len(p.frames))
    BY <1>3
  <2> QED BY <1>1, <1>2, <1>3, <2>1, ContentsAre
<1>6. InOrder(Contents(p, 1), KidsSoFar(page, 0, 0))
  BY <1>4, <1>5, InOrderNone
<1>7. st \in [1..Len(p.frames) -> 0..0] /\ st[1] = 0
  BY <1>3
<1> HIDE DEF st
<1>8. \A k \in 1..Len(p.frames) : k = 1
  BY <1>3
<1>9. \A b \in 0..0 : b = 0
  OBVIOUS
<1>10. OpenKids(page, 0, p, st)
  BY <1>2, <1>3, <1>4, <1>6, <1>7, <1>8 DEF OpenKids
<1>11. ClosedKids(page, 0, p, st)
  BY DEF ClosedKids
<1>12. \A b \in 0..0 : Rise(page, b) >= 0
  BY <1>4, <1>9
<1>13. Opened(page, 0, st, Len(p.frames))
  <2>1. Len(p.frames) \in Nat \ {0} /\ Rise(page, 0) = Len(p.frames) - 1
    BY <1>3, <1>4
  <2>2. \A k \in 1..Len(p.frames) : /\ Rise(page, st[k]) = k - 1
                                    /\ \A b \in st[k]..0 : Rise(page, b) >= k - 1
                                    /\ k > 1 => page[st[k]].kind = "open"
    <3> SUFFICES ASSUME NEW k \in 1..Len(p.frames)
                 PROVE  /\ Rise(page, st[k]) = k - 1
                        /\ \A b \in st[k]..0 : Rise(page, b) >= k - 1
                        /\ k > 1 => page[st[k]].kind = "open"
      OBVIOUS
    <3>1. k = 1 /\ st[k] = 0
      BY <1>7, <1>8
    <3>2. Rise(page, st[k]) = k - 1
      BY <1>4, <3>1
    <3>3. \A b \in st[k]..0 : Rise(page, b) >= k - 1
      BY <1>12, <3>1
    <3>4. ~(k > 1)
      BY <3>1
    <3> QED BY <3>2, <3>3, <3>4
  <2> QED BY <1>7, <1>12, <2>1, <2>2 DEF Opened
<1>14. Stacked(page, 0, p, st)
  <2>1. Len(p.frames) \in Nat \ {0} /\ Rise(page, 0) = Len(p.frames) - 1 /\ 0 \in Nat
    BY <1>3, <1>4
  <2> QED BY <1>10, <1>11, <1>12, <1>13, <2>1, StackedParts
<1>15. NodesSoFar(page, 0, p)
  BY <1>3, <1>4 DEF NodesSoFar
<1>16. Len(p.frames) = 1 + Rise(page, 0)
  BY <1>3, <1>4
<1>17. \E ts \in [1..Len(p.frames) -> 0..0] : Stacked(page, 0, p, ts)
  BY <1>7, <1>14
<1> QED BY <1>12, <1>15, <1>16, <1>17, Zenon DEF Taken

LEMMA FreshRead ==
  ASSUME NEW page, Ordinary(page), NEW dom \in BOOLEAN
  PROVE  Read(page, 0, FreshParser(dom), "initial")
<1> DEFINE p == FreshParser(dom)
<1>1. p.at = "doc" /\ p.prots = <<>> /\ p.dom = dom /\ p.reduced = IF dom THEN 0 ELSE 2
  BY DEF FreshParser
<1>2. Taken(page, 0, p)
  BY FreshTaken
<1> HIDE DEF p
<1>3. LaidPage(page) /\ Len(page) \in Nat
  BY PageLaid DEF LaidPage, PageTyped
<1>4. ItemEnd(page, 0) = 0 /\ PageCost(page, 0) = 0 /\ 0 \in 0..Len(page)
  BY <1>3 DEF LaidPage
<1>5. Spent(p, PageCost(page, 0))
  BY <1>1, <1>4 DEF Spent
<1>6. Between(page, 0, 0, p, "initial")
  BY <1>1, <1>4, <1>5 DEF Between
<1> QED BY <1>2, <1>4, <1>6, Zenon DEF Read, p

\* What holds of a page of which nothing has come.
LEMMA Beginning ==
  ASSUME NEW page, Ordinary(page), NEW h, h = Html(page)
  PROVE  /\ PieceOf(<<>>, h, 0, 0) /\ 0 \in 0..Len(h) /\ 0 \in 0..0
         /\ 0 - Len(<<>>) - Len(<<>>) = 0
<1>1. Len(h) \in Nat
  BY HtmlIs
<1>2. <<>> \in Seq(Chars) /\ Len(<<>>) = 0
  BY EmptySeq
<1>3. PieceOf(<<>>, h, 0, 0)
  BY <1>2 DEF PieceOf
<1>4. 0 \in 0..Len(h) /\ 0 \in 0..0
  BY <1>1
<1>5. 0 - Len(<<>>) - Len(<<>>) = 0
  <2>1. 0 - 0 - 0 = 0
    OBVIOUS
  <2> QED BY <1>2, <2>1, Zenon
<1> QED BY <1>3, <1>4, <1>5, Zenon

LEMMA InitCorrect ==
  ASSUME Init
  PROVE  Correct
<1>1. /\ from = 0 /\ fed = 0 /\ last = FALSE
      /\ buf = <<>> /\ start = TRUE /\ saved = <<>>
      /\ lex = "initial" /\ parser = FreshParser(~IsCheck)
      /\ status = "idle"
      /\ score = [trained |-> 0, verdict |-> "none"]
  BY Zenon DEF Init
<1>2. score.trained = 0 /\ score.verdict = "none" /\ DOMAIN score = {"trained", "verdict"}
  BY <1>1
<1>3. /\ html = Html(Page)
      /\ IsCheck => job.check \in Checks
      /\ ~IsCheck => job.page \in Pages
  <2>1. CASE \E page \in Pages, g \in BOOLEAN :
               /\ job = [kind |-> "page", page |-> page]
               /\ html = Html(page) /\ greedy = g
    <3>1. PICK page \in Pages : job = [kind |-> "page", page |-> page] /\ html = Html(page)
      BY <2>1
    <3>2. ~IsCheck /\ job.page = page
      BY <3>1 DEF IsCheck
    <3> QED BY <3>1, <3>2 DEF Page
  <2>2. CASE \E c \in Checks :
               /\ job = [kind |-> "check", check |-> c]
               /\ html = Html(FilledPage(c.template, c.trained)) /\ greedy = TRUE
               /\ Prepared(html)
    <3>1. PICK c \in Checks : job = [kind |-> "check", check |-> c]
                              /\ html = Html(FilledPage(c.template, c.trained))
      BY <2>2
    <3>2. IsCheck /\ job.check = c
      BY <3>1 DEF IsCheck
    <3> QED BY <1>2, <3>1, <3>2 DEF Page, TrainingPage
  <2> QED BY <2>1, <2>2, Zenon DEF Init
<1>4. (~IsCheck) \in BOOLEAN
  OBVIOUS
<1>5. Jobs
  <2>1. parser.dom = ~IsCheck
    BY <1>1, <1>4, FreshGrowing
  <2> QED BY <1>2, <1>3, <2>1 DEF Jobs
<1>6. ASSUME Ordinary(Page) PROVE Underway
  <2>1. /\ PieceOf(<<>>, html, 0, 0) /\ 0 \in 0..Len(html) /\ 0 \in 0..0
        /\ 0 - Len(<<>>) - Len(<<>>) = 0
    BY <1>3, <1>6, Beginning
  <2>2. Pos = 0
    BY <1>1, <2>1 DEF Pos
  <2>3. Buffered
    BY <1>1, <1>3, <2>1, <2>2 DEF Buffered
  <2>4. Read(Page, Pos, parser, lex)
    <3>1. Read(Page, 0, FreshParser(~IsCheck), "initial")
      BY <1>4, <1>6, FreshRead
    <3> QED BY <1>1, <2>2, <3>1
  <2>5. EmptyValueHeld /\ ValueHeld
    BY <1>1 DEF EmptyValueHeld, ValueHeld
  <2> QED BY <2>3, <2>4, <2>5 DEF Underway
<1>7. Outcome
  BY <1>1, <1>6 DEF Outcome
<1>8. Training /\ PlainArgumentsClean
  BY <1>2 DEF Training, PlainArgumentsClean
<1> QED BY <1>5, <1>7, <1>8 DEF Correct

-----------------------------------------------------------------------------
(* Checks.                                                                 *)

LEMMA TrainedCorrect ==
  ASSUME Inv, Correct, Trained
  PROVE  Correct'
<1> DEFINE ap == FilledPage(job.check.template, job.check.argv)
<1>1. /\ IsCheck /\ score.trained = 0 /\ status = "accepted" /\ ParseScore > 0 /\ job' = job
  BY DEF Trained
<1>2. ParseScore = parser.reduced /\ Page = TrainingPage
  BY <1>1 DEF ParseScore, Page
<1>3. DOMAIN score = {"trained", "verdict"} /\ job.check \in Checks
  BY <1>1 DEF Correct, Jobs
<1>4. \/ /\ NewWork(Html(ap), TRUE, FALSE)
         /\ status' = "idle"
         /\ score' = [score EXCEPT !.trained = ParseScore]
      \/ /\ ~Prepared(Html(ap))
         /\ status' = "gone"
         /\ score' = [trained |-> ParseScore, verdict |-> "alarm"]
  BY DEF Trained
<1>5. score'.trained = ParseScore /\ DOMAIN score' = {"trained", "verdict"}
  <2>1. CASE score' = [score EXCEPT !.trained = ParseScore]
    BY <1>3, <2>1
  <2>2. CASE score' = [trained |-> ParseScore, verdict |-> "alarm"]
    BY <2>2
  <2> QED BY <1>4, <2>1, <2>2
<1>6. score'.trained # 0
  <2>1. ~(0 > 0)
    OBVIOUS
  <2> QED BY <1>1, <1>5, <2>1
<1>7. IsCheck' /\ TrainingPage' = TrainingPage /\ Page' = ap
  BY <1>1, <1>6 DEF IsCheck, TrainingPage, Page
<1>8. Jobs'
  BY <1>1, <1>3, <1>5, <1>7 DEF Jobs
<1>9. Training'
  <2>1. Ordinary(TrainingPage) => Scored(TrainingPage, parser.reduced)
    BY <1>1, <1>2 DEF Correct, Outcome
  <2> QED BY <1>2, <1>5, <1>7, <2>1 DEF Training
<1>10. PlainArgumentsClean'
  <2>1. CASE score' = [score EXCEPT !.trained = ParseScore]
    <3>1. score'.verdict = score.verdict
      BY <1>3, <2>1
    <3>2. \A argv : AllStand(argv) <=> AllStand(argv)'
      BY <1>1 DEF AllStand
    <3> QED BY <1>1, <3>1, <3>2 DEF Correct, PlainArgumentsClean, IsCheck
  <2>2. CASE ~Prepared(Html(ap))
    BY <1>1, <2>2 DEF PlainArgumentsClean
  <2> QED BY <1>4, <2>1, <2>2
<1>11. Outcome'
  <2>1. CASE status' = "gone"
    BY <2>1 DEF Outcome
  <2>2. CASE NewWork(Html(ap), TRUE, FALSE) /\ status' = "idle"
    <3> SUFFICES ASSUME Ordinary(ap) PROVE Underway'
      BY <1>7, <2>2 DEF Outcome
    <3>1. /\ html' = Html(ap) /\ from' = 0 /\ fed' = 0 /\ last' = FALSE /\ buf' = <<>> /\ start' = TRUE
          /\ saved' = <<>> /\ lex' = "initial" /\ parser' = FreshParser(FALSE) /\ status' = "idle"
      BY <2>2 DEF NewWork
    <3> HIDE DEF ap
    <3>2. /\ PieceOf(<<>>, html', 0, 0) /\ 0 \in 0..Len(html') /\ 0 \in 0..0
          /\ 0 - Len(<<>>) - Len(<<>>) = 0
      BY <3>1, Beginning
    <3>3. Pos' = 0
      BY <3>1, <3>2 DEF Pos
    <3>4. Buffered'
      BY <1>7, <3>1, <3>2, <3>3 DEF Buffered
    <3>5. Read(Page', Pos', parser', lex')
      <4>1. Read(ap, 0, FreshParser(FALSE), "initial")
        BY FreshRead
      <4> QED BY <1>7, <3>1, <3>3, <4>1
    <3>6. EmptyValueHeld' /\ ValueHeld'
      BY <3>1 DEF EmptyValueHeld, ValueHeld
    <3> QED BY <3>4, <3>5, <3>6 DEF Underway
  <2> QED BY <1>4, <2>1, <2>2
<1> QED BY <1>8, <1>9, <1>10, <1>11 DEF Correct

LEMMA SameLength ==
  ASSUME NEW a, Len(a) \in Nat, DOMAIN a = 1..Len(a), NEW b, Len(b) \in Nat, DOMAIN b = 1..Len(b),
         DOMAIN a = DOMAIN b
  PROVE  Len(a) = Len(b)
<1> DEFINE m == Len(a)
           n == Len(b)
<1>1. m \in Nat /\ n \in Nat /\ 1..m = 1..n
  OBVIOUS
<1> HIDE DEF m, n
<1>2. m > 0 => m \in 1..n
  BY <1>1
<1>3. n > 0 => n \in 1..m
  BY <1>1
<1>4. m = n
  BY <1>1, <1>2, <1>3
<1> QED BY <1>4 DEF m, n

LEMMA FilledAlike ==
  ASSUME NEW c \in Checks, NEW x, NEW y,
         NEW a, a = FilledPage(c.template, x), Ordinary(a),
         NEW b, b = FilledPage(c.template, y), Ordinary(b)
  PROVE  Alike(a, b)
<1> DEFINE t == c.template
<1>1. DOMAIN a = DOMAIN t /\ DOMAIN b = DOMAIN t
  BY DEF FilledPage
<1>2. \A i \in DOMAIN t : a[i] = FilledItem(t[i], x) /\ b[i] = FilledItem(t[i], y)
  BY DEF FilledPage
<1>3. \A i \in DOMAIN t : TemplateItem(t[i])
  BY HtmlAssumption
<1> HIDE DEF t
<1> SUFFICES ASSUME NEW i \in DOMAIN t PROVE a[i].kind = b[i].kind /\ Cost(a[i]) = Cost(b[i])
  BY <1>1 DEF Alike
<1> DEFINE item == t[i]
           f == a[i]
           g == b[i]
<1>4. /\ f = FilledItem(item, x) /\ g = FilledItem(item, y) /\ TemplateItem(item)
      /\ OrdinaryItem(f) /\ OrdinaryItem(g)
  BY <1>1, <1>2, <1>3 DEF Ordinary
<1> HIDE DEF item, f, g
<1>5. CASE item.kind # "open"
  <2>1. f.kind = item.kind /\ g.kind = item.kind
    BY <1>4, <1>5 DEF FilledItem, TemplateItem
  <2>2. item.kind \in {"close", "text", "comment", "meta"}
    BY <1>4, <1>5, <2>1 DEF OrdinaryItem
  <2>3. Cost(f) = Cost(g)
    BY <2>1, <2>2, Costs1
  <2> QED BY <2>1, <2>3 DEF f, g
<1>6. CASE item.kind = "open"
  <2> DEFINE u == item.prots
             F(argv) == [k \in DOMAIN u |-> FilledProt(u[k], argv)]
             P == F(x)
             Q == F(y)
  <2>1. /\ f = [item EXCEPT !.prots = P] /\ g = [item EXCEPT !.prots = Q]
        /\ {"kind", "prots"} \subseteq DOMAIN item
        /\ \A k \in DOMAIN u : "form" \in DOMAIN u[k]
    <3>1. \A argv : FilledItem(item, argv) = [item EXCEPT !.prots = F(argv)]
      BY <1>6 DEF FilledItem
    <3>2. {"kind", "prots"} \subseteq DOMAIN item /\ \A k \in DOMAIN u : "form" \in DOMAIN u[k]
      BY <1>4, <1>6 DEF TemplateItem
    <3> QED BY <1>4, <3>1, <3>2, Zenon
  <2>2. /\ DOMAIN P = DOMAIN u /\ DOMAIN Q = DOMAIN u
        /\ \A k \in DOMAIN u : P[k].form = u[k].form /\ Q[k].form = u[k].form
    BY <2>1 DEF FilledProt
  <2> HIDE DEF P, Q, F
  <2>3. f.kind = "open" /\ g.kind = "open" /\ f.prots = P /\ g.prots = Q
    BY <1>6, <2>1
  <2>4. TagShape(f, Written(f)) /\ TagShape(g, Written(g))
    BY <1>4, <2>3, TagShapeIs
  <2>5. /\ P \in Seq(ToSet(P)) /\ Q \in Seq(ToSet(Q))
    BY <1>4, <2>3 DEF OrdinaryItem
  <2>6. /\ Len(P) \in Nat /\ DOMAIN P = 1..Len(P) /\ Len(Q) \in Nat /\ DOMAIN Q = 1..Len(Q)
    BY <2>5, LenProperties
  <2>7. Len(P) = Len(Q)
    <3>1. DOMAIN P = DOMAIN Q
      BY <2>2
    <3> QED BY <2>6, <3>1, SameLength, Zenon
  <2>8. ProtCosts(P) = ProtCosts(Q)
    BY <2>2 DEF ProtCosts
  <2>9. Cost(f) = 7 + ProtCost(P, Len(P)) /\ Cost(g) = 7 + ProtCost(Q, Len(Q))
    BY <2>3 DEF Cost, ProtCost
  <2>10. ProtCost(P, Len(P)) = ProtCost(Q, Len(Q))
    BY <2>7, <2>8 DEF ProtCost
  <2>11. f.kind = g.kind /\ Cost(f) = Cost(g)
    BY <2>3, <2>9, <2>10
  <2> QED BY <2>11 DEF f, g
<1> QED BY <1>5, <1>6

\* Such pages cost the same and end as many tags.
LEMMA AlikeCost ==
  ASSUME NEW a, Ordinary(a), NEW b, Ordinary(b), Alike(a, b)
  PROVE  FinalCost(a) = FinalCost(b) /\ (\A k : Rise(a, k) = Rise(b, k) \/ k \notin 0..Len(a))
<1>1. PageTyped(a) /\ PageTyped(b)
  BY PageLaid DEF LaidPage
<1>2. Len(a) = Len(b) /\ Len(a) \in Nat /\ DOMAIN a = 1..Len(a)
  BY <1>1, SameLength DEF PageTyped, Alike
<1>3. Costs(a) = Costs(b)
  BY DEF Costs, Alike
<1>4. PageCost(a, Len(a)) = PageCost(b, Len(b))
  BY <1>2, <1>3 DEF PageCost
<1>5. ASSUME NEW k \in 0..Len(a) PROVE Rise(a, k) = Rise(b, k)
  <2>1. \A i \in 1..k : i \in DOMAIN a
    BY <1>2
  <2>2. \A i \in 1..k : a[i].kind = b[i].kind
    BY <2>1 DEF Alike
  <2>3. /\ {i \in 1..k : a[i].kind = "open"} = {i \in 1..k : b[i].kind = "open"}
        /\ {i \in 1..k : a[i].kind = "close"} = {i \in 1..k : b[i].kind = "close"}
    BY <2>2
  <2> QED BY <2>3 DEF Rise
<1>6. Len(a) \in 0..Len(a)
  BY <1>2
<1> QED BY <1>2, <1>4, <1>5, <1>6 DEF FinalCost

LEMMA NoSurplus ==
  ASSUME NEW page, PageTyped(page), \A b \in 0..Len(page) : Rise(page, b) >= 0
  PROVE  ~HasSurplusClose(page)
<1> SUFFICES ASSUME NEW b \in DOMAIN page,
                    Cardinality({i \in 1..b : page[i].kind = "close"})
                      > Cardinality({i \in 1..b : page[i].kind = "open"})
             PROVE  FALSE
  BY DEF HasSurplusClose
<1> DEFINE C == {i \in 1..b : page[i].kind = "close"}
           O == {i \in 1..b : page[i].kind = "open"}
<1>1. b \in 0..Len(page) /\ b \in Nat
  BY DEF PageTyped
<1>2. Cardinality(C) \in Nat /\ Cardinality(O) \in Nat
  <2>1. IsFiniteSet(1..b)
    BY <1>1, FS_Interval
  <2>2. IsFiniteSet(C) /\ IsFiniteSet(O)
    <3>1. C \subseteq 1..b /\ O \subseteq 1..b
      OBVIOUS
    <3> HIDE DEF C, O
    <3> QED BY <2>1, <3>1, FS_Subset
  <2> QED BY <2>2, FS_CardinalityType
<1>3. Rise(page, b) = Cardinality(O) - Cardinality(C) /\ Rise(page, b) >= 0
  BY <1>1 DEF Rise
<1> QED BY <1>2, <1>3

LEMMA CheckedCorrect ==
  ASSUME Inv, Correct, Checked
  PROVE  Correct'
<1>1. /\ IsCheck /\ score.trained > 0 /\ status \in {"accepted", "refused"} /\ job' = job
      /\ status' = "gone" /\ parser' = parser
      /\ score' = [score EXCEPT !.verdict = IF ParseScore = score.trained THEN "clean" ELSE "alarm"]
  BY DEF Checked
<1>2. DOMAIN score = {"trained", "verdict"} /\ job.check \in Checks
  BY <1>1 DEF Correct, Jobs
<1>3. /\ score'.trained = score.trained /\ DOMAIN score' = {"trained", "verdict"}
      /\ score'.verdict = IF ParseScore = score.trained THEN "clean" ELSE "alarm"
  BY <1>1, <1>2
<1>4. IsCheck' = IsCheck /\ TrainingPage' = TrainingPage
  BY <1>1 DEF IsCheck, TrainingPage
<1>5. Outcome'
  BY <1>1 DEF Outcome
<1>6. Jobs'
  BY <1>1, <1>2, <1>3, <1>4 DEF Jobs
<1>7. Training'
  BY <1>3, <1>4 DEF Correct, Training
<1>8. PlainArgumentsClean'
  <2> DEFINE ap == FilledPage(job.check.template, job.check.argv)
             tp == TrainingPage
  <2> SUFFICES ASSUME score'.verdict = "alarm", AllStand(job.check.trained), AllStand(job.check.argv)
               PROVE  FALSE
    <3>1. \A argv : AllStand(argv) <=> AllStand(argv)'
      BY <1>1 DEF AllStand
    <3> QED BY <1>1, <3>1 DEF PlainArgumentsClean
  <2>1. Ordinary(tp) /\ Ordinary(ap) /\ ~HasNoValue(ap)
    BY DEF AllStand, TrainingPage
  <2>2. score.trained # 0
    <3>1. ~(0 > 0)
      OBVIOUS
    <3> QED BY <1>1, <3>1
  <2>3. Page = ap
    BY <1>1, <2>2 DEF Page
  <2>4. Scored(tp, score.trained)
    BY <1>1, <2>1, <2>2 DEF Correct, Training
  <2>5. Alike(tp, ap)
    <3>1. tp = FilledPage(job.check.template, job.check.trained)
      BY DEF TrainingPage
    <3> HIDE DEF tp
    <3> QED BY <1>2, <2>1, <3>1, FilledAlike
  <2> HIDE DEF ap, tp
  <2>6. FinalCost(tp) = FinalCost(ap) /\ \A k : Rise(tp, k) = Rise(ap, k) \/ k \notin 0..Len(tp)
    BY <2>1, <2>5, AlikeCost
  <2>7. CASE status = "accepted"
    <3>1. ParseScore = parser.reduced
      BY <2>7 DEF ParseScore
    <3>2. Scored(ap, parser.reduced)
      BY <1>1, <2>1, <2>3, <2>7 DEF Correct, Outcome
    <3>3. ParseScore = score.trained
      BY <2>4, <2>6, <3>1, <3>2 DEF Scored
    <3> QED BY <1>3, <3>3
  <2>8. CASE status = "refused"
    <3>1. HasSurplusClose(ap)
      BY <2>1, <2>3, <2>8 DEF Correct, Outcome
    <3>2. PageTyped(ap) /\ PageTyped(tp)
      BY <2>1, PageLaid DEF LaidPage
    <3>3. Len(tp) = Len(ap)
      BY <2>5, <3>2, SameLength DEF PageTyped, Alike
    <3>4. \A k \in 0..Len(ap) : Rise(ap, k) >= 0
      BY <2>4, <2>6, <3>3 DEF Scored
    <3> QED BY <3>1, <3>2, <3>4, NoSurplus
  <2> QED BY <1>1, <2>7, <2>8
<1> QED BY <1>5, <1>6, <1>7, <1>8 DEF Correct

-----------------------------------------------------------------------------
(* The theorems.                                                           *)

LEMMA DecodingKeeps ==
  ASSUME Inv, Correct, DecodingStep
  PROVE  Correct'
<1>1. job' = job /\ score' = score
  BY Zenon DEF DecodingStep, Feed, Suspend, Eat, Token, PutBack, EndOfInput, Lex
<1>2. Outcome /\ Jobs
  BY DEF Correct
<1>3. Outcome'
  <2>1. ASSUME NEW n, NEW l, Feed(n, l) PROVE Outcome'
    BY <1>2, <2>1, FeedOutcome
  <2>2. CASE Suspend
    BY <1>2, <2>2, SuspendOutcome
  <2>3. CASE Eat
    BY <1>2, <2>3, EatOutcome
  <2>4. CASE Token
    BY <1>2, <2>4, TokenOutcome
  <2>5. CASE PutBack
    BY <1>2, <2>5, PutBackOutcome
  <2>6. CASE EndOfInput
    BY <1>2, <2>6, EndOutcome
  <2> QED BY <2>1, <2>2, <2>3, <2>4, <2>5, <2>6, Zenon DEF DecodingStep
<1>4. parser'.dom = parser.dom
  <2>1. ASSUME NEW type, NEW text, status = "call" PROVE Push(parser, type, text).parser.dom = parser.dom
    BY <2>1, PushResult DEF Inv, Result
  <2>2. ASSUME NEW n, NEW l, Feed(n, l) PROVE parser' = parser
    BY <2>2 DEF Feed
  <2>3. CASE Suspend \/ Eat \/ PutBack
    BY <2>3 DEF Suspend, Eat, PutBack
  <2>4. CASE Token
    <3>1. \E type, text : parser' = Push(parser, type, text).parser
      BY <2>4, Zenon DEF Token
    <3>2. status = "call"
      BY <2>4 DEF Token
    <3> QED BY <2>1, <3>1, <3>2
  <2>5. CASE EndOfInput
    <3>1. parser' = Push(parser, "EOF", <<>>).parser /\ status = "call"
      BY <2>5 DEF EndOfInput
    <3> QED BY <2>1, <3>1
  <2>6. \/ \E n, l : Feed(n, l)
        \/ Suspend \/ Eat \/ PutBack
        \/ Token \/ EndOfInput
    BY Zenon DEF DecodingStep
  <2> QED BY <2>2, <2>3, <2>4, <2>5, <2>6
<1> QED BY <1>1, <1>3, <1>4, Steady

LEMMA DestroyCorrect ==
  ASSUME Inv, Correct, Destroy
  PROVE  Correct'
<1>1. /\ status \in {"idle", "accepted", "refused"} /\ status' = "gone"
      /\ parser' = Destroyed(parser) /\ job' = job /\ score' = score
  BY DEF Destroy
<1>2. Typed(parser)
  BY <1>1 DEF Inv, Growing, Ended
<1>3. parser'.dom = parser.dom
  BY <1>1, <1>2 DEF Destroyed, Typed
<1>4. Outcome'
  BY <1>1 DEF Outcome
<1> QED BY <1>1, <1>3, <1>4, Steady

LEMMA StutterCorrect ==
  ASSUME Correct, UNCHANGED vars
  PROVE  Correct'
<1>1. /\ job' = job /\ html' = html /\ greedy' = greedy /\ from' = from /\ fed' = fed /\ last' = last
      /\ buf' = buf /\ start' = start /\ saved' = saved /\ lex' = lex /\ parser' = parser
      /\ status' = status /\ score' = score
  BY DEF vars
<1>2. Page' = Page /\ IsCheck' = IsCheck
  BY <1>1, PageStays
<1>3. Underway <=> Underway'
  BY <1>1, <1>2 DEF Underway, Buffered, EmptyValueHeld, ValueHeld, Pos
<1>4. PlainStarts' = PlainStarts
  BY <1>1 DEF PlainStarts
<1>5. Outcome'
  BY <1>1, <1>2, <1>3, <1>4 DEF Correct, Outcome
<1> QED BY <1>1, <1>5, Steady

LEMMA NextCorrect == Inv /\ Correct /\ [Next]_vars => Correct'
<1> SUFFICES ASSUME Inv, Correct, [Next]_vars PROVE Correct'
  OBVIOUS
<1>1. CASE DecodingStep
  BY <1>1, DecodingKeeps
<1>2. CASE Destroy
  BY <1>2, DestroyCorrect
<1>3. CASE Trained
  BY <1>3, TrainedCorrect
<1>4. CASE Checked
  BY <1>4, CheckedCorrect
<1>5. CASE UNCHANGED vars
  BY <1>5, StutterCorrect
<1> QED BY <1>1, <1>2, <1>3, <1>4, <1>5, Zenon DEF Next, DecodingStep

LEMMA CorrectTree == Correct => TreeAsWritten
<1> SUFFICES ASSUME Correct, ~IsCheck
             PROVE  /\ status = "accepted" => NodesAre(job.page) /\ (HasVoid(job.page) \/ PlacesAre(job.page))
                    /\ status = "refused" => HasSurplusClose(job.page) \/ HasNoValue(job.page)
                    /\ status = "crashed" => from + 1 \in PlainStarts \/ (greedy /\ from \in PlainStarts)
  BY DEF TreeAsWritten
<1> DEFINE page == job.page
<1>1. Page = page /\ Ordinary(page)
  <2>1. page \in Pages
    BY DEF Correct, Jobs
  <2> QED BY <2>1, HtmlAssumption DEF Page
<1>2. /\ status = "accepted" => TreeIs(page, parser)
      /\ status = "refused" => HasSurplusClose(page) \/ HasNoValue(page)
      /\ status = "crashed" => from + 1 \in PlainStarts \/ (greedy /\ from \in PlainStarts)
  BY <1>1 DEF Correct, Outcome
<1>3. PageTyped(page)
  BY <1>1, PageLaid DEF LaidPage
<1> HIDE DEF page
<1>4. ASSUME TreeIs(page, parser) PROVE NodesAre(page) /\ (HasVoid(page) \/ PlacesAre(page))
  <2>1. DOMAIN page = 1..Len(page)
    BY <1>3 DEF PageTyped
  <2>2. NodesAre(page)
    BY <1>4, <2>1, Zenon DEF TreeIs, NodesSoFar, NodesAre
  <2>3. ~HasVoid(page) => PlacesAre(page)
    BY <1>4, Zenon DEF TreeIs, PlacesAre
  <2> QED BY <2>2, <2>3
<1> QED BY <1>2, <1>4 DEF page

LEMMA Correctness == Spec => []Correct
<1>1. Init => Inv
  BY InitInv
<1>2. Init => Correct
  BY InitCorrect
<1>3. Inv /\ [Next]_vars => Inv'
  BY NextInv
<1>4. Inv /\ Correct /\ [Next]_vars => Correct'
  BY NextCorrect
<1> QED BY <1>1, <1>2, <1>3, <1>4, PTL DEF Spec

\* Whatever the page of an ordinary writer and wherever it is cut: a page that comes
\* to its end has become the tree that is written, it is refused only for a closing
\* tag too many or an empty value in the open, and decoding stops the program only
\* where a piece begins at, or for a greedy parser just behind the first character of,
\* a value in the open.
THEOREM TreeAlwaysAsWritten == Spec => []TreeAsWritten
BY Correctness, CorrectTree, PTL

\* Whatever the template and the arguments: those that leave every text one text and
\* every value one value raise no alarm, unless the template they fill is too long.
THEOREM PlainArgumentsAlwaysClean == Spec => []PlainArgumentsClean
<1>1. Correct => PlainArgumentsClean
  BY DEF Correct
<1> QED BY <1>1, Correctness, PTL
=============================================================================
