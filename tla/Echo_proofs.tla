---------------------------- MODULE Echo_proofs ----------------------------
(* Theorems about Echo, for every number and size of buffers, every length *)
(* of head and every number of bytes, and about the lists of DList.        *)
EXTENDS Echo, FiniteSetTheorems, WellFoundedInduction, TLAPS

-----------------------------------------------------------------------------
(* Numbers *)

(* A set of natural numbers that is not empty has a least one.             *)
LEMMA LeastExists ==
  ASSUME NEW S \in SUBSET Nat, S # {}
  PROVE  \E m \in S : \A n \in S : m <= n
<1> DEFINE R == OpToRel(<, Nat)
<1>1. IsWellFoundedOn(R, Nat)
  BY NatLessThanWellFounded
<1>2. \A x, y \in Nat : x < y => <<x, y>> \in R
  BY DEF OpToRel
<1> HIDE DEF R
<1>3. PICK m \in S : \A n \in S : ~(<<n, m>> \in R)
  BY <1>1, WFMin
<1>4. ASSUME NEW n \in S PROVE m <= n
  <2>1. ~(n < m)
    BY <1>2, <1>3
  <2>. QED
    BY <2>1
<1>. QED
  BY <1>4

(* One that has 0 and with every number the next one has them all.         *)
LEMMA SetInduction ==
  ASSUME NEW S \in SUBSET Nat, 0 \in S, \A n \in S : n + 1 \in S
  PROVE  S = Nat
<1>1. SUFFICES ASSUME Nat \ S # {} PROVE FALSE
  OBVIOUS
<1>2. PICK m \in Nat \ S : \A n \in Nat \ S : m <= n
  BY <1>1, LeastExists
<1>3. m # 0 /\ m - 1 \in Nat /\ m - 1 \notin Nat \ S
  BY <1>2
<1>. QED
  BY <1>2, <1>3

-----------------------------------------------------------------------------
(* The bounds and the nodes *)

(* The bounds, and the number of buffers, are positive.                    *)
LEMMA Sizes ==
  /\ NBUFS \in Nat \ {0} /\ BUF_SIZE \in Nat \ {0}
  /\ HeadLen \in Nat \ {0} /\ MaxBytes \in Nat \ {0}
  /\ NBUFS * (MaxBytes + 1) \in Nat \ {0}
<1>1. /\ NBUFS \in Nat \ {0} /\ BUF_SIZE \in Nat \ {0}
      /\ HeadLen \in Nat \ {0} /\ MaxBytes \in Nat \ {0}
  BY ConstantsAssumption
<1>2. \A a, b \in Nat \ {0} : a * (b + 1) \in Nat \ {0}
  OBVIOUS
<1>. QED
  BY <1>1, <1>2

(* The heads are no buffers, and there are finitely many nodes.            *)
LEMMA NodeFacts ==
  /\ Bufs \cap Heads = {} /\ Bufs \subseteq Nodes /\ Heads \subseteq Nodes
  /\ Bufs \subseteq Nat
  /\ m_readbuf_queue \in Heads /\ old_queue \in Heads /\ tmp_queue \in Heads
  /\ m_readbuf_queue # old_queue /\ m_readbuf_queue # tmp_queue
  /\ old_queue # tmp_queue
  /\ IsFiniteSet(Bufs) /\ Cardinality(Bufs) = NBUFS * (MaxBytes + 1)
  /\ IsFiniteSet(Nodes) /\ Cardinality(Nodes) \in Nat
  /\ Cardinality(Bufs) <= Cardinality(Nodes)
<1> DEFINE m == NBUFS * (MaxBytes + 1)
<1>1. m \in Nat \ {0}
  BY Sizes
<1>2. Bufs = 1..m
  BY DEF Bufs
<1> HIDE DEF m
<1>3. Bufs \subseteq Nat
  BY <1>1, <1>2
<1>4. /\ Bufs \cap Heads = {}
      /\ Heads = {m_readbuf_queue, old_queue, tmp_queue}
      /\ m_readbuf_queue # old_queue /\ m_readbuf_queue # tmp_queue
      /\ old_queue # tmp_queue
  BY <1>1, <1>2 DEF Heads, m_readbuf_queue, old_queue, tmp_queue
<1>5. IsFiniteSet(1..m) /\ Cardinality(1..m) = m
  <2>1. 1 \in Int /\ m \in Int /\ 1 <= m /\ m - 1 + 1 = m
    BY <1>1
  <2>. QED
    BY <2>1, FS_Interval
<1>6. IsFiniteSet(Heads)
  <2>1. IsFiniteSet({m_readbuf_queue})
    BY FS_Singleton
  <2>2. IsFiniteSet({m_readbuf_queue} \cup {old_queue})
    BY <2>1, FS_AddElement
  <2>3. IsFiniteSet(({m_readbuf_queue} \cup {old_queue}) \cup {tmp_queue})
    BY <2>2, FS_AddElement
  <2>4. Heads = ({m_readbuf_queue} \cup {old_queue}) \cup {tmp_queue}
    BY DEF Heads
  <2>. QED
    BY <2>3, <2>4
<1>7. IsFiniteSet(Nodes) /\ Bufs \subseteq Nodes /\ Heads \subseteq Nodes
  BY <1>2, <1>5, <1>6, FS_Union DEF Nodes
<1>8. Cardinality(Nodes) \in Nat /\ Cardinality(Bufs) <= Cardinality(Nodes)
  BY <1>7, FS_CardinalityType, FS_Subset
<1>. QED
  BY <1>2, <1>3, <1>4, <1>5, <1>7, <1>8 DEF m

-----------------------------------------------------------------------------
(* The rings of list.h.  The nodes of the ring of l are, from its head on, *)
(* Place(l, s, 0), Place(l, s, 1) and so on, up to the head again.         *)

Memory == [mp_next : [Nodes -> Nodes], mp_prev : [Nodes -> Nodes]]

Place(l, s, i) == IF i \in 1..Len(s) THEN s[i] ELSE l

RingOf(g, l, s) ==
  /\ s \in Seq(Bufs)
  /\ \A i, j \in 1..Len(s) : s[i] = s[j] => i = j
  /\ \A i \in 0..Len(s) :
       /\ g.mp_next[Place(l, s, i)] = Place(l, s, i + 1)
       /\ g.mp_prev[Place(l, s, i + 1)] = Place(l, s, i)

(* A ring has as many nodes as its walk has steps, and one more.           *)
LEMMA RingSize ==
  ASSUME NEW g, NEW l \in Heads, NEW s, RingOf(g, l, s)
  PROVE  /\ Len(s) \in Nat /\ Len(s) <= Cardinality(Bufs)
         /\ ToSet(s) = {s[i] : i \in 1..Len(s)} /\ ToSet(s) \subseteq Bufs
         /\ IsFiniteSet(ToSet(s)) /\ Cardinality(ToSet(s)) = Len(s)
<1> DEFINE n == Len(s)
           I == {s[i] : i \in 1..n}
           f == [i \in 1..n |-> s[i]]
<1>0. s \in Seq(Bufs) /\ n \in Nat /\ DOMAIN s = 1..n
  BY DEF RingOf
<1>1. ToSet(s) = I /\ I \subseteq Bufs
  BY <1>0 DEF ToSet
<1>2. f \in Surjection(1..n, I)
  BY DEF Surjection
<1>3. f \in Injection(1..n, I)
  BY DEF Injection, IsInjective, RingOf
<1>4. IsFiniteSet(1..n) /\ Cardinality(1..n) = n
  <2>1. CASE n = 0
    <3>1. 1..n = {}
      BY <2>1
    <3>. QED
      BY <2>1, <3>1, FS_EmptySet
  <2>2. CASE n # 0
    <3>1. 1 \in Int /\ n \in Int /\ 1 <= n /\ n - 1 + 1 = n
      BY <1>0, <2>2
    <3> HIDE DEF n
    <3>. QED
      BY <3>1, FS_Interval
  <2>. QED
    BY <2>1, <2>2
<1>5. IsFiniteSet(I) /\ Cardinality(I) = n
  <2> HIDE DEF f, I, n
  <2>. QED
    BY <1>2, <1>3, <1>4, FS_Surjection
<1>6. Cardinality(I) <= Cardinality(Bufs)
  BY <1>1, NodeFacts, FS_Subset
<1>. QED
  BY <1>0, <1>1, <1>5, <1>6

IsWalk(next, l, K, f) ==
  /\ f \in [Nodes \X (0..K) -> Seq(Nodes)]
  /\ \A p \in Nodes \X (0..K) :
       f[p] = IF p[1] = l \/ p[2] = 0 THEN <<>>
              ELSE <<p[1]>> \o f[<<next[p[1]], p[2] - 1>>]

(* The walk is a function: there is one with as many steps as one likes.   *)
LEMMA WalkExists ==
  ASSUME NEW next \in [Nodes -> Nodes], NEW l, NEW K \in Nat
  PROVE  \E f : IsWalk(next, l, K, f)
<1> DEFINE Good(k, f) ==
             \A p \in Nodes \X (0..k) :
               f[p] = IF p[1] = l \/ p[2] = 0 THEN <<>>
                      ELSE <<p[1]>> \o f[<<next[p[1]], p[2] - 1>>]
           S == {k \in Nat : \E f \in [Nodes \X (0..k) -> Seq(Nodes)] :
                               Good(k, f)}
<1>1. 0 \in S
  <2> DEFINE f == [p \in Nodes \X (0..0) |-> <<>>]
  <2>1. f \in [Nodes \X (0..0) -> Seq(Nodes)]
    OBVIOUS
  <2>2. Good(0, f)
    OBVIOUS
  <2>. QED
    BY <2>1, <2>2
<1>2. ASSUME NEW k \in S PROVE k + 1 \in S
  <2>1. k \in Nat
    OBVIOUS
  <2>2. PICK f \in [Nodes \X (0..k) -> Seq(Nodes)] : Good(k, f)
    BY <1>2
  <2> DEFINE e == [p \in Nodes \X (0..(k + 1)) |->
                     IF p[2] <= k THEN f[p]
                     ELSE IF p[1] = l THEN <<>>
                     ELSE <<p[1]>> \o f[<<next[p[1]], k>>]]
  <2>3. ASSUME NEW p \in Nodes \X (0..(k + 1))
        PROVE  /\ e[p] \in Seq(Nodes)
               /\ e[p] = IF p[1] = l \/ p[2] = 0 THEN <<>>
                         ELSE <<p[1]>> \o e[<<next[p[1]], p[2] - 1>>]
    <3>1. /\ p[1] \in Nodes /\ p[2] \in 0..(k + 1) /\ next[p[1]] \in Nodes
          /\ p = <<p[1], p[2]>>
      OBVIOUS
    <3>2. <<p[1]>> \in Seq(Nodes)
      BY <3>1
    <3>3. CASE p[2] <= k
      <4>1. p \in Nodes \X (0..k) /\ e[p] = f[p]
        BY <2>1, <3>1, <3>3
      <4>2. p[2] # 0 => /\ p[2] - 1 \in 0..k /\ p[2] - 1 \in 0..(k + 1)
                        /\ p[2] - 1 <= k
        BY <2>1, <3>1, <3>3
      <4>3. p[2] # 0 => e[<<next[p[1]], p[2] - 1>>]
                          = f[<<next[p[1]], p[2] - 1>>]
        BY <3>1, <4>2
      <4>4. f[p] \in Seq(Nodes)
        BY <4>1
      <4>5. f[p] = IF p[1] = l \/ p[2] = 0 THEN <<>>
                   ELSE <<p[1]>> \o f[<<next[p[1]], p[2] - 1>>]
        BY <2>2, <4>1
      <4> HIDE DEF e
      <4>. QED
        BY <4>1, <4>3, <4>4, <4>5
    <3>4. CASE ~(p[2] <= k)
      <4>1. p[2] = k + 1 /\ p[2] - 1 = k /\ p[2] # 0 /\ k \in 0..k /\ k <= k
            /\ k \in 0..(k + 1)
        BY <2>1, <3>1, <3>4
      <4>2. <<next[p[1]], k>> \in Nodes \X (0..k)
        BY <3>1, <4>1
      <4>3. /\ f[<<next[p[1]], k>>] \in Seq(Nodes)
            /\ e[<<next[p[1]], k>>] = f[<<next[p[1]], k>>]
        BY <3>1, <4>1, <4>2
      <4>4. <<p[1]>> \o f[<<next[p[1]], k>>] \in Seq(Nodes)
        BY <3>2, <4>3
      <4>5. e[p] = IF p[1] = l THEN <<>>
                   ELSE <<p[1]>> \o f[<<next[p[1]], k>>]
        BY <3>4
      <4>6. <<>> \in Seq(Nodes)
        OBVIOUS
      <4> HIDE DEF e
      <4>. QED
        BY <4>1, <4>3, <4>4, <4>5, <4>6
    <3>. QED
      BY <3>3, <3>4
  <2>4. e \in [Nodes \X (0..(k + 1)) -> Seq(Nodes)]
    BY <2>3
  <2>5. Good(k + 1, e)
    BY <2>3
  <2> HIDE DEF e, Good
  <2>. QED
    BY <2>1, <2>4, <2>5
<1>3. S = Nat
  <2> HIDE DEF S
  <2>1. S \in SUBSET Nat
    BY DEF S
  <2>. QED
    BY <1>1, <1>2, <2>1, SetInduction
<1>. QED
  BY <1>3 DEF IsWalk

(* The walk satisfies the equation that defines it.                        *)
LEMMA WalkIs ==
  ASSUME NEW g \in Memory, NEW l
  PROVE  \A p \in Nodes \X (0..Cardinality(Nodes)) :
           Walk(g, l)[p]
             = IF p[1] = l \/ p[2] = 0 THEN <<>>
               ELSE <<p[1]>> \o Walk(g, l)[<<g.mp_next[p[1]], p[2] - 1>>]
<1> DEFINE C == Cardinality(Nodes)
           next == g.mp_next
           Rec(f) == [p \in Nodes \X (0..C) |->
                        IF p[1] = l \/ p[2] = 0 THEN <<>>
                        ELSE <<p[1]>> \o f[<<next[p[1]], p[2] - 1>>]]
<1>1. next \in [Nodes -> Nodes] /\ C \in Nat /\ DOMAIN next = Nodes
  BY NodeFacts DEF Memory
<1>2. \E f : IsWalk(next, l, C, f)
  <2> HIDE DEF C, next
  <2>. QED
    BY <1>1, WalkExists
<1>3. \E f : f = Rec(f)
  <2> HIDE DEF C, next
  <2>1. PICK f : IsWalk(next, l, C, f)
    BY <1>2
  <2>2. f = Rec(f)
    BY <2>1 DEF IsWalk
  <2>. QED
    BY <2>2
<1>4. Walk(g, l) = Rec(Walk(g, l))
  BY <1>1, <1>3, Zenon DEF Walk
<1> DEFINE w == Walk(g, l)
<1> HIDE DEF w, C, next
<1>5. \A p \in Nodes \X (0..C) :
        w[p] = IF p[1] = l \/ p[2] = 0 THEN <<>>
               ELSE <<p[1]>> \o w[<<next[p[1]], p[2] - 1>>]
  BY <1>4 DEF w
<1>. QED
  BY <1>5 DEF w, C, next

(* A walk over a ring meets its nodes in their order.                      *)
LEMMA ForEachIs ==
  ASSUME NEW g \in Memory, NEW l \in Heads, NEW s, RingOf(g, l, s)
  PROVE  dlist_for_each_f(g, l) = s
<1> DEFINE n == Len(s)
           C == Cardinality(Nodes)
           w == Walk(g, l)
           Rest(d) == [j \in 1..d |-> s[(n - d) + j]]
           S == {d \in Nat : d <= n =>
                   \A k \in d..C : w[<<Place(l, s, (n + 1) - d), k>>] = Rest(d)}
<1>0. s \in Seq(Bufs) /\ n \in Nat
  BY DEF RingOf
<1>1. n <= C /\ C \in Nat
  <2>1. n <= Cardinality(Bufs)
    BY RingSize
  <2>2. Cardinality(Bufs) <= C /\ C \in Nat /\ Cardinality(Bufs) \in Nat
    BY NodeFacts, FS_CardinalityType
  <2> HIDE DEF n, C
  <2>. QED
    BY <1>0, <2>1, <2>2
<1>2. \A i \in 0..(n + 1) : Place(l, s, i) \in Nodes
  <2>1. \A i \in 1..n : s[i] \in Nodes
    BY <1>0 DEF Nodes
  <2>2. l \in Nodes
    BY NodeFacts
  <2>. QED
    BY <2>1, <2>2 DEF Place
<1>3. g.mp_next \in [Nodes -> Nodes] /\ DOMAIN g.mp_next = Nodes
  BY DEF Memory
<1>4. \A i \in 1..n : s[i] # l /\ Place(l, s, i) = s[i]
  BY <1>0, NodeFacts DEF Place
<1>5. Place(l, s, n + 1) = l /\ Place(l, s, 0) = l
  BY <1>0 DEF Place
<1>6. \A i \in 0..n : g.mp_next[Place(l, s, i)] = Place(l, s, i + 1)
  BY DEF RingOf
<1>7. \A p \in Nodes \X (0..C) :
        w[p] = IF p[1] = l \/ p[2] = 0 THEN <<>>
               ELSE <<p[1]>> \o w[<<g.mp_next[p[1]], p[2] - 1>>]
  BY WalkIs
<1> HIDE DEF w, C, n
<1>8. 0 \in S
  <2> SUFFICES ASSUME NEW k \in 0..C PROVE w[<<l, k>>] = Rest(0)
    BY <1>0, <1>5
  <2>1. <<l, k>> \in Nodes \X (0..C)
    BY NodeFacts
  <2>2. w[<<l, k>>] = <<>>
    BY <1>7, <2>1
  <2>3. Rest(0) = <<>>
    OBVIOUS
  <2>. QED
    BY <2>2, <2>3
<1>9. ASSUME NEW d \in S PROVE d + 1 \in S
  <2>0. (n + 1) - (d + 1) = n - d /\ d + 1 \in Nat
    BY <1>0
  <2> SUFFICES ASSUME d + 1 <= n, NEW k \in (d + 1)..C
               PROVE  w[<<Place(l, s, n - d), k>>] = Rest(d + 1)
    <3> HIDE DEF Rest
    <3>. QED
      BY <2>0
  <2>1. /\ d \in Nat /\ n - d \in 1..n /\ n - d \in 0..n /\ k \in 0..C
        /\ k # 0 /\ k - 1 \in d..C /\ (n - d) + 1 = (n + 1) - d /\ d <= n
        /\ n - (d + 1) = (n - d) - 1
    BY <1>0, <1>1
  <2>2. Place(l, s, n - d) = s[n - d] /\ s[n - d] # l /\ s[n - d] \in Nodes
    <3>1. n - d \in 0..(n + 1)
      BY <1>0, <2>1
    <3>2. Place(l, s, n - d) \in Nodes
      BY <1>2, <3>1
    <3>. QED
      BY <1>4, <2>1, <3>2
  <2>3. g.mp_next[s[n - d]] = Place(l, s, (n + 1) - d)
    BY <1>6, <2>1, <2>2
  <2>4. w[<<Place(l, s, (n + 1) - d), k - 1>>] = Rest(d)
    BY <2>1
  <2>5. w[<<s[n - d], k>>] = <<s[n - d]>> \o Rest(d)
    <3>1. <<s[n - d], k>> \in Nodes \X (0..C)
      BY <2>1, <2>2
    <3> HIDE DEF Rest
    <3>. QED
      BY <1>7, <2>1, <2>2, <2>3, <2>4, <3>1
  <2>6. <<s[n - d]>> \o Rest(d) = Rest(d + 1)
    <3>1. Rest(d) \in Seq(Bufs) /\ Len(Rest(d)) = d
      <4>1. \A j \in 1..d : (n - d) + j \in 1..n
        BY <1>0, <2>1
      <4>2. \A i \in 1..n : s[i] \in Bufs
        BY <1>0 DEF n
      <4>3. \A j \in 1..d : s[(n - d) + j] \in Bufs
        BY <4>1, <4>2
      <4>4. Rest(d) \in [1..d -> Bufs]
        BY <4>3
      <4>5. d \in Nat
        BY <2>1
      <4> HIDE DEF Rest
      <4>. QED
        BY <4>4, <4>5
    <3>2. \A j \in 1..d : Rest(d)[j] = s[(n - d) + j]
      OBVIOUS
    <3>3. s[n - d] \in Bufs
      BY <1>0, <2>1 DEF n
    <3> DEFINE c == <<s[n - d]>> \o Rest(d)
    <3>4. /\ c \in Seq(Bufs) /\ Len(c) = d + 1 /\ c[1] = s[n - d]
          /\ \A j \in 2..(d + 1) : c[j] = Rest(d)[j - 1]
      <4> HIDE DEF Rest
      <4>. QED
        BY <2>1, <3>1, <3>3
    <3>5. \A j \in 1..(d + 1) : c[j] = s[(n - (d + 1)) + j]
      <4> HIDE DEF c
      <4>1. (n - (d + 1)) + 1 = n - d
        BY <1>0, <2>1
      <4>2. ASSUME NEW j \in 2..(d + 1)
            PROVE  j - 1 \in 1..d /\ (n - d) + (j - 1) = (n - (d + 1)) + j
        BY <1>0, <2>1
      <4>3. \A j \in 1..(d + 1) : j = 1 \/ j \in 2..(d + 1)
        BY <2>1
      <4> HIDE DEF Rest
      <4>. QED
        BY <3>2, <3>4, <4>1, <4>2, <4>3
    <3>6. c = [j \in 1..(d + 1) |-> c[j]]
      <4> HIDE DEF c
      <4>. QED
        BY <3>4
    <3> HIDE DEF c
    <3>7. c = Rest(d + 1)
      BY <3>5, <3>6
    <3>. QED
      BY <3>7 DEF c
  <2>. QED
    BY <2>2, <2>5, <2>6
<1>10. S = Nat
  <2> HIDE DEF S
  <2>1. S \in SUBSET Nat
    BY DEF S
  <2>. QED
    BY <1>8, <1>9, <2>1, SetInduction
<1>11. w[<<Place(l, s, 1), C>>] = Rest(n)
  <2>1. n \in S /\ C \in n..C /\ (n + 1) - n = 1 /\ n <= n
    BY <1>0, <1>1, <1>10
  <2>. QED
    BY <2>1
<1>12. Rest(n) = s
  BY <1>0 DEF n
<1>13. g.mp_next[l] = Place(l, s, 1)
  BY <1>0, <1>5, <1>6
<1>. QED
  BY <1>3, <1>11, <1>12, <1>13 DEF dlist_for_each_f, w, C

(* A ring does not depend on the links of nodes that are not on it.        *)
LEMMA RingFrame ==
  ASSUME NEW g, NEW e, NEW l, NEW s, RingOf(g, l, s),
         \A x \in {l} \cup ToSet(s) : /\ e.mp_next[x] = g.mp_next[x]
                                      /\ e.mp_prev[x] = g.mp_prev[x]
  PROVE  RingOf(e, l, s)
<1>1. s \in Seq(Bufs) /\ Len(s) \in Nat
  BY DEF RingOf
<1>2. \A i \in 0..(Len(s) + 1) : Place(l, s, i) \in {l} \cup ToSet(s)
  BY <1>1 DEF Place, ToSet
<1>3. \A i \in 0..Len(s) : i \in 0..(Len(s) + 1) /\ i + 1 \in 0..(Len(s) + 1)
  BY <1>1
<1>. QED
  BY <1>2, <1>3 DEF RingOf

(* The ring of an empty list.                                              *)
LEMMA RingEmpty ==
  ASSUME NEW g, NEW l, g.mp_next[l] = l, g.mp_prev[l] = l
  PROVE  RingOf(g, l, <<>>) /\ ToSet(<<>>) = {}
<1>1. \A i \in Int : Place(l, <<>>, i) = l
  BY DEF Place
<1>2. <<>> \in Seq(Bufs) /\ Len(<<>>) = 0
  OBVIOUS
<1>. QED
  BY <1>1, <1>2 DEF RingOf, ToSet

(* The neighbours of a head.                                               *)
LEMMA RingEnds ==
  ASSUME NEW g, NEW l \in Heads, NEW s, RingOf(g, l, s)
  PROVE  /\ dlist_empty(g, l) <=> s = <<>>
         /\ g.mp_next[l] = IF s = <<>> THEN l ELSE s[1]
         /\ g.mp_prev[l] = IF s = <<>> THEN l ELSE s[Len(s)]
         /\ s # <<>> => Len(s) > 0 /\ s[1] \in Bufs /\ s[Len(s)] \in Bufs
<1>1. s \in Seq(Bufs) /\ Len(s) \in Nat
  BY DEF RingOf
<1>2. /\ g.mp_next[Place(l, s, 0)] = Place(l, s, 0 + 1)
      /\ g.mp_prev[Place(l, s, Len(s) + 1)] = Place(l, s, Len(s))
  BY <1>1 DEF RingOf
<1>3. Place(l, s, 0) = l /\ Place(l, s, Len(s) + 1) = l
  BY <1>1 DEF Place
<1>4. CASE s = <<>>
  BY <1>2, <1>3, <1>4 DEF Place, dlist_empty
<1>5. CASE s # <<>>
  <2>1. 1 \in 1..Len(s) /\ Len(s) \in 1..Len(s)
    BY <1>1, <1>5
  <2>2. s[1] \in Bufs /\ s[Len(s)] \in Bufs /\ l \notin Bufs
    BY <1>1, <2>1, NodeFacts
  <2>. QED
    BY <1>1, <1>2, <1>3, <1>5, <2>1, <2>2 DEF Place, dlist_empty
<1>. QED
  BY <1>4, <1>5

(* dlist_init makes the ring of l empty and touches no other node.         *)
LEMMA InitRing ==
  ASSUME NEW g \in Memory, NEW l \in Nodes, NEW e, e = dlist_init(g, l)
  PROVE  /\ e \in Memory /\ RingOf(e, l, <<>>)
         /\ \A x \in Nodes \ {l} : /\ e.mp_next[x] = g.mp_next[x]
                                   /\ e.mp_prev[x] = g.mp_prev[x]
<1>1. /\ e = [mp_next |-> [g.mp_next EXCEPT ![l] = l],
              mp_prev |-> [g.mp_prev EXCEPT ![l] = l]]
      /\ g.mp_next \in [Nodes -> Nodes] /\ g.mp_prev \in [Nodes -> Nodes]
      /\ l \in Nodes
  BY NodeFacts DEF dlist_init, Memory
<1>2. e.mp_next[l] = l /\ e.mp_prev[l] = l /\ e \in Memory
  BY <1>1 DEF Memory
<1>. QED
  BY <1>1, <1>2, RingEmpty

(* dlist_add_tail puts a node that is on no list at the end.               *)
LEMMA AddTail ==
  ASSUME NEW g \in Memory, NEW l \in Heads, NEW s, RingOf(g, l, s),
         NEW n \in Bufs \ ToSet(s), NEW e, e = dlist_add_tail(g, l, n)
  PROVE  /\ e \in Memory /\ RingOf(e, l, Append(s, n))
         /\ ToSet(Append(s, n)) = ToSet(s) \cup {n}
         /\ \A x \in Nodes \ ({l, n} \cup ToSet(s)) :
              e.mp_next[x] = g.mp_next[x] /\ e.mp_prev[x] = g.mp_prev[x]
<1> DEFINE m == Len(s)
           t == Append(s, n)
           prev == Place(l, s, m)
<1>1. /\ s \in Seq(Bufs) /\ m \in Nat
      /\ \A i, j \in 1..m : s[i] = s[j] => i = j
      /\ \A i \in 0..m : /\ g.mp_next[Place(l, s, i)] = Place(l, s, i + 1)
                         /\ g.mp_prev[Place(l, s, i + 1)] = Place(l, s, i)
  BY DEF RingOf
<1>2. /\ t \in Seq(Bufs) /\ Len(t) = m + 1 /\ t[m + 1] = n
      /\ \A i \in 1..m : t[i] = s[i]
  BY <1>1
<1>3. /\ g.mp_next \in [Nodes -> Nodes] /\ g.mp_prev \in [Nodes -> Nodes]
      /\ n \in Nodes /\ l \in Nodes /\ n # l /\ l \notin Bufs /\ n \in Bufs
  BY NodeFacts DEF Memory
<1>4. /\ ToSet(s) = {s[i] : i \in 1..m} /\ \A i \in 1..m : s[i] \in Bufs
      /\ ToSet(s) \subseteq Nodes
  <2>1. DOMAIN s = 1..m
    BY <1>1
  <2>2. \A i \in 1..m : s[i] \in Bufs
    BY <1>1
  <2>. QED
    BY <2>1, <2>2 DEF ToSet, Nodes
<1>5. /\ g.mp_prev[l] = prev /\ prev \in {l} \cup ToSet(s) /\ prev \in Nodes
      /\ prev # n
  <2>1. Place(l, s, m + 1) = l /\ m \in 0..m
    BY <1>1 DEF Place
  <2>2. g.mp_prev[l] = prev
    BY <1>1, <2>1
  <2>3. prev \in {l} \cup ToSet(s)
    BY <1>1, <1>4 DEF Place
  <2>. QED
    BY <1>3, <1>4, <2>2, <2>3
<1> HIDE DEF prev
<1>6. /\ e = [mp_next |-> [g.mp_next EXCEPT ![n] = l, ![prev] = n],
              mp_prev |-> [g.mp_prev EXCEPT ![l] = n, ![n] = prev]]
  BY <1>5 DEF dlist_add_tail, dlist_add_orig
<1>7. /\ e \in Memory
      /\ \A x \in Nodes : /\ e.mp_next[x] = IF x = prev THEN n
                                            ELSE IF x = n THEN l
                                            ELSE g.mp_next[x]
                          /\ e.mp_prev[x] = IF x = n THEN prev
                                            ELSE IF x = l THEN n
                                            ELSE g.mp_prev[x]
  BY <1>3, <1>5, <1>6 DEF Memory
<1>8. /\ \A i \in 0..m : Place(l, t, i) = Place(l, s, i)
      /\ Place(l, t, m + 1) = n /\ Place(l, t, (m + 1) + 1) = l
  <2>1. m + 1 \in 1..Len(t) /\ ~((m + 1) + 1 \in 1..Len(t))
    BY <1>1, <1>2
  <2>2. \A i \in 0..m : i \in 1..Len(t) <=> i \in 1..Len(s)
    BY <1>1, <1>2
  <2> HIDE DEF t
  <2>. QED
    BY <1>2, <2>1, <2>2 DEF Place, m
<1>9. ASSUME NEW i \in 0..(m + 1)
      PROVE  /\ e.mp_next[Place(l, t, i)] = Place(l, t, i + 1)
             /\ e.mp_prev[Place(l, t, i + 1)] = Place(l, t, i)
  <2>1. CASE i = m + 1
    BY <1>3, <1>5, <1>7, <1>8, <2>1
  <2>2. CASE i = m
    <3>1. Place(l, t, i) = prev /\ Place(l, t, i + 1) = n
      BY <1>1, <1>8, <2>2 DEF prev
    <3>. QED
      BY <1>3, <1>5, <1>7, <3>1
  <2>3. CASE i < m
    <3>1. i \in 0..m /\ i + 1 \in 0..m /\ i + 1 \in 1..m /\ m \in 1..m
      BY <1>1, <2>3
    <3>2. /\ Place(l, t, i) = Place(l, s, i)
          /\ Place(l, t, i + 1) = s[i + 1] /\ Place(l, s, i + 1) = s[i + 1]
      BY <1>8, <3>1 DEF Place
    <3>3. s[i + 1] \in Nodes /\ s[i + 1] # l /\ s[i + 1] # n
      BY <1>3, <1>4, <3>1
    <3>4. /\ Place(l, s, i) \in Nodes /\ Place(l, s, i) # n
          /\ Place(l, s, i) # prev
      <4>1. CASE i = 0
        BY <1>3, <1>4, <3>1, <4>1 DEF Place, prev
      <4>2. CASE i # 0
        <5>1. i \in 1..m /\ i # m
          BY <1>1, <2>3, <4>2
        <5>2. Place(l, s, i) = s[i] /\ prev = s[m]
          BY <3>1, <5>1 DEF Place, prev
        <5>. QED
          BY <1>1, <1>4, <3>1, <5>1, <5>2
      <4>. QED
        BY <4>1, <4>2
    <3>. QED
      BY <1>1, <1>7, <3>1, <3>2, <3>3, <3>4
  <2>. QED
    BY <1>1, <2>1, <2>2, <2>3
<1>10. \A i, j \in 1..(m + 1) : t[i] = t[j] => i = j
  <2>1. \A i \in 1..m : s[i] # n
    BY <1>4
  <2>2. \A i \in 1..(m + 1) : i \in 1..m \/ i = m + 1
    BY <1>1
  <2> HIDE DEF t, m
  <2>. QED
    BY <1>1, <1>2, <2>1, <2>2
<1>11. ToSet(t) = ToSet(s) \cup {n}
  <2>1. \A i \in 1..(m + 1) : i \in 1..m \/ i = m + 1
    BY <1>1
  <2>2. \A i \in 1..m : i \in 1..(m + 1)
    BY <1>1
  <2>3. m + 1 \in 1..(m + 1)
    BY <1>1
  <2>4. ToSet(t) = {t[i] : i \in 1..(m + 1)}
    BY <1>2 DEF ToSet
  <2> HIDE DEF t, m
  <2>. QED
    BY <1>2, <1>4, <2>1, <2>2, <2>3, <2>4
<1>12. RingOf(e, l, t)
  <2> HIDE DEF t, m
  <2>. QED
    BY <1>2, <1>9, <1>10 DEF RingOf
<1>. QED
  BY <1>5, <1>7, <1>11, <1>12

(* dlist_merge moves the nodes of body behind those of head.               *)
LEMMA Merge ==
  ASSUME NEW g \in Memory, NEW head \in Heads, NEW body \in Heads,
         head # body, NEW s, RingOf(g, head, s), NEW t, RingOf(g, body, t),
         ToSet(s) \cap ToSet(t) = {},
         NEW e, e = dlist_merge(g, head, body)
  PROVE  /\ e \in Memory /\ RingOf(e, head, s \o t) /\ RingOf(e, body, <<>>)
         /\ ToSet(s \o t) = ToSet(s) \cup ToSet(t)
         /\ \A x \in Nodes \ ({head, body} \cup ToSet(s) \cup ToSet(t)) :
              e.mp_next[x] = g.mp_next[x] /\ e.mp_prev[x] = g.mp_prev[x]
<1> DEFINE m == Len(s)
           k == Len(t)
           u == s \o t
<1>1. /\ s \in Seq(Bufs) /\ m \in Nat
      /\ \A i, j \in 1..m : s[i] = s[j] => i = j
      /\ \A i \in 0..m :
           /\ g.mp_next[Place(head, s, i)] = Place(head, s, i + 1)
           /\ g.mp_prev[Place(head, s, i + 1)] = Place(head, s, i)
  BY DEF RingOf
<1>2. /\ t \in Seq(Bufs) /\ k \in Nat
      /\ \A i, j \in 1..k : t[i] = t[j] => i = j
      /\ \A i \in 0..k :
           /\ g.mp_next[Place(body, t, i)] = Place(body, t, i + 1)
           /\ g.mp_prev[Place(body, t, i + 1)] = Place(body, t, i)
  BY DEF RingOf
<1>3. /\ u \in Seq(Bufs) /\ Len(u) = m + k
      /\ \A i \in 1..m : u[i] = s[i]
      /\ \A i \in 1..k : u[m + i] = t[i]
  BY <1>1, <1>2
<1>4. /\ DOMAIN s = 1..m /\ DOMAIN t = 1..k /\ DOMAIN u = 1..(m + k)
      /\ \A i \in 1..m : s[i] \in Bufs
      /\ \A i \in 1..k : t[i] \in Bufs
  BY <1>1, <1>2, <1>3
<1> HIDE DEF u
<1>5. /\ ToSet(s) = {s[i] : i \in 1..m} /\ ToSet(t) = {t[i] : i \in 1..k}
      /\ ToSet(u) = {u[i] : i \in 1..(m + k)}
      /\ ToSet(s) \subseteq Bufs /\ ToSet(t) \subseteq Bufs
  BY <1>4 DEF ToSet
<1>6. \A i \in 1..(m + k) :
        i \in 1..m \/ (i - m \in 1..k /\ i = m + (i - m))
  BY <1>1, <1>2
<1>7. /\ \A i \in 1..m : i \in 1..(m + k)
      /\ \A i \in 1..k : m + i \in 1..(m + k)
  BY <1>1, <1>2
<1>8. ToSet(u) = ToSet(s) \cup ToSet(t)
  <2> HIDE DEF m, k
  <2>1. \A i \in 1..(m + k) : u[i] \in ToSet(s) \cup ToSet(t)
    BY <1>3, <1>5, <1>6
  <2>2. ToSet(s) \subseteq ToSet(u)
    BY <1>3, <1>5, <1>7
  <2>3. ToSet(t) \subseteq ToSet(u)
    BY <1>3, <1>5, <1>7
  <2>. QED
    BY <1>5, <2>1, <2>2, <2>3
<1>9. \A i, j \in 1..(m + k) : u[i] = u[j] => i = j
  <2> SUFFICES ASSUME NEW i \in 1..(m + k), NEW j \in 1..(m + k), u[i] = u[j]
               PROVE  i = j
    OBVIOUS
  <2> HIDE DEF m, k
  <2>1. \/ i \in 1..m /\ u[i] = s[i]
        \/ i - m \in 1..k /\ u[i] = t[i - m]
    BY <1>3, <1>6
  <2>2. \/ j \in 1..m /\ u[j] = s[j]
        \/ j - m \in 1..k /\ u[j] = t[j - m]
    BY <1>3, <1>6
  <2>3. \A a \in 1..m, b \in 1..k : s[a] # t[b]
    BY <1>5
  <2>4. i = j \/ i - m = j - m
    BY <1>1, <1>2, <2>1, <2>2, <2>3
  <2>. QED
    BY <1>1, <2>4
<1>10. /\ g.mp_next \in [Nodes -> Nodes] /\ g.mp_prev \in [Nodes -> Nodes]
       /\ head \in Nodes /\ body \in Nodes /\ head \notin Bufs
       /\ body \notin Bufs /\ Bufs \subseteq Nodes
  BY NodeFacts DEF Memory
<1>11. CASE t = <<>>
  <2>1. e = g
    BY <1>11, RingEnds DEF dlist_merge
  <2>2. u = s
    BY <1>1, <1>11 DEF u
  <2>. QED
    BY <1>8, <1>11, <2>1, <2>2 DEF u
<1>12. CASE t # <<>>
  <2> DEFINE first == t[1]
             last == t[k]
             tail == Place(head, s, m)
  <2>1. /\ ~dlist_empty(g, body) /\ k > 0
        /\ g.mp_next[body] = first /\ g.mp_prev[body] = last
    BY <1>12, RingEnds
  <2>2. 1 \in 1..k /\ k \in 1..k
    BY <1>2, <2>1
  <2>3. /\ first \in ToSet(t) /\ last \in ToSet(t)
        /\ first \in Bufs /\ last \in Bufs
    BY <1>5, <2>2
  <2>4. g.mp_prev[head] = tail /\ tail \in {head} \cup ToSet(s)
    <3>1. Place(head, s, m + 1) = head /\ m \in 0..m
      BY <1>1 DEF Place
    <3>2. tail \in {head} \cup ToSet(s)
      BY <1>1, <1>5 DEF Place
    <3>. QED
      BY <1>1, <3>1, <3>2
  <2>5. /\ tail # body /\ tail # last /\ tail # first /\ tail \in Nodes
        /\ first # body /\ last # body /\ first # head /\ last # head
        /\ first \in Nodes /\ last \in Nodes
    BY <1>5, <1>10, <2>3, <2>4
  <2> HIDE DEF first, last, tail
  <2>6. e = dlist_init(
              [mp_next |-> [g.mp_next EXCEPT ![last] = head, ![tail] = first],
               mp_prev |-> [g.mp_prev EXCEPT ![first] = tail, ![head] = last]],
              body)
    BY <2>1, <2>4 DEF dlist_merge
  <2>7. /\ e \in Memory
        /\ \A x \in Nodes :
             /\ e.mp_next[x] = IF x = body THEN body
                               ELSE IF x = tail THEN first
                               ELSE IF x = last THEN head
                               ELSE g.mp_next[x]
             /\ e.mp_prev[x] = IF x = body THEN body
                               ELSE IF x = head THEN last
                               ELSE IF x = first THEN tail
                               ELSE g.mp_prev[x]
    BY <1>10, <2>5, <2>6 DEF dlist_init, Memory
  <2>8. RingOf(e, body, <<>>)
    BY <1>10, <2>7, RingEmpty
  <2>9. /\ \A i \in 0..m : Place(head, u, i) = Place(head, s, i)
        /\ \A i \in 1..k : Place(head, u, m + i) = t[i]
        /\ Place(head, u, (m + k) + 1) = head
    <3>1. \A i \in 0..m : i \in 1..(m + k) <=> i \in 1..m
      BY <1>1, <1>2, <2>1
    <3>2. ~((m + k) + 1 \in 1..(m + k))
      BY <1>1, <1>2
    <3>3. \A i \in 0..m : i # 0 => i \in 1..m
      BY <1>1
    <3>4. \A i \in 1..k : m + i \in 1..Len(u)
      BY <1>1, <1>2, <1>3
    <3>5. \A i \in 1..k : Place(head, u, m + i) = t[i]
      BY <1>3, <3>4 DEF Place
    <3>6. Place(head, u, (m + k) + 1) = head
      BY <1>3, <3>2 DEF Place
    <3>7. \A i \in 0..m : Place(head, u, i) = Place(head, s, i)
      BY <1>3, <3>1 DEF Place
    <3>. QED
      BY <3>5, <3>6, <3>7
  <2>10. ASSUME NEW i \in 0..(m + k)
         PROVE  /\ e.mp_next[Place(head, u, i)] = Place(head, u, i + 1)
                /\ e.mp_prev[Place(head, u, i + 1)] = Place(head, u, i)
    <3>1. CASE i < m
      <4>1. i \in 0..m /\ i + 1 \in 0..m /\ i + 1 \in 1..m /\ m \in 1..m
        BY <1>1, <3>1
      <4>2. /\ Place(head, u, i) = Place(head, s, i)
            /\ Place(head, u, i + 1) = s[i + 1]
            /\ Place(head, s, i + 1) = s[i + 1]
        BY <2>9, <4>1 DEF Place
      <4>3. /\ s[i + 1] \in Nodes /\ s[i + 1] # head /\ s[i + 1] # body
            /\ s[i + 1] # first
        BY <1>4, <1>5, <1>10, <2>3, <4>1
      <4>4. /\ Place(head, s, i) \in Nodes /\ Place(head, s, i) # body
            /\ Place(head, s, i) # last /\ Place(head, s, i) # tail
        <5>1. CASE i = 0
          BY <1>4, <1>10, <2>5, <4>1, <5>1 DEF Place, tail
        <5>2. CASE i # 0
          <6>1. i \in 1..m /\ i # m
            BY <1>1, <3>1, <5>2
          <6>2. Place(head, s, i) = s[i] /\ tail = s[m]
            BY <4>1, <6>1 DEF Place, tail
          <6>3. s[i] # s[m] /\ s[i] \in ToSet(s) /\ s[i] \in Bufs
            BY <1>1, <1>4, <1>5, <4>1, <6>1
          <6>. QED
            BY <1>10, <2>3, <6>2, <6>3
        <5>. QED
          BY <5>1, <5>2
      <4>. QED
        BY <1>1, <2>7, <4>1, <4>2, <4>3, <4>4
    <3>2. CASE i = m
      <4>1. Place(head, u, i) = tail /\ Place(head, u, i + 1) = first
        BY <1>1, <2>2, <2>9, <3>2 DEF tail, first
      <4>. QED
        BY <2>5, <2>7, <4>1
    <3>3. CASE i > m /\ i < m + k
      <4>1. /\ i - m \in 1..k /\ i - m # k /\ (i - m) + 1 \in 1..k
            /\ (i - m) + 1 # 1 /\ i - m \in 0..k
            /\ m + (i - m) = i /\ m + ((i - m) + 1) = i + 1
        BY <1>1, <1>2, <3>3
      <4>2. /\ Place(head, u, i) = t[i - m]
            /\ Place(head, u, i + 1) = t[(i - m) + 1]
        BY <2>9, <4>1
      <4>3. /\ Place(body, t, i - m) = t[i - m]
            /\ Place(body, t, (i - m) + 1) = t[(i - m) + 1]
        BY <4>1 DEF Place
      <4>4. /\ g.mp_next[t[i - m]] = t[(i - m) + 1]
            /\ g.mp_prev[t[(i - m) + 1]] = t[i - m]
        BY <1>2, <4>1, <4>3
      <4>5. t[i - m] # last /\ t[(i - m) + 1] # first
        BY <1>2, <2>2, <4>1 DEF first, last
      <4>6. /\ t[i - m] \in Bufs /\ t[i - m] \in ToSet(t)
            /\ t[(i - m) + 1] \in Bufs
        BY <1>4, <1>5, <4>1
      <4>7. t[i - m] # tail
        BY <1>10, <2>4, <4>6
      <4>. QED
        BY <1>10, <2>7, <4>2, <4>4, <4>5, <4>6, <4>7
    <3>4. CASE i = m + k
      <4>1. Place(head, u, i) = last /\ Place(head, u, i + 1) = head
        BY <2>2, <2>9, <3>4 DEF last
      <4>. QED
        BY <1>10, <2>5, <2>7, <4>1
    <3>5. i < m \/ i = m \/ (i > m /\ i < m + k) \/ i = m + k
      <4>1. m \in Nat /\ k \in Nat
        BY <1>1, <1>2
      <4> HIDE DEF m, k
      <4>. QED
        BY <4>1
    <3> HIDE DEF m, k
    <3>. QED
      BY <3>1, <3>2, <3>3, <3>4, <3>5
  <2>11. RingOf(e, head, u)
    <3> HIDE DEF m, k
    <3>. QED
      BY <1>3, <1>9, <2>10 DEF RingOf
  <2>12. \A x \in Nodes \ ({head, body} \cup ToSet(s) \cup ToSet(t)) :
           e.mp_next[x] = g.mp_next[x] /\ e.mp_prev[x] = g.mp_prev[x]
    BY <2>3, <2>4, <2>7
  <2>. QED
    BY <1>8, <2>7, <2>8, <2>11, <2>12 DEF u
<1>. QED
  BY <1>11, <1>12

(* The buffers of a list are freed: the list is empty and the others are   *)
(* as they were.                                                           *)
LEMMA FreeRing ==
  ASSUME h \in Memory, NEW l \in Heads, NEW t, RingOf(h, l, t),
         live \subseteq Bufs, FreeAll(l)
  PROVE  /\ live' = live \ ToSet(t)
         /\ h' \in Memory /\ RingOf(h', l, <<>>)
         /\ \A x \in (Heads \cup live') \ ({l} \cup ToSet(t)) :
              h'.mp_next[x] = h.mp_next[x] /\ h'.mp_prev[x] = h.mp_prev[x]
<1> DEFINE g == RemoveAll(h, l)
           gone == Bufs \ live'
<1>1. /\ dlist_for_each_f(h, l) = t
      /\ h.mp_next \in [Nodes -> Nodes] /\ h.mp_prev \in [Nodes -> Nodes]
      /\ ToSet(t) \subseteq Bufs
  BY ForEachIs, RingSize DEF Memory
<1>2. live' = live \ ToSet(t)
  BY <1>1 DEF FreeAll
<1>3. h' = [mp_next |-> [n \in Nodes |->
                           IF n \in gone THEN n ELSE g.mp_next[n]],
            mp_prev |-> [n \in Nodes |->
                           IF n \in gone THEN n ELSE g.mp_prev[n]]]
  BY DEF FreeAll
<1>4. g = [mp_next |-> [h.mp_next EXCEPT ![l] = l],
           mp_prev |-> [n \in Nodes |->
                          IF n \in {l} \cup ToSet(t) THEN l ELSE h.mp_prev[n]]]
  BY <1>1 DEF RemoveAll
<1>5. /\ l \in Nodes /\ l \notin gone /\ Heads \cap gone = {}
      /\ live' \cap gone = {} /\ Heads \subseteq Nodes /\ live' \subseteq Nodes
  BY <1>2, NodeFacts
<1> HIDE DEF gone
<1>6. /\ g.mp_next \in [Nodes -> Nodes] /\ g.mp_prev \in [Nodes -> Nodes]
      /\ g.mp_next[l] = l /\ g.mp_prev[l] = l
      /\ \A x \in Nodes \ ({l} \cup ToSet(t)) :
           g.mp_next[x] = h.mp_next[x] /\ g.mp_prev[x] = h.mp_prev[x]
  BY <1>1, <1>4, <1>5
<1> HIDE DEF g
<1>7. h' \in Memory
  BY <1>3, <1>6 DEF Memory
<1>8. h'.mp_next[l] = l /\ h'.mp_prev[l] = l
  BY <1>3, <1>5, <1>6
<1>9. \A x \in (Heads \cup live') \ ({l} \cup ToSet(t)) :
        h'.mp_next[x] = h.mp_next[x] /\ h'.mp_prev[x] = h.mp_prev[x]
  BY <1>3, <1>5, <1>6
<1>10. RingOf(h', l, <<>>)
  BY <1>8, RingEmpty
<1>. QED
  BY <1>2, <1>7, <1>9, <1>10

-----------------------------------------------------------------------------
(* A stream in pieces: off[i] bytes are in the first i of them.            *)

Pieces(parts, off, total) ==
  /\ off \in [0..Len(parts) -> Nat]
  /\ off[0] = 0 /\ off[Len(parts)] = total
  /\ \A i \in 1..Len(parts) :
       /\ off[i - 1] <= off[i]
       /\ parts[i] = [j \in 1..(off[i] - off[i - 1]) |-> off[i - 1] + j]

(* The numbers up to a, followed by those up to b.                         *)
LEMMA Concatenated ==
  ASSUME NEW a \in Nat, NEW b \in Nat, a <= b
  PROVE  [j \in 1..a |-> j] \o [j \in 1..(b - a) |-> a + j] = [j \in 1..b |-> j]
<1> DEFINE x == [j \in 1..a |-> j]
           y == [j \in 1..(b - a) |-> a + j]
           z == x \o y
<1>0. b - a \in Nat
  OBVIOUS
<1>1. x \in Seq(Nat) /\ Len(x) = a /\ \A j \in 1..a : x[j] = j
  OBVIOUS
<1>2. /\ y \in Seq(Nat) /\ Len(y) = b - a
      /\ \A j \in 1..(b - a) : y[j] = a + j
  BY <1>0
<1> HIDE DEF x, y
<1>3. /\ z \in Seq(Nat) /\ Len(z) = a + (b - a)
      /\ \A j \in 1..a : z[j] = x[j]
      /\ \A j \in 1..(b - a) : z[a + j] = y[j]
  <2>1. /\ z \in Seq(Nat) /\ Len(z) = Len(x) + Len(y)
        /\ \A j \in 1..Len(x) : z[j] = x[j]
        /\ \A j \in 1..Len(y) : z[Len(x) + j] = y[j]
    <3>1. x \in Seq(Nat) /\ y \in Seq(Nat)
      BY <1>1, <1>2
    <3>. QED
      BY <3>1
  <2> HIDE DEF z
  <2>. QED
    BY <1>1, <1>2, <2>1
<1> HIDE DEF z
<1>4. Len(z) = b /\ z = [j \in 1..b |-> z[j]]
  BY <1>3
<1>5. ASSUME NEW j \in 1..b PROVE z[j] = j
  <2>1. CASE j <= a
    BY <1>1, <1>3, <2>1
  <2>2. CASE j > a
    <3>1. j - a \in 1..(b - a) /\ a + (j - a) = j
      BY <2>2
    <3>. QED
      BY <1>2, <1>3, <3>1
  <2>. QED
    BY <2>1, <2>2
<1>6. z = [j \in 1..b |-> j]
  BY <1>4, <1>5
<1>. QED
  BY <1>6 DEF x, y, z

(* Pieces that follow each other make up the stream.                       *)
LEMMA Flattened ==
  ASSUME NEW V, NEW parts \in Seq(V), NEW off, NEW total,
         Pieces(parts, off, total)
  PROVE  FlattenSeq(parts) = [j \in 1..total |-> j]
<1> DEFINE n == Len(parts)
           w == [i \in 1..n |-> [j \in 1..off[i] |-> j]]
           Rec(f) == [i \in 1..n |-> IF i = 1 THEN parts[i]
                                     ELSE f[i - 1] \o parts[i]]
<1>0. /\ n \in Nat /\ off \in [0..n -> Nat] /\ off[0] = 0 /\ off[n] = total
      /\ \A i \in 1..n :
           /\ off[i - 1] <= off[i]
           /\ parts[i] = [j \in 1..(off[i] - off[i - 1]) |-> off[i - 1] + j]
  BY DEF Pieces
<1>1. CASE n = 0
  <2>1. parts = <<>> /\ total = 0
    BY <1>0, <1>1
  <2>2. FlattenSeq(parts) = parts
    BY <1>1 DEF FlattenSeq
  <2>3. <<>> = [j \in 1..0 |-> j]
    OBVIOUS
  <2>. QED
    BY <2>1, <2>2, <2>3
<1>2. CASE n # 0
  <2> HIDE DEF n
  <2>1. \A i \in 1..n : /\ i - 1 \in 0..n /\ i \in 0..n
                        /\ i # 1 => i - 1 \in 1..n
    BY <1>0
  <2>2. ASSUME NEW i \in 1..n
        PROVE  w[i] = IF i = 1 THEN parts[i] ELSE w[i - 1] \o parts[i]
    <3>1. CASE i = 1
      <4>1. /\ off[i - 1] = 0
            /\ parts[i] = [j \in 1..(off[i] - 0) |-> 0 + j]
            /\ off[i] \in Nat
        BY <1>0, <2>1, <3>1
      <4>2. [j \in 1..(off[i] - 0) |-> 0 + j] = [j \in 1..off[i] |-> j]
        BY <4>1
      <4>. QED
        BY <3>1, <4>1, <4>2
    <3>2. CASE i # 1
      <4>1. off[i - 1] \in Nat /\ off[i] \in Nat /\ off[i - 1] <= off[i]
        BY <1>0, <2>1
      <4>2. [j \in 1..off[i - 1] |-> j]
              \o [j \in 1..(off[i] - off[i - 1]) |-> off[i - 1] + j]
            = [j \in 1..off[i] |-> j]
        BY <4>1, Concatenated
      <4>3. w[i] = [j \in 1..off[i] |-> j]
            /\ w[i - 1] = [j \in 1..off[i - 1] |-> j]
        BY <2>1, <3>2
      <4>4. parts[i] = [j \in 1..(off[i] - off[i - 1]) |-> off[i - 1] + j]
        BY <1>0
      <4>. QED
        BY <3>2, <4>2, <4>3, <4>4
    <3>. QED
      BY <3>1, <3>2
  <2>3. w = Rec(w)
    BY <2>2
  <2> DEFINE v == CHOOSE f : f = Rec(f)
  <2>4. v = Rec(v)
    <3> HIDE DEF w, Rec
    <3>. QED
      BY <2>3, Zenon
  <2> HIDE DEF v
  <2>5. \A i \in 1..n : v[i] = IF i = 1 THEN parts[i]
                               ELSE v[i - 1] \o parts[i]
    BY <2>4
  <2> HIDE DEF w
  <2> DEFINE S == {i \in Nat : i + 1 \in 1..n => v[i + 1] = w[i + 1]}
  <2>6. S = Nat
    <3>1. 0 \in S
      BY <1>0, <1>2, <2>2, <2>5
    <3>2. ASSUME NEW i \in S PROVE i + 1 \in S
      <4> SUFFICES ASSUME (i + 1) + 1 \in 1..n
                   PROVE  v[(i + 1) + 1] = w[(i + 1) + 1]
        OBVIOUS
      <4>1. i + 1 \in 1..n /\ (i + 1) + 1 # 1 /\ ((i + 1) + 1) - 1 = i + 1
        BY <1>0
      <4>. QED
        BY <2>2, <2>5, <4>1
    <3> HIDE DEF S
    <3>3. S \in SUBSET Nat
      BY DEF S
    <3>. QED
      BY <3>1, <3>2, <3>3, SetInduction
  <2>7. v[n] = w[n]
    <3>1. n - 1 \in Nat /\ (n - 1) + 1 = n /\ n \in 1..n
      BY <1>0, <1>2
    <3>2. n - 1 \in S
      <4> HIDE DEF S
      <4>. QED
        BY <2>6, <3>1
    <3>. QED
      BY <3>1, <3>2
  <2>8. FlattenSeq(parts) = v[n]
    BY <1>2, Zenon DEF FlattenSeq, v, n
  <2>9. w[n] = [j \in 1..off[n] |-> j]
    BY <1>0, <1>2 DEF w
  <2>. QED
    BY <1>0, <2>7, <2>8, <2>9
<1>. QED
  BY <1>1, <1>2

-----------------------------------------------------------------------------
(* The inductive invariant *)

ReadQ == Queue(m_readbuf_queue)
TmpQ == Queue(tmp_queue)

TypeInv ==
  /\ pc \in {"closed", "idle", "collect", "readv", "send", "return", "close"}
  /\ h \in Memory
  /\ live \subseteq Bufs
  /\ m_size \in [Bufs -> 0..BUF_SIZE]
  /\ data \in [Bufs -> Seq(Bytes)]
  /\ \A b \in Bufs : Len(data[b]) <= BUF_SIZE
  /\ vecs \in Seq(Bufs) /\ Len(vecs) <= NBUFS
  /\ m_readable \in BOOLEAN /\ m_close \in BOOLEAN
  /\ received \in 0..MaxBytes
  /\ answer \in Seq(Bytes) /\ sent \in Seq(Bytes) /\ sent_size \in Nat

LinkInv ==
  /\ RingOf(h, m_readbuf_queue, ReadQ) /\ RingOf(h, tmp_queue, TmpQ)
  /\ RingOf(h, old_queue, <<>>)
  /\ ToSet(ReadQ) \cap ToSet(TmpQ) = {}
  /\ live = ToSet(ReadQ) \cup ToSet(TmpQ)

(* Which buffers there are at each point of the handler. *)
BufferInv ==
  /\ pc \in {"closed", "idle"} => ReadQ = <<>>
  /\ pc \in {"collect", "readv"} => vecs = TmpQ
  /\ pc \notin {"collect", "readv"} => TmpQ = <<>>
  /\ pc = "collect" => Len(TmpQ) < NBUFS
  /\ pc = "readv" => Len(TmpQ) = NBUFS
  /\ Len(ReadQ) <= NBUFS * received
  /\ \A i \in 1..Len(TmpQ) : m_size[TmpQ[i]] = 0

(* The buffers of the read queue hold what was received. *)
Parts == [i \in DOMAIN ReadQ |-> Contents(ReadQ[i])]
StreamInv ==
  /\ pc # "closed" => \E off : Pieces(Parts, off, received)
  /\ ReadQ # <<>> => m_size[ReadQ[1]] > 0

AnswerInv ==
  /\ pc = "idle" => received = 0 /\ ~m_close
  /\ pc \in {"return", "close"} => m_close
  /\ pc \in {"idle", "collect", "readv"} => answer = <<>> /\ sent = <<>>
  /\ sent_size = Len(sent)
  /\ received > 0 => InPasses(answer) /\ InPasses(sent)

IInv == TypeInv /\ LinkInv /\ BufferInv /\ StreamInv /\ AnswerInv

-----------------------------------------------------------------------------
(* What the steps do to the queues *)

(* The queues after a step hold what the rings of the new links hold.      *)
LEMMA QueueIs ==
  ASSUME NEW g \in Memory, NEW s, NEW t,
         RingOf(g, m_readbuf_queue, s), RingOf(g, tmp_queue, t), h' = g
  PROVE  ReadQ' = s /\ TmpQ' = t
<1>1. m_readbuf_queue \in Heads /\ tmp_queue \in Heads
  BY NodeFacts
<1>2. dlist_for_each_f(g, m_readbuf_queue) = s
  BY <1>1, ForEachIs
<1>3. dlist_for_each_f(g, tmp_queue) = t
  BY <1>1, ForEachIs
<1>. QED
  BY <1>2, <1>3 DEF ReadQ, TmpQ, Queue

(* The heads are three, and none is a buffer.                              *)
LEMMA HeadFacts ==
  /\ m_readbuf_queue \in Heads /\ old_queue \in Heads /\ tmp_queue \in Heads
  /\ m_readbuf_queue # old_queue /\ m_readbuf_queue # tmp_queue
  /\ old_queue # tmp_queue
  /\ Heads = {m_readbuf_queue, old_queue, tmp_queue}
  /\ Bufs \cap Heads = {} /\ Nodes = Bufs \cup Heads
  BY NodeFacts DEF Heads, Nodes

(* What the invariant says of the queues as sequences.                     *)
LEMMA QueueTypes ==
  ASSUME IInv
  PROVE  /\ ReadQ \in Seq(Bufs) /\ TmpQ \in Seq(Bufs)
         /\ Len(ReadQ) \in Nat /\ Len(TmpQ) \in Nat
         /\ DOMAIN ReadQ = 1..Len(ReadQ) /\ DOMAIN TmpQ = 1..Len(TmpQ)
         /\ ToSet(ReadQ) \subseteq Bufs /\ ToSet(TmpQ) \subseteq Bufs
         /\ dlist_empty(h, old_queue)
         /\ dlist_empty(h, m_readbuf_queue) <=> ReadQ = <<>>
         /\ dlist_empty(h, tmp_queue) <=> TmpQ = <<>>
         /\ FirstBuffer = IF ReadQ = <<>> THEN m_readbuf_queue ELSE ReadQ[1]
<1>1. /\ RingOf(h, m_readbuf_queue, ReadQ) /\ RingOf(h, tmp_queue, TmpQ)
      /\ RingOf(h, old_queue, <<>>)
  BY DEF IInv, LinkInv
<1>2. /\ ReadQ \in Seq(Bufs) /\ TmpQ \in Seq(Bufs)
  BY <1>1 DEF RingOf
<1>3. /\ Len(ReadQ) \in Nat /\ Len(TmpQ) \in Nat
      /\ DOMAIN ReadQ = 1..Len(ReadQ) /\ DOMAIN TmpQ = 1..Len(TmpQ)
  BY <1>2
<1>4. ToSet(ReadQ) \subseteq Bufs /\ ToSet(TmpQ) \subseteq Bufs
  BY <1>1, HeadFacts, RingSize
<1>5. dlist_empty(h, old_queue)
  BY <1>1, HeadFacts, RingEnds
<1>6. /\ dlist_empty(h, m_readbuf_queue) <=> ReadQ = <<>>
      /\ FirstBuffer = IF ReadQ = <<>> THEN m_readbuf_queue ELSE ReadQ[1]
  BY <1>1, HeadFacts, RingEnds DEF FirstBuffer
<1>7. dlist_empty(h, tmp_queue) <=> TmpQ = <<>>
  BY <1>1, HeadFacts, RingEnds
<1>. QED
  BY <1>2, <1>3, <1>4, <1>5, <1>6, <1>7

(* Accept makes the queue of the socket empty again.                       *)
LEMMA AcceptLinks ==
  ASSUME IInv, Accept
  PROVE  LinkInv' /\ h' \in Memory /\ ReadQ' = <<>> /\ TmpQ' = <<>>
<1>1. /\ pc = "closed" /\ h' = dlist_init(h, m_readbuf_queue) /\ live' = live
      /\ h \in Memory
  BY DEF Accept, IInv, TypeInv
<1>2. /\ RingOf(h, tmp_queue, <<>>) /\ RingOf(h, old_queue, <<>>)
      /\ live = ToSet(<<>>) \cup ToSet(<<>>)
  BY <1>1 DEF IInv, LinkInv, BufferInv
<1>3. /\ h' \in Memory /\ RingOf(h', m_readbuf_queue, <<>>)
      /\ \A x \in Nodes \ {m_readbuf_queue} :
           h'.mp_next[x] = h.mp_next[x] /\ h'.mp_prev[x] = h.mp_prev[x]
  BY <1>1, HeadFacts, InitRing
<1>4. ToSet(<<>>) = {}
  BY DEF ToSet
<1>5. RingOf(h', tmp_queue, <<>>) /\ RingOf(h', old_queue, <<>>)
  BY <1>2, <1>3, <1>4, HeadFacts, RingFrame
<1>6. ReadQ' = <<>> /\ TmpQ' = <<>>
  BY <1>3, <1>5, QueueIs
<1>. QED
  BY <1>1, <1>2, <1>3, <1>4, <1>5, <1>6 DEF LinkInv

(* There is nothing to put aside when the handler begins.                  *)
LEMMA ReadLinks ==
  ASSUME IInv, echo_handle_read
  PROVE  /\ LinkInv' /\ h' \in Memory /\ ReadQ' = <<>> /\ TmpQ' = <<>>
         /\ m_size' = m_size
<1> DEFINE e == dlist_init(h, old_queue)
<1>1. /\ pc = "idle" /\ h' = dlist_merge(e, old_queue, m_readbuf_queue)
      /\ live' = live /\ h \in Memory
      /\ m_size' = [b \in Bufs |->
                      IF b \in ToSet(dlist_for_each_f(h', old_queue)) THEN 0
                      ELSE m_size[b]]
      /\ m_size \in [Bufs -> 0..BUF_SIZE]
  BY DEF echo_handle_read, IInv, TypeInv
<1>2. /\ RingOf(h, tmp_queue, <<>>) /\ RingOf(h, m_readbuf_queue, <<>>)
      /\ live = ToSet(<<>>) \cup ToSet(<<>>)
  BY <1>1 DEF IInv, LinkInv, BufferInv
<1>3. /\ e \in Memory /\ RingOf(e, old_queue, <<>>)
      /\ \A x \in Nodes \ {old_queue} :
           e.mp_next[x] = h.mp_next[x] /\ e.mp_prev[x] = h.mp_prev[x]
  BY <1>1, HeadFacts, InitRing
<1>4. ToSet(<<>>) = {}
  BY DEF ToSet
<1> HIDE DEF e
<1>5. RingOf(e, tmp_queue, <<>>) /\ RingOf(e, m_readbuf_queue, <<>>)
  BY <1>2, <1>3, <1>4, HeadFacts, RingFrame
<1>6. h' = e
  BY <1>1, <1>5, HeadFacts, RingEnds DEF dlist_merge
<1>7. ReadQ' = <<>> /\ TmpQ' = <<>>
  BY <1>3, <1>5, <1>6, QueueIs
<1>8. dlist_for_each_f(h', old_queue) = <<>>
  BY <1>3, <1>6, HeadFacts, ForEachIs
<1>9. m_size' = m_size
  BY <1>1, <1>4, <1>8
<1>. QED
  BY <1>1, <1>2, <1>3, <1>4, <1>5, <1>6, <1>7, <1>9 DEF LinkInv

(* calloc finds memory: a buffer less than the bound allows is in use.     *)
LEMMA NewBufIs ==
  ASSUME IInv, pc = "collect"
  PROVE  NewBuf \in Bufs \ live
<1>1. /\ live = ToSet(ReadQ) \cup ToSet(TmpQ)
      /\ Len(ReadQ) <= NBUFS * received /\ Len(TmpQ) < NBUFS
      /\ received \in 0..MaxBytes
  BY DEF IInv, LinkInv, BufferInv, TypeInv
<1>2. /\ IsFiniteSet(ToSet(ReadQ)) /\ Cardinality(ToSet(ReadQ)) = Len(ReadQ)
      /\ IsFiniteSet(ToSet(TmpQ)) /\ Cardinality(ToSet(TmpQ)) = Len(TmpQ)
  BY HeadFacts, RingSize DEF IInv, LinkInv
<1>3. Cardinality(live) <= Len(ReadQ) + Len(TmpQ) /\ IsFiniteSet(live)
  <2> DEFINE A == ToSet(ReadQ)
             B == ToSet(TmpQ)
  <2>1. IsFiniteSet(A \cap B) /\ A \cap B = {}
    BY FS_EmptySet DEF IInv, LinkInv
  <2>2. Cardinality(A \cap B) = 0
    BY <2>1, FS_EmptySet
  <2>3. /\ IsFiniteSet(A \cup B)
        /\ Cardinality(A \cup B)
             = Cardinality(A) + Cardinality(B) - Cardinality(A \cap B)
    BY <1>2, FS_Union
  <2>4. Len(ReadQ) \in Nat /\ Len(TmpQ) \in Nat
    BY QueueTypes
  <2> HIDE DEF A, B
  <2>5. Cardinality(A \cup B) = Cardinality(A) + Cardinality(B)
    BY <1>2, <2>2, <2>3, <2>4 DEF A, B
  <2>. QED
    BY <1>1, <1>2, <2>3, <2>4, <2>5 DEF A, B
<1>4. NBUFS * received + NBUFS <= NBUFS * (MaxBytes + 1)
  <2>1. \A n, r, m \in Nat : r <= m => n * r + n <= n * (m + 1)
    <3>1. ASSUME NEW n \in Nat, NEW r \in Nat, NEW d \in Nat
          PROVE  n * r + n <= n * ((r + d) + 1)
      <4>1. n * ((r + d) + 1) = n * r + n * d + n /\ n * d \in Nat
            /\ n * r \in Nat
        OBVIOUS
      <4>. QED
        BY <4>1
    <3>2. \A r, m \in Nat : r <= m => m - r \in Nat /\ m = r + (m - r)
      OBVIOUS
    <3>. QED
      BY <3>1, <3>2
  <2>. QED
    BY <1>1, <2>1, Sizes
<1>5. Cardinality(live) < Cardinality(Bufs)
  <2> DEFINE a == NBUFS * received
             b == NBUFS * (MaxBytes + 1)
             c == Cardinality(live)
  <2>1. a \in Nat /\ b \in Nat /\ NBUFS \in Nat
    <3>1. \A x, y \in Nat : x * y \in Nat
      OBVIOUS
    <3>2. received \in Nat
      BY <1>1, Sizes
    <3>. QED
      BY <3>1, <3>2, Sizes
  <2>2. /\ Len(ReadQ) \in Nat /\ Len(TmpQ) \in Nat /\ c \in Nat
        /\ Cardinality(Bufs) = b
    BY <1>3, QueueTypes, FS_CardinalityType, NodeFacts
  <2>3. /\ c <= Len(ReadQ) + Len(TmpQ) /\ Len(ReadQ) <= a
        /\ Len(TmpQ) < NBUFS /\ a + NBUFS <= b
    BY <1>1, <1>3, <1>4
  <2> HIDE DEF a, b, c
  <2>4. c < b
    BY <2>1, <2>2, <2>3
  <2>. QED
    BY <2>2, <2>4 DEF c
<1>6. Bufs \ live # {}
  <2> SUFFICES ASSUME Bufs \ live = {} PROVE FALSE
    OBVIOUS
  <2>1. live = Bufs
    BY DEF IInv, TypeInv
  <2>2. Cardinality(Bufs) \in Nat
    BY NodeFacts, FS_CardinalityType
  <2>. QED
    BY <1>5, <2>1, <2>2
<1>7. Bufs \ live \in SUBSET Nat
  BY NodeFacts
<1>8. \E b \in Bufs \ live : \A c \in Bufs \ live : b <= c
  BY <1>6, <1>7, LeastExists
<1>. QED
  BY <1>8 DEF NewBuf

(* A fresh buffer goes to the end of the temporary queue.                  *)
LEMMA CollectLinks ==
  ASSUME IInv, CollectBuffer
  PROVE  \E b \in Bufs \ live :
           /\ LinkInv' /\ h' \in Memory
           /\ ReadQ' = ReadQ /\ TmpQ' = Append(TmpQ, b)
           /\ live' = live \cup {b}
           /\ m_size' = [m_size EXCEPT ![b] = 0]
           /\ data' = [data EXCEPT ![b] = <<>>]
           /\ vecs' = Append(vecs, b)
<1> DEFINE b == NewBuf
           g == dlist_init(h, b)
<1>1. pc = "collect" /\ h \in Memory /\ dlist_empty(h, old_queue)
  BY QueueTypes DEF CollectBuffer, IInv, TypeInv
<1>2. b \in Bufs \ live
  BY <1>1, NewBufIs
<1>3. /\ h' = dlist_add_tail(g, tmp_queue, b)
      /\ live' = live \cup {b}
      /\ m_size' = [m_size EXCEPT ![b] = 0]
      /\ data' = [data EXCEPT ![b] = <<>>]
      /\ vecs' = Append(vecs, b)
  BY <1>1, <1>2 DEF CollectBuffer, hixo_create_buffer
<1>4. /\ RingOf(h, m_readbuf_queue, ReadQ) /\ RingOf(h, tmp_queue, TmpQ)
      /\ RingOf(h, old_queue, <<>>)
      /\ ToSet(ReadQ) \cap ToSet(TmpQ) = {}
      /\ live = ToSet(ReadQ) \cup ToSet(TmpQ)
  BY DEF IInv, LinkInv
<1>5. /\ ToSet(ReadQ) \subseteq Bufs /\ ToSet(TmpQ) \subseteq Bufs
      /\ ToSet(<<>>) = {}
  BY QueueTypes DEF ToSet
<1> HIDE DEF b, g
<1>6. /\ g \in Memory
      /\ \A x \in Nodes \ {b} :
           g.mp_next[x] = h.mp_next[x] /\ g.mp_prev[x] = h.mp_prev[x]
  BY <1>1, <1>2, HeadFacts, InitRing DEF g
<1>7. /\ RingOf(g, m_readbuf_queue, ReadQ) /\ RingOf(g, tmp_queue, TmpQ)
      /\ RingOf(g, old_queue, <<>>)
  <2>1. /\ {m_readbuf_queue} \cup ToSet(ReadQ) \subseteq Nodes \ {b}
        /\ {tmp_queue} \cup ToSet(TmpQ) \subseteq Nodes \ {b}
        /\ {old_queue} \cup ToSet(<<>>) \subseteq Nodes \ {b}
    BY <1>2, <1>4, <1>5, HeadFacts
  <2>2. RingOf(g, m_readbuf_queue, ReadQ)
    BY <1>4, <1>6, <2>1, RingFrame
  <2>3. RingOf(g, tmp_queue, TmpQ)
    BY <1>4, <1>6, <2>1, RingFrame
  <2>4. RingOf(g, old_queue, <<>>)
    BY <1>4, <1>6, <2>1, RingFrame
  <2>. QED
    BY <2>2, <2>3, <2>4
<1>8. /\ h' \in Memory /\ RingOf(h', tmp_queue, Append(TmpQ, b))
      /\ ToSet(Append(TmpQ, b)) = ToSet(TmpQ) \cup {b}
      /\ \A x \in Nodes \ ({tmp_queue, b} \cup ToSet(TmpQ)) :
           h'.mp_next[x] = g.mp_next[x] /\ h'.mp_prev[x] = g.mp_prev[x]
  <2>1. b \in Bufs \ ToSet(TmpQ) /\ tmp_queue \in Heads
    BY <1>2, <1>4, HeadFacts
  <2>. QED
    BY <1>3, <1>6, <1>7, <2>1, AddTail
<1>9. RingOf(h', m_readbuf_queue, ReadQ) /\ RingOf(h', old_queue, <<>>)
  <2> DEFINE N == Nodes \ ({tmp_queue, b} \cup ToSet(TmpQ))
  <2>1. /\ {m_readbuf_queue} \cup ToSet(ReadQ) \subseteq N
        /\ {old_queue} \cup ToSet(<<>>) \subseteq N
    BY <1>2, <1>4, <1>5, HeadFacts
  <2>2. \A x \in N :
          h'.mp_next[x] = g.mp_next[x] /\ h'.mp_prev[x] = g.mp_prev[x]
    BY <1>8
  <2> HIDE DEF N
  <2>3. RingOf(h', m_readbuf_queue, ReadQ)
    BY <1>7, <2>1, <2>2, RingFrame
  <2>4. RingOf(h', old_queue, <<>>)
    BY <1>7, <2>1, <2>2, RingFrame
  <2>. QED
    BY <2>3, <2>4
<1>10. ReadQ' = ReadQ /\ TmpQ' = Append(TmpQ, b)
  BY <1>8, <1>9, QueueIs
<1>11. LinkInv'
  BY <1>2, <1>3, <1>4, <1>8, <1>9, <1>10 DEF LinkInv
<1>. QED
  BY <1>2, <1>3, <1>8, <1>10, <1>11

(* The filled buffers go behind those of the socket.                       *)
LEMMA DataLinks ==
  ASSUME IInv, ReadvData
  PROVE  LinkInv' /\ h' \in Memory /\ ReadQ' = ReadQ \o TmpQ /\ TmpQ' = <<>>
<1>1. /\ h' = dlist_merge(h, m_readbuf_queue, tmp_queue) /\ live' = live
      /\ h \in Memory
  BY DEF ReadvData, IInv, TypeInv
<1>2. /\ RingOf(h, m_readbuf_queue, ReadQ) /\ RingOf(h, tmp_queue, TmpQ)
      /\ RingOf(h, old_queue, <<>>)
      /\ ToSet(ReadQ) \cap ToSet(TmpQ) = {}
      /\ live = ToSet(ReadQ) \cup ToSet(TmpQ)
  BY DEF IInv, LinkInv
<1>3. /\ ToSet(ReadQ) \subseteq Bufs /\ ToSet(TmpQ) \subseteq Bufs
      /\ ToSet(<<>>) = {}
  BY QueueTypes DEF ToSet
<1>4. /\ h' \in Memory /\ RingOf(h', m_readbuf_queue, ReadQ \o TmpQ)
      /\ RingOf(h', tmp_queue, <<>>)
      /\ ToSet(ReadQ \o TmpQ) = ToSet(ReadQ) \cup ToSet(TmpQ)
      /\ \A x \in Nodes \ ({m_readbuf_queue, tmp_queue}
                             \cup ToSet(ReadQ) \cup ToSet(TmpQ)) :
           h'.mp_next[x] = h.mp_next[x] /\ h'.mp_prev[x] = h.mp_prev[x]
  BY <1>1, <1>2, HeadFacts, Merge
<1>5. RingOf(h', old_queue, <<>>)
  <2> DEFINE N == Nodes \ ({m_readbuf_queue, tmp_queue}
                             \cup ToSet(ReadQ) \cup ToSet(TmpQ))
  <2>1. {old_queue} \cup ToSet(<<>>) \subseteq N
    BY <1>3, HeadFacts
  <2>2. \A x \in N :
          h'.mp_next[x] = h.mp_next[x] /\ h'.mp_prev[x] = h.mp_prev[x]
    BY <1>4
  <2> HIDE DEF N
  <2>. QED
    BY <1>2, <2>1, <2>2, RingFrame
<1>6. ReadQ' = ReadQ \o TmpQ /\ TmpQ' = <<>>
  BY <1>4, QueueIs
<1>. QED
  BY <1>1, <1>2, <1>3, <1>4, <1>5, <1>6 DEF LinkInv

(* A readv that brought nothing: its buffers are freed.                    *)
LEMMA FreeLinks ==
  ASSUME IInv, FreeAll(tmp_queue)
  PROVE  /\ LinkInv' /\ h' \in Memory /\ live' \subseteq Bufs
         /\ ReadQ' = ReadQ /\ TmpQ' = <<>>
<1>1. h \in Memory /\ live \subseteq Bufs
  BY DEF IInv, TypeInv
<1>2. /\ RingOf(h, m_readbuf_queue, ReadQ) /\ RingOf(h, tmp_queue, TmpQ)
      /\ RingOf(h, old_queue, <<>>)
      /\ ToSet(ReadQ) \cap ToSet(TmpQ) = {}
      /\ live = ToSet(ReadQ) \cup ToSet(TmpQ)
  BY DEF IInv, LinkInv
<1>3. /\ ToSet(ReadQ) \subseteq Bufs /\ ToSet(TmpQ) \subseteq Bufs
      /\ ToSet(<<>>) = {}
  BY QueueTypes DEF ToSet
<1> DEFINE N == (Heads \cup live') \ ({tmp_queue} \cup ToSet(TmpQ))
<1>4. /\ live' = live \ ToSet(TmpQ) /\ h' \in Memory
      /\ RingOf(h', tmp_queue, <<>>)
      /\ \A x \in N :
           h'.mp_next[x] = h.mp_next[x] /\ h'.mp_prev[x] = h.mp_prev[x]
  BY <1>1, <1>2, HeadFacts, FreeRing
<1>5. /\ {m_readbuf_queue} \cup ToSet(ReadQ) \subseteq N
      /\ {old_queue} \cup ToSet(<<>>) \subseteq N
  BY <1>2, <1>3, <1>4, HeadFacts
<1> HIDE DEF N
<1>6. RingOf(h', m_readbuf_queue, ReadQ)
  BY <1>2, <1>4, <1>5, RingFrame
<1>7. RingOf(h', old_queue, <<>>)
  BY <1>2, <1>4, <1>5, RingFrame
<1>8. ReadQ' = ReadQ /\ TmpQ' = <<>>
  BY <1>4, <1>6, QueueIs
<1>. QED
  BY <1>1, <1>2, <1>3, <1>4, <1>6, <1>7, <1>8 DEF LinkInv

(* The connection goes, and the buffers with it.                           *)
LEMMA DisconnectLinks ==
  ASSUME IInv, TmpQ = <<>>, FreeAll(m_readbuf_queue)
  PROVE  /\ LinkInv' /\ h' \in Memory /\ live' = {}
         /\ ReadQ' = <<>> /\ TmpQ' = <<>> /\ dlist_empty(h', m_readbuf_queue)
<1>1. h \in Memory /\ live \subseteq Bufs
  BY DEF IInv, TypeInv
<1>2. /\ RingOf(h, m_readbuf_queue, ReadQ) /\ RingOf(h, tmp_queue, <<>>)
      /\ RingOf(h, old_queue, <<>>)
      /\ live = ToSet(ReadQ) \cup ToSet(<<>>)
  BY DEF IInv, LinkInv
<1>3. ToSet(ReadQ) \subseteq Bufs /\ ToSet(<<>>) = {}
  BY QueueTypes DEF ToSet
<1> DEFINE N == (Heads \cup live') \ ({m_readbuf_queue} \cup ToSet(ReadQ))
<1>4. /\ live' = live \ ToSet(ReadQ) /\ h' \in Memory
      /\ RingOf(h', m_readbuf_queue, <<>>)
      /\ \A x \in N :
           h'.mp_next[x] = h.mp_next[x] /\ h'.mp_prev[x] = h.mp_prev[x]
  BY <1>1, <1>2, HeadFacts, FreeRing
<1>5. /\ {tmp_queue} \cup ToSet(<<>>) \subseteq N
      /\ {old_queue} \cup ToSet(<<>>) \subseteq N
  BY <1>2, <1>3, <1>4, HeadFacts
<1> HIDE DEF N
<1>6. RingOf(h', tmp_queue, <<>>)
  BY <1>2, <1>4, <1>5, RingFrame
<1>7. RingOf(h', old_queue, <<>>)
  BY <1>2, <1>4, <1>5, RingFrame
<1>8. ReadQ' = <<>> /\ TmpQ' = <<>>
  BY <1>4, <1>6, QueueIs
<1>9. live' = {}
  BY <1>2, <1>3, <1>4
<1>10. dlist_empty(h', m_readbuf_queue)
  BY <1>4, HeadFacts, RingEnds
<1>. QED
  BY <1>3, <1>4, <1>6, <1>7, <1>8, <1>9, <1>10 DEF LinkInv

(* Nothing was put aside, so nothing comes back.                           *)
LEMMA ReturnLinks ==
  ASSUME IInv, ReturnRead
  PROVE  h' = h /\ LinkInv' /\ ReadQ' = ReadQ /\ TmpQ' = TmpQ
<1>1. h' = h /\ live' = live
  BY QueueTypes DEF ReturnRead, dlist_merge
<1>2. ReadQ' = ReadQ /\ TmpQ' = TmpQ
  BY <1>1 DEF ReadQ, TmpQ, Queue
<1>. QED
  BY <1>1, <1>2 DEF IInv, LinkInv

-----------------------------------------------------------------------------
(* What readv delivers *)

(* The bytes that are in the first i buffers when readv returns n. *)
Upto(n, i) == IF n < i * BUF_SIZE THEN n ELSE i * BUF_SIZE

(* No buffer takes no byte, and all buffers take the n bytes of a readv.   *)
LEMMA UptoEnds ==
  ASSUME NEW n \in 1..(NBUFS * BUF_SIZE)
  PROVE  Upto(n, 0) = 0 /\ Upto(n, NBUFS) = n
<1>1. NBUFS \in Nat /\ BUF_SIZE \in Nat /\ 0 * BUF_SIZE = 0
  BY Sizes
<1>2. NBUFS * BUF_SIZE \in Nat
  BY <1>1
<1> DEFINE m == NBUFS * BUF_SIZE
<1> HIDE DEF m
<1>3. n \in 1..m /\ m \in Nat /\ Upto(n, NBUFS) = IF n < m THEN n ELSE m
  BY <1>2 DEF Upto, m
<1>. QED
  BY <1>1, <1>3 DEF Upto

(* What readv stores in the i-th buffer, and the size echo.c gives to it,  *)
(* are the bytes between Upto(n, i - 1) and Upto(n, i).                    *)
LEMMA Spread ==
  ASSUME NEW n \in 1..(NBUFS * BUF_SIZE), NEW i \in 1..NBUFS,
         received \in 0..MaxBytes
  PROVE  /\ Upto(n, i) \in Nat /\ Upto(n, i - 1) \in Nat
         /\ Upto(n, i - 1) <= Upto(n, i) /\ Upto(n, i) <= n
         /\ Upto(n, i) - Upto(n, i - 1) \in 0..BUF_SIZE
         /\ i = 1 => Upto(n, i) > 0
         /\ (i - 1) * BUF_SIZE < n =>
              /\ SpreadSize(n, i) = Upto(n, i) - Upto(n, i - 1)
              /\ Filled(n, i) = [j \in 1..SpreadSize(n, i) |->
                                   (received + Upto(n, i - 1)) + j]
         /\ ~((i - 1) * BUF_SIZE < n) => Upto(n, i) = Upto(n, i - 1)
<1> DEFINE c == (i - 1) * BUF_SIZE
           B == BUF_SIZE
<1>1. /\ NBUFS \in Nat /\ B \in Nat \ {0} /\ received \in Nat /\ i \in Nat
      /\ n \in Nat \ {0}
  <2>1. NBUFS * BUF_SIZE \in Nat
    BY Sizes
  <2>. QED
    BY <2>1, Sizes
<1>2. c \in Nat /\ i * B = c + B /\ (i = 1 => c = 0)
  <2>1. \A x, y \in Nat : x * y \in Nat
    OBVIOUS
  <2>2. i - 1 \in Nat
    OBVIOUS
  <2>3. \A x \in Int, y \in Nat : x * y = (x - 1) * y + y
    OBVIOUS
  <2>. QED
    BY <1>1, <2>1, <2>2, <2>3
<1>3. /\ Upto(n, i) = IF n < c + B THEN n ELSE c + B
      /\ Upto(n, i - 1) = IF n < c THEN n ELSE c
  BY <1>2 DEF Upto
<1>4. SpreadSize(n, i) = IF n - c < B THEN n - c ELSE B
  BY DEF SpreadSize
<1>5. Filled(n, i) = [j \in 1..(IF n - c < B THEN n - c ELSE B) |->
                        (received + c) + j]
  BY DEF Filled
<1> HIDE DEF c, B
<1>6. /\ Upto(n, i) \in Nat /\ Upto(n, i - 1) \in Nat
      /\ Upto(n, i - 1) <= Upto(n, i) /\ Upto(n, i) <= n
      /\ Upto(n, i) - Upto(n, i - 1) \in 0..B
      /\ i = 1 => Upto(n, i) > 0
      /\ ~(c < n) => Upto(n, i) = Upto(n, i - 1)
  BY <1>1, <1>2, <1>3
<1>7. ASSUME c < n
      PROVE  /\ SpreadSize(n, i) = Upto(n, i) - Upto(n, i - 1)
             /\ Upto(n, i - 1) = c
  BY <1>1, <1>2, <1>3, <1>4, <1>7
<1>8. c < n => /\ SpreadSize(n, i) = Upto(n, i) - Upto(n, i - 1)
               /\ Filled(n, i) = [j \in 1..SpreadSize(n, i) |->
                                    (received + Upto(n, i - 1)) + j]
  BY <1>4, <1>5, <1>7
<1>. QED
  BY <1>6, <1>8 DEF c, B

ContentsOf(size, bytes) ==
  [i \in 1..size |-> IF i <= Len(bytes) THEN bytes[i] ELSE Garbage]

(* Only the buffers of this readv change, and the i-th of them gets its    *)
(* share of the n bytes.                                                   *)
Stored(n) ==
  /\ received' = received + n /\ received + n <= MaxBytes
  /\ \A b \in Bufs \ ToSet(TmpQ) : m_size'[b] = m_size[b] /\ data'[b] = data[b]
  /\ \A i \in 1..NBUFS :
       /\ m_size'[TmpQ[i]] = Upto(n, i) - Upto(n, i - 1)
       /\ ContentsOf(m_size'[TmpQ[i]], data'[TmpQ[i]])
            = [j \in 1..(Upto(n, i) - Upto(n, i - 1)) |->
                 (received + Upto(n, i - 1)) + j]

(* After a readv of n bytes each buffer holds its part of them.            *)
LEMMA DataStored ==
  ASSUME IInv, ReadvData
  PROVE  /\ \E n \in 1..(NBUFS * BUF_SIZE) : Stored(n)
         /\ m_size' \in [Bufs -> 0..BUF_SIZE] /\ data' \in [Bufs -> Seq(Bytes)]
         /\ \A b \in Bufs : Len(data'[b]) <= BUF_SIZE
<1> DEFINE q == TmpQ
           L == dlist_for_each_f(h, tmp_queue)
           reached(n) == {i \in 1..NBUFS : (i - 1) * BUF_SIZE < n}
           Index(n, seq, b) == CHOOSE i \in reached(n) : seq[i] = b
<1>1. /\ pc = "readv" /\ vecs = q /\ Len(q) = NBUFS /\ q \in Seq(Bufs)
      /\ \A i \in 1..Len(q) : m_size[q[i]] = 0
      /\ \A i, j \in 1..Len(q) : q[i] = q[j] => i = j
      /\ m_size \in [Bufs -> 0..BUF_SIZE] /\ data \in [Bufs -> Seq(Bytes)]
      /\ \A b \in Bufs : Len(data[b]) <= BUF_SIZE
      /\ received \in 0..MaxBytes
      /\ L = q
  BY DEF ReadvData, IInv, BufferInv, LinkInv, RingOf, TypeInv, TmpQ, Queue
<1>2. PICK n \in 1..(NBUFS * BUF_SIZE) :
        /\ received + n <= MaxBytes
        /\ m_size' = [b \in Bufs |-> IF \E i \in reached(n) : L[i] = b
                                     THEN SpreadSize(n, Index(n, L, b))
                                     ELSE m_size[b]]
        /\ data' = [b \in Bufs |-> IF \E i \in reached(n) : vecs[i] = b
                                   THEN Filled(n, Index(n, vecs, b))
                                   ELSE data[b]]
        /\ received' = received + n
  BY Zenon DEF ReadvData
<1>0. ToSet(q) = {q[i] : i \in 1..NBUFS}
  <2>1. DOMAIN q = 1..NBUFS
    BY <1>1
  <2>. QED
    BY <2>1 DEF ToSet
<1> HIDE DEF q, L
<1>3. ASSUME NEW i \in 1..NBUFS, (i - 1) * BUF_SIZE < n
      PROVE  /\ q[i] \in Bufs
             /\ m_size'[q[i]] = SpreadSize(n, i) /\ data'[q[i]] = Filled(n, i)
  <2>1. i \in reached(n) /\ q[i] \in Bufs
    BY <1>1, <1>3
  <2>2. \A k \in reached(n) : q[k] = q[i] => k = i
    BY <1>1
  <2>3. Index(n, q, q[i]) = i
    BY <2>1, <2>2
  <2> HIDE DEF Index, reached
  <2>4. \E k \in reached(n) : q[k] = q[i]
    BY <2>1
  <2>5. L = q /\ vecs = q
    BY <1>1
  <2>. QED
    BY <1>2, <2>1, <2>3, <2>4, <2>5
<1>4. ASSUME NEW b \in Bufs,
             ~(\E i \in 1..NBUFS : (i - 1) * BUF_SIZE < n /\ q[i] = b)
      PROVE  m_size'[b] = m_size[b] /\ data'[b] = data[b]
  <2>1. ~(\E i \in reached(n) : q[i] = b)
    BY <1>4
  <2> HIDE DEF Index, reached
  <2>2. L = q /\ vecs = q
    BY <1>1
  <2>. QED
    BY <1>2, <2>1, <2>2
<1>5. \A b \in Bufs \ ToSet(q) : m_size'[b] = m_size[b] /\ data'[b] = data[b]
  BY <1>0, <1>4
<1>6. ASSUME NEW i \in 1..NBUFS
      PROVE  /\ m_size'[q[i]] = Upto(n, i) - Upto(n, i - 1)
             /\ ContentsOf(m_size'[q[i]], data'[q[i]])
                  = [j \in 1..(Upto(n, i) - Upto(n, i - 1)) |->
                       (received + Upto(n, i - 1)) + j]
             /\ m_size'[q[i]] \in 0..BUF_SIZE
             /\ data'[q[i]] \in Seq(Bytes) /\ Len(data'[q[i]]) <= BUF_SIZE
  <2> DEFINE c == Upto(n, i - 1)
             d == Upto(n, i) - Upto(n, i - 1)
             r == received
             x == m_size'[q[i]]
             y == data'[q[i]]
  <2>1. /\ c \in Nat /\ d \in 0..BUF_SIZE /\ Upto(n, i) <= n
        /\ Upto(n, i) \in Nat /\ r \in Nat /\ BUF_SIZE \in Nat
        /\ r + n <= MaxBytes /\ MaxBytes \in Nat /\ n \in Nat
    <3>1. NBUFS * BUF_SIZE \in Nat
      BY Sizes
    <3>. QED
      BY <1>1, <1>2, <3>1, Spread, Sizes
  <2>2. CASE (i - 1) * BUF_SIZE < n
    <3>1. x = SpreadSize(n, i) /\ y = Filled(n, i)
      BY <1>3, <2>2
    <3>2. /\ SpreadSize(n, i) = d
          /\ Filled(n, i) = [j \in 1..SpreadSize(n, i) |-> (r + c) + j]
      BY <1>1, <2>2, Spread
    <3>3. c + d <= n
      BY <2>1
    <3> HIDE DEF c, d, r, x, y
    <3>4. x = d /\ y = [j \in 1..d |-> (r + c) + j]
      BY <3>1, <3>2
    <3>5. \A j \in 1..d : (r + c) + j \in Bytes
      BY <2>1, <3>3 DEF Bytes
    <3>6. y \in Seq(Bytes) /\ Len(y) = d
      BY <2>1, <3>4, <3>5
    <3>7. ContentsOf(x, y) = [k \in 1..d |-> (r + c) + k]
      BY <2>1, <3>4, <3>6 DEF ContentsOf
    <3>8. x \in 0..BUF_SIZE /\ Len(y) <= BUF_SIZE
      BY <2>1, <3>4, <3>6
    <3>. QED
      BY <3>4, <3>6, <3>7, <3>8 DEF c, d, r, x, y
  <2>3. CASE ~((i - 1) * BUF_SIZE < n)
    <3>1. d = 0
      BY <1>1, <2>1, <2>3, Spread
    <3>2. q[i] \in Bufs /\ m_size[q[i]] = 0
      BY <1>1
    <3>3. x = 0 /\ y = data[q[i]]
      <4>1. ASSUME NEW k \in 1..NBUFS, q[k] = q[i] PROVE k = i
        BY <1>1, <4>1
      <4>. QED
        BY <1>4, <2>3, <3>2, <4>1
    <3>4. y \in Seq(Bytes) /\ Len(y) <= BUF_SIZE
      BY <1>1, <3>2, <3>3
    <3> HIDE DEF c, d, r, x, y
    <3>5. ContentsOf(x, y) = [k \in 1..d |-> (r + c) + k]
      BY <3>1, <3>3 DEF ContentsOf
    <3>6. x = d /\ x \in 0..BUF_SIZE
      BY <2>1, <3>1, <3>3
    <3>. QED
      BY <3>4, <3>5, <3>6 DEF c, d, r, x, y
  <2>. QED
    BY <2>2, <2>3
<1>7. \A b \in Bufs : /\ m_size'[b] \in 0..BUF_SIZE
                      /\ data'[b] \in Seq(Bytes) /\ Len(data'[b]) <= BUF_SIZE
  <2>1. ASSUME NEW b \in ToSet(q)
        PROVE  /\ m_size'[b] \in 0..BUF_SIZE
               /\ data'[b] \in Seq(Bytes) /\ Len(data'[b]) <= BUF_SIZE
    <3>1. PICK i \in 1..NBUFS : b = q[i]
      BY <1>0
    <3>. QED
      BY <1>6, <3>1
  <2>2. ASSUME NEW b \in Bufs \ ToSet(q)
        PROVE  /\ m_size'[b] \in 0..BUF_SIZE
               /\ data'[b] \in Seq(Bytes) /\ Len(data'[b]) <= BUF_SIZE
    BY <1>1, <1>5
  <2>. QED
    BY <2>1, <2>2
<1>8. m_size' \in [Bufs -> 0..BUF_SIZE] /\ data' \in [Bufs -> Seq(Bytes)]
  <2>1. /\ m_size' = [b \in Bufs |-> m_size'[b]]
        /\ data' = [b \in Bufs |-> data'[b]]
    <3> HIDE DEF Index, reached
    <3>. QED
      BY <1>2
  <2>. QED
    BY <1>7, <2>1
<1>9. Stored(n)
  <2>1. received' = received + n /\ received + n <= MaxBytes
    BY <1>2
  <2>. QED
    BY <1>5, <1>6, <2>1 DEF Stored, q
<1>. QED
  BY <1>7, <1>8, <1>9

(* The parts of the stream before and after a step.                        *)
LEMMA PartsIs ==
  /\ Parts = [i \in DOMAIN ReadQ |->
                ContentsOf(m_size[ReadQ[i]], data[ReadQ[i]])]
  /\ Parts' = [i \in DOMAIN ReadQ' |->
                 ContentsOf(m_size'[ReadQ'[i]], data'[ReadQ'[i]])]
  BY DEF Parts, Contents, ContentsOf

(* The stream is as it was if the buffers of the read queue are.           *)
LEMMA StreamSame ==
  ASSUME IInv, pc # "closed", ReadQ' = ReadQ, received' = received,
         \A b \in ToSet(ReadQ) : m_size'[b] = m_size[b] /\ data'[b] = data[b]
  PROVE  StreamInv'
<1>1. DOMAIN ReadQ = 1..Len(ReadQ) /\ Len(ReadQ) \in Nat /\ ReadQ \in Seq(Bufs)
  BY QueueTypes
<1>2. \A i \in DOMAIN ReadQ : ReadQ[i] \in ToSet(ReadQ)
  BY DEF ToSet
<1>3. Parts' = Parts
  BY <1>2, PartsIs
<1>4. \E off : Pieces(Parts', off, received')
  BY <1>3 DEF IInv, StreamInv
<1>5. ReadQ # <<>> => m_size'[ReadQ[1]] > 0
  <2>1. ReadQ # <<>> => 1 \in DOMAIN ReadQ
    BY <1>1
  <2>. QED
    BY <1>2, <2>1 DEF IInv, StreamInv
<1>6. Pieces(Parts, {}, received)' <=> Pieces(Parts', {}, received')
  BY DEF Pieces
<1>. QED
  BY <1>4, <1>5 DEF StreamInv, Pieces

(* The bytes of a readv continue the stream.                               *)
LEMMA StreamData ==
  ASSUME IInv, ReadvData
  PROVE  StreamInv'
<1> DEFINE m == Len(ReadQ)
           q == TmpQ
<1>1. /\ pc = "readv" /\ Len(q) = NBUFS /\ q \in Seq(Bufs)
      /\ ReadQ \in Seq(Bufs) /\ m \in Nat /\ received \in 0..MaxBytes
      /\ DOMAIN ReadQ = 1..m /\ DOMAIN q = 1..NBUFS
      /\ ReadQ # <<>> => m_size[ReadQ[1]] > 0
      /\ ToSet(ReadQ) \cap ToSet(q) = {} /\ ToSet(ReadQ) \subseteq Bufs
  <2>1. /\ pc = "readv" /\ Len(q) = NBUFS
    BY DEF ReadvData, IInv, BufferInv
  <2>2. /\ q \in Seq(Bufs) /\ ReadQ \in Seq(Bufs) /\ m \in Nat
        /\ DOMAIN ReadQ = 1..m /\ DOMAIN q = 1..Len(q)
        /\ ToSet(ReadQ) \subseteq Bufs
    BY QueueTypes
  <2>. QED
    BY <2>1, <2>2 DEF IInv, StreamInv, TypeInv, LinkInv
<1>2. PICK off : Pieces(Parts, off, received)
  BY <1>1 DEF IInv, StreamInv
<1>3. PICK n \in 1..(NBUFS * BUF_SIZE) : Stored(n)
  BY DataStored
<1>4. NBUFS \in Nat \ {0} /\ received \in Nat
  BY <1>1, Sizes
<1> DEFINE u == ReadQ \o q
<1>5. ReadQ' = u
  BY DataLinks
<1>6. /\ DOMAIN u = 1..(m + NBUFS) /\ u \in Seq(Bufs)
      /\ \A i \in 1..m : u[i] = ReadQ[i]
      /\ \A i \in 1..NBUFS : u[m + i] = q[i]
  BY <1>1
<1> HIDE DEF u
<1> DEFINE P == [i \in 1..(m + NBUFS) |->
                   ContentsOf(m_size'[u[i]], data'[u[i]])]
           new == [i \in 0..(m + NBUFS) |->
                     IF i <= m THEN off[i] ELSE received + Upto(n, i - m)]
<1>7. Parts' = P
  BY <1>5, <1>6, PartsIs
<1>8. /\ off \in [0..m -> Nat] /\ off[0] = 0 /\ off[m] = received
      /\ \A i \in 1..m :
           /\ off[i - 1] <= off[i]
           /\ ContentsOf(m_size[ReadQ[i]], data[ReadQ[i]])
                = [j \in 1..(off[i] - off[i - 1]) |-> off[i - 1] + j]
  <2>1. /\ Len(Parts) = m
        /\ \A i \in 1..m : Parts[i] = ContentsOf(m_size[ReadQ[i]],
                                                 data[ReadQ[i]])
    BY <1>1, PartsIs
  <2>. QED
    BY <1>2, <2>1 DEF Pieces
<1>9. \A i \in 1..NBUFS : /\ Upto(n, i) \in Nat /\ Upto(n, i - 1) \in Nat
                          /\ Upto(n, i - 1) <= Upto(n, i)
  BY <1>1, Spread
<1>10. new \in [0..(m + NBUFS) -> Nat]
  <2>1. ASSUME NEW i \in 0..(m + NBUFS), ~(i <= m)
        PROVE  received + Upto(n, i - m) \in Nat
    <3>1. i - m \in 1..NBUFS
      BY <1>1, <1>4, <2>1
    <3>. QED
      BY <1>4, <1>9, <3>1
  <2>2. ASSUME NEW i \in 0..(m + NBUFS), i <= m PROVE off[i] \in Nat
    BY <1>1, <1>8, <2>2
  <2>. QED
    BY <2>1, <2>2
<1>11. new[0] = 0 /\ new[m + NBUFS] = received'
  <2>1. /\ 0 \in 0..(m + NBUFS) /\ 0 <= m
        /\ m + NBUFS \in 0..(m + NBUFS) /\ ~(m + NBUFS <= m)
        /\ (m + NBUFS) - m = NBUFS
    BY <1>1, <1>4
  <2>2. received' = received + n /\ Upto(n, NBUFS) = n
    BY <1>3, UptoEnds DEF Stored
  <2>. QED
    BY <1>8, <2>1, <2>2
<1>12. ASSUME NEW i \in 1..(m + NBUFS)
       PROVE  /\ new[i - 1] <= new[i]
              /\ P[i] = [j \in 1..(new[i] - new[i - 1]) |-> new[i - 1] + j]
  <2>1. CASE i <= m
    <3>1. /\ i \in 1..m /\ i - 1 \in 0..(m + NBUFS) /\ i - 1 <= m
          /\ i \in 0..(m + NBUFS)
      BY <1>1, <1>4, <2>1
    <3>2. new[i] = off[i] /\ new[i - 1] = off[i - 1]
      BY <2>1, <3>1
    <3>3. u[i] = ReadQ[i] /\ ReadQ[i] \in ToSet(ReadQ)
      BY <1>1, <1>6, <3>1 DEF ToSet
    <3>4. ReadQ[i] \in Bufs \ ToSet(q)
      BY <1>1, <3>3
    <3>5. /\ m_size'[ReadQ[i]] = m_size[ReadQ[i]]
          /\ data'[ReadQ[i]] = data[ReadQ[i]]
      BY <1>3, <3>4 DEF Stored
    <3>6. P[i] = ContentsOf(m_size[ReadQ[i]], data[ReadQ[i]])
      BY <3>3, <3>5
    <3> HIDE DEF P, new
    <3>. QED
      BY <1>8, <3>1, <3>2, <3>6
  <2>2. CASE ~(i <= m)
    <3> DEFINE k == i - m
    <3>1. /\ k \in 1..NBUFS /\ i = m + k /\ i \in 0..(m + NBUFS)
          /\ i - 1 \in 0..(m + NBUFS) /\ (i - 1) - m = k - 1
      BY <1>1, <1>4, <2>2
    <3>2. new[i] = received + Upto(n, k)
      BY <2>2, <3>1
    <3>3. new[i - 1] = received + Upto(n, k - 1)
      <4>1. CASE i - 1 <= m
        <5>1. i - 1 = m /\ k - 1 = 0
          BY <1>1, <2>2, <4>1
        <5>2. new[i - 1] = received
          BY <1>8, <3>1, <4>1, <5>1
        <5>. QED
          BY <1>4, <5>1, <5>2, UptoEnds
      <4>2. CASE ~(i - 1 <= m)
        BY <3>1, <4>2
      <4>. QED
        BY <4>1, <4>2
    <3>4. u[i] = q[k]
      BY <1>6, <3>1
    <3>5. P[i] = [j \in 1..(Upto(n, k) - Upto(n, k - 1)) |->
                    (received + Upto(n, k - 1)) + j]
      BY <1>3, <3>1, <3>4 DEF Stored
    <3> HIDE DEF P, new, k
    <3>6. Upto(n, k) \in Nat /\ Upto(n, k - 1) \in Nat
          /\ Upto(n, k - 1) <= Upto(n, k)
      BY <1>9, <3>1
    <3>7. /\ new[i] - new[i - 1] = Upto(n, k) - Upto(n, k - 1)
          /\ new[i - 1] <= new[i]
      BY <1>4, <3>2, <3>3, <3>6
    <3>. QED
      BY <3>3, <3>5, <3>7
  <2>. QED
    BY <2>1, <2>2
<1>13. Pieces(Parts', new, received')
  <2>1. Len(P) = m + NBUFS
    BY <1>1, <1>4
  <2> HIDE DEF P, new
  <2>. QED
    BY <1>7, <1>10, <1>11, <1>12, <2>1 DEF Pieces
<1>14. m_size'[u[1]] > 0
  <2>1. CASE ReadQ = <<>>
    <3>1. m = 0 /\ 1 \in 1..NBUFS
      BY <1>4, <2>1
    <3>2. u[1] = q[1]
      BY <1>6, <3>1
    <3>3. m_size'[q[1]] = Upto(n, 1) - Upto(n, 1 - 1)
      BY <1>3, <3>1 DEF Stored
    <3>4. Upto(n, 1) > 0 /\ Upto(n, 1 - 1) = 0 /\ Upto(n, 1) \in Nat
      BY <1>1, <3>1, Spread, UptoEnds
    <3>. QED
      BY <3>2, <3>3, <3>4
  <2>2. CASE ReadQ # <<>>
    <3>1. 1 \in 1..m
      BY <1>1, <2>2
    <3>2. u[1] = ReadQ[1] /\ ReadQ[1] \in ToSet(ReadQ)
      BY <1>1, <1>6, <3>1 DEF ToSet
    <3>3. ReadQ[1] \in Bufs \ ToSet(q)
      BY <1>1, <3>2
    <3>4. m_size'[ReadQ[1]] = m_size[ReadQ[1]]
      BY <1>3, <3>3 DEF Stored
    <3>. QED
      BY <1>1, <2>2, <3>2, <3>4
  <2>. QED
    BY <2>1, <2>2
<1>15. \E off1 : Pieces(Parts', off1, received')
  BY <1>13
<1>. QED
  BY <1>5, <1>14, <1>15 DEF StreamInv, Pieces

-----------------------------------------------------------------------------
(* Every step keeps the invariant *)

(* A queue without buffers holds the stream of no bytes.                   *)
LEMMA StreamEmpty ==
  ASSUME ReadQ' = <<>>, received' = 0 \/ pc' = "closed"
  PROVE  StreamInv'
<1> DEFINE zero == [i \in 0..0 |-> 0]
<1>1. Parts' = <<>>
  BY PartsIs
<1>2. Pieces(<<>>, zero, 0)
  BY DEF Pieces
<1> HIDE DEF zero
<1>3. received' = 0 => \E off : Pieces(Parts', off, received')
  BY <1>1, <1>2
<1>. QED
  BY <1>3 DEF StreamInv, Pieces

(* The initial state.                                                      *)
LEMMA InitInv ==
  ASSUME Init
  PROVE  IInv
<1> DEFINE I == Unlinked(Nodes)
<1>1. I \in [Nodes -> Nodes] /\ \A x \in Nodes : I[x] = x
  BY DEF Unlinked
<1>2. h = [mp_next |-> I, mp_prev |-> I]
  BY DEF Init
<1> HIDE DEF I
<1>3. h \in Memory
  BY <1>1, <1>2 DEF Memory
<1>4. \A l \in Heads : RingOf(h, l, <<>>)
  <2> SUFFICES ASSUME NEW l \in Heads PROVE RingOf(h, l, <<>>)
    OBVIOUS
  <2>1. l \in Nodes
    BY NodeFacts
  <2>2. h.mp_next[l] = l /\ h.mp_prev[l] = l
    BY <1>1, <1>2, <2>1
  <2>. QED
    BY <2>2, RingEmpty
<1>5. ReadQ = <<>> /\ TmpQ = <<>>
  BY <1>3, <1>4, HeadFacts, ForEachIs DEF ReadQ, TmpQ, Queue
<1>6. ToSet(<<>>) = {}
  BY DEF ToSet
<1>7. TypeInv
  <2>1. Len(<<>>) = 0 /\ <<>> \in Seq(Bytes) /\ <<>> \in Seq(Bufs)
    OBVIOUS
  <2>2. 0 \in 0..BUF_SIZE /\ 0 \in 0..MaxBytes /\ 0 <= NBUFS /\ 0 <= BUF_SIZE
    BY Sizes
  <2>3. data \in [Bufs -> Seq(Bytes)] /\ \A b \in Bufs : data[b] = <<>>
    BY <2>1 DEF Init
  <2>4. m_size \in [Bufs -> 0..BUF_SIZE]
    BY <2>2 DEF Init
  <2>. QED
    BY <1>3, <2>1, <2>2, <2>3, <2>4 DEF TypeInv, Init
<1>8. LinkInv
  BY <1>4, <1>5, <1>6, HeadFacts DEF LinkInv, Init
<1>9. BufferInv
  <2>1. Len(<<>>) = 0 /\ 0 <= NBUFS * 0 /\ 1..0 = {}
    BY Sizes
  <2>. QED
    BY <1>5, <2>1 DEF BufferInv, Init
<1>10. StreamInv
  BY <1>5 DEF StreamInv, Init
<1>11. AnswerInv
  BY DEF AnswerInv, InPasses, Init
<1>. QED
  BY <1>7, <1>8, <1>9, <1>10, <1>11 DEF IInv

(* The accept of a connection.                                             *)
LEMMA AcceptInv ==
  ASSUME IInv, Accept
  PROVE  IInv'
<1>1. LinkInv' /\ h' \in Memory /\ ReadQ' = <<>> /\ TmpQ' = <<>>
  BY AcceptLinks
<1>2. TypeInv'
  <2>1. <<>> \in Seq(Bytes) /\ 0 \in 0..MaxBytes /\ 0 \in Nat
    BY Sizes
  <2>. QED
    BY <1>1, <2>1 DEF TypeInv, IInv, Accept
<1>3. BufferInv'
  <2>1. Len(<<>>) = 0 /\ 0 <= NBUFS * 0 /\ 1..0 = {}
    BY Sizes
  <2>. QED
    BY <1>1, <2>1 DEF BufferInv, Accept
<1>4. StreamInv'
  BY <1>1, StreamEmpty DEF Accept
<1>5. AnswerInv'
  BY DEF AnswerInv, InPasses, Accept
<1>. QED
  BY <1>1, <1>2, <1>3, <1>4, <1>5 DEF IInv

(* The begin of the read handler.                                          *)
LEMMA ReadInv ==
  ASSUME IInv, echo_handle_read
  PROVE  IInv'
<1>1. /\ LinkInv' /\ h' \in Memory /\ ReadQ' = <<>> /\ TmpQ' = <<>>
      /\ m_size' = m_size
  BY ReadLinks
<1>2. /\ pc = "idle" /\ pc' = "collect" /\ vecs' = <<>> /\ received' = received
      /\ m_readable' = TRUE
      /\ UNCHANGED <<live, data, m_close, answer, sent_size, sent>>
  BY DEF echo_handle_read, sendVars
<1>3. received' = 0
  BY <1>2 DEF IInv, AnswerInv
<1>4. TypeInv'
  <2>1. <<>> \in Seq(Bufs) /\ Len(<<>>) = 0 /\ 0 <= NBUFS
    BY Sizes
  <2>. QED
    BY <1>1, <1>2, <2>1 DEF TypeInv, IInv
<1>5. BufferInv'
  <2>1. Len(<<>>) = 0 /\ 0 <= NBUFS * 0 /\ 1..0 = {} /\ 0 < NBUFS
    BY Sizes
  <2>. QED
    BY <1>1, <1>2, <1>3, <2>1 DEF BufferInv
<1>6. StreamInv'
  BY <1>1, <1>3, StreamEmpty
<1>7. AnswerInv'
  BY <1>2 DEF AnswerInv, InPasses, IInv
<1>. QED
  BY <1>1, <1>4, <1>5, <1>6, <1>7 DEF IInv

(* A buffer more for the next readv.                                       *)
LEMMA CollectInv ==
  ASSUME IInv, CollectBuffer
  PROVE  IInv'
<1>1. PICK b \in Bufs \ live :
        /\ LinkInv' /\ h' \in Memory
        /\ ReadQ' = ReadQ /\ TmpQ' = Append(TmpQ, b)
        /\ live' = live \cup {b}
        /\ m_size' = [m_size EXCEPT ![b] = 0]
        /\ data' = [data EXCEPT ![b] = <<>>]
        /\ vecs' = Append(vecs, b)
  BY CollectLinks
<1>2. /\ pc = "collect"
      /\ pc' = IF Len(vecs') = NBUFS THEN "readv" ELSE "collect"
      /\ UNCHANGED <<m_readable, m_close, received, answer, sent_size, sent>>
  BY DEF CollectBuffer, sendVars
<1>3. /\ vecs = TmpQ /\ Len(TmpQ) < NBUFS /\ TmpQ \in Seq(Bufs)
      /\ Len(TmpQ) \in Nat /\ NBUFS \in Nat
  BY <1>2, QueueTypes, Sizes DEF IInv, BufferInv
<1>4. /\ Len(vecs') = Len(TmpQ) + 1 /\ vecs' \in Seq(Bufs) /\ vecs' = TmpQ'
      /\ Len(vecs') \in Nat /\ Len(vecs') <= NBUFS
      /\ \A i \in 1..Len(TmpQ) : vecs'[i] = TmpQ[i]
      /\ vecs'[Len(TmpQ) + 1] = b
  BY <1>1, <1>3
<1>5. /\ m_size' \in [Bufs -> 0..BUF_SIZE] /\ m_size'[b] = 0
      /\ \A c \in Bufs : c # b => m_size'[c] = m_size[c] /\ data'[c] = data[c]
      /\ data' \in [Bufs -> Seq(Bytes)] /\ data'[b] = <<>>
  <2>1. 0 \in 0..BUF_SIZE /\ <<>> \in Seq(Bytes)
    BY Sizes
  <2>. QED
    BY <1>1, <2>1 DEF IInv, TypeInv
<1>6. TypeInv'
  <2>1. \A c \in Bufs : Len(data'[c]) <= BUF_SIZE
    <3>1. Len(<<>>) <= BUF_SIZE
      BY Sizes
    <3>. QED
      BY <1>5, <3>1 DEF IInv, TypeInv
  <2>2. live' \subseteq Bufs
    BY <1>1 DEF IInv, TypeInv
  <2>. QED
    BY <1>1, <1>2, <1>4, <1>5, <2>1, <2>2 DEF IInv, TypeInv
<1>7. BufferInv'
  <2>1. ASSUME NEW i \in 1..Len(TmpQ') PROVE m_size'[TmpQ'[i]] = 0
    <3>1. CASE i \in 1..Len(TmpQ)
      <4>1. TmpQ'[i] = TmpQ[i] /\ TmpQ[i] \in Bufs /\ m_size[TmpQ[i]] = 0
        BY <1>3, <1>4, <3>1 DEF IInv, BufferInv
      <4>. QED
        BY <1>5, <4>1
    <3>2. CASE i \notin 1..Len(TmpQ)
      <4>1. i = Len(TmpQ) + 1
        BY <1>3, <1>4, <3>2
      <4>. QED
        BY <1>4, <1>5, <4>1
    <3>. QED
      BY <3>1, <3>2
  <2>2. Len(ReadQ') <= NBUFS * received'
    BY <1>1, <1>2 DEF IInv, BufferInv
  <2>3. pc' = "collect" => Len(TmpQ') < NBUFS
    BY <1>2, <1>3, <1>4
  <2>4. pc' = "readv" => Len(TmpQ') = NBUFS
    BY <1>2, <1>4
  <2>5. pc' \in {"collect", "readv"} /\ vecs' = TmpQ'
    BY <1>2, <1>4
  <2>. QED
    BY <2>1, <2>2, <2>3, <2>4, <2>5 DEF BufferInv
<1>8. StreamInv'
  <2>1. \A c \in ToSet(ReadQ) : c \in Bufs /\ c # b
    BY <1>1, QueueTypes DEF IInv, LinkInv
  <2>2. \A c \in ToSet(ReadQ) : m_size'[c] = m_size[c] /\ data'[c] = data[c]
    BY <1>5, <2>1
  <2>. QED
    BY <1>1, <1>2, <2>2, StreamSame
<1>9. AnswerInv'
  BY <1>2 DEF AnswerInv, InPasses, IInv
<1>. QED
  BY <1>1, <1>6, <1>7, <1>8, <1>9 DEF IInv

(* A readv that delivers bytes.                                            *)
LEMMA DataInv ==
  ASSUME IInv, ReadvData
  PROVE  IInv'
<1>1. LinkInv' /\ h' \in Memory /\ ReadQ' = ReadQ \o TmpQ /\ TmpQ' = <<>>
  BY DataLinks
<1>2. /\ pc = "readv" /\ pc' = "collect" /\ vecs' = <<>>
      /\ UNCHANGED <<live, m_readable, m_close, answer, sent_size, sent>>
  BY DEF ReadvData, sendVars
<1>3. PICK n \in 1..(NBUFS * BUF_SIZE) : Stored(n)
  BY DataStored
<1>4. received' = received + n /\ received + n <= MaxBytes
  BY <1>3 DEF Stored
<1>5. NBUFS * BUF_SIZE \in Nat /\ received \in 0..MaxBytes /\ MaxBytes \in Nat
  BY Sizes DEF IInv, TypeInv
<1>6. received' \in 0..MaxBytes /\ n \in Nat /\ n >= 1 /\ received \in Nat
  BY <1>4, <1>5
<1>7. TypeInv'
  <2>1. <<>> \in Seq(Bufs) /\ Len(<<>>) = 0 /\ 0 <= NBUFS
    BY Sizes
  <2>2. /\ m_size' \in [Bufs -> 0..BUF_SIZE] /\ data' \in [Bufs -> Seq(Bytes)]
        /\ \A b \in Bufs : Len(data'[b]) <= BUF_SIZE
    BY DataStored
  <2>. QED
    BY <1>1, <1>2, <1>6, <2>1, <2>2 DEF TypeInv, IInv
<1>8. BufferInv'
  <2>1. /\ Len(ReadQ) <= NBUFS * received /\ Len(TmpQ) = NBUFS
        /\ Len(ReadQ) \in Nat /\ ReadQ \in Seq(Bufs) /\ TmpQ \in Seq(Bufs)
    BY <1>2, QueueTypes DEF IInv, BufferInv
  <2>2. Len(ReadQ') = Len(ReadQ) + NBUFS
    <3>1. Len(ReadQ \o TmpQ) = Len(ReadQ) + Len(TmpQ)
      BY <2>1
    <3>. QED
      BY <1>1, <2>1, <3>1
  <2>3. \A x, r, k \in Nat : k >= 1 => x * r + x <= x * (r + k)
    <3>1. ASSUME NEW x \in Nat, NEW r \in Nat, NEW d \in Nat
          PROVE  x * r + x <= x * (r + (d + 1))
      <4>1. /\ x * (r + (d + 1)) = x * r + x * d + x /\ x * d \in Nat
            /\ x * r \in Nat
        OBVIOUS
      <4>. QED
        BY <4>1
    <3>2. \A k \in Nat : k >= 1 => k - 1 \in Nat /\ k = (k - 1) + 1
      OBVIOUS
    <3>. QED
      BY <3>1, <3>2
  <2>4. NBUFS * received + NBUFS <= NBUFS * (received + n)
    BY <1>6, <2>3, Sizes
  <2>5. NBUFS * received \in Nat /\ NBUFS * (received + n) \in Nat
        /\ NBUFS \in Nat
    <3>1. \A x, y \in Nat : x * y \in Nat
      OBVIOUS
    <3>2. received + n \in Nat /\ NBUFS \in Nat
      BY <1>6, Sizes
    <3>. QED
      BY <1>6, <3>1, <3>2
  <2>6. Len(ReadQ') <= NBUFS * received'
    <3> DEFINE a == NBUFS * received
               b == NBUFS * (received + n)
    <3>1. received' = received + n
      BY <1>4
    <3>2. Len(ReadQ) <= a /\ a + NBUFS <= b /\ a \in Nat /\ b \in Nat
      BY <2>1, <2>4, <2>5
    <3> HIDE DEF a, b
    <3>3. Len(ReadQ) + NBUFS <= b
      BY <2>1, <2>5, <3>2
    <3>. QED
      BY <2>2, <3>1, <3>3 DEF b
  <2>7. Len(<<>>) = 0 /\ 0 < NBUFS /\ 1..0 = {}
    BY Sizes
  <2>. QED
    BY <1>1, <1>2, <2>6, <2>7 DEF BufferInv
<1>9. StreamInv'
  BY StreamData
<1>10. AnswerInv'
  BY <1>2 DEF AnswerInv, InPasses, IInv
<1>. QED
  BY <1>1, <1>7, <1>8, <1>9, <1>10 DEF IInv

(* The buffers of a readv that delivered nothing are freed.                *)
LEMMA FreedInv ==
  ASSUME IInv, pc = "readv", FreeAll(tmp_queue), vecs' = <<>>,
         UNCHANGED <<m_size, data, received>>, pc' \in {"send", "return"},
         m_readable' \in BOOLEAN, m_close' \in BOOLEAN,
         UNCHANGED <<sent_size, sent>>, answer' \in Seq(Bytes)
  PROVE  TypeInv' /\ LinkInv' /\ BufferInv' /\ StreamInv'
<1>1. /\ LinkInv' /\ h' \in Memory /\ live' \subseteq Bufs
      /\ ReadQ' = ReadQ /\ TmpQ' = <<>>
  BY FreeLinks
<1>2. TypeInv'
  <2>1. <<>> \in Seq(Bufs) /\ Len(<<>>) = 0 /\ 0 <= NBUFS
    BY Sizes
  <2>. QED
    BY <1>1, <2>1 DEF TypeInv, IInv
<1>3. BufferInv'
  <2>1. Len(<<>>) = 0 /\ 1..0 = {}
    OBVIOUS
  <2>2. Len(ReadQ') <= NBUFS * received'
    BY <1>1 DEF IInv, BufferInv
  <2>. QED
    BY <1>1, <2>1, <2>2 DEF BufferInv
<1>4. StreamInv'
  BY <1>1, StreamSame
<1>. QED
  BY <1>1, <1>2, <1>3, <1>4

(* A readv that fails or meets the end of the stream.                      *)
LEMMA EofInv ==
  ASSUME IInv, ReadvEof
  PROVE  IInv'
<1>1. /\ pc = "readv" /\ FreeAll(tmp_queue) /\ vecs' = <<>> /\ m_close' = TRUE
      /\ pc' = "return"
      /\ UNCHANGED <<m_size, data, m_readable, received>>
      /\ UNCHANGED <<answer, sent_size, sent>>
  BY DEF ReadvEof, sendVars
<1>2. m_readable' \in BOOLEAN /\ m_close' \in BOOLEAN /\ answer' \in Seq(Bytes)
  BY <1>1 DEF IInv, TypeInv
<1>3. TypeInv' /\ LinkInv' /\ BufferInv' /\ StreamInv'
  <2>1. pc' \in {"send", "return"} /\ UNCHANGED <<m_size, data, received>>
        /\ UNCHANGED <<sent_size, sent>>
    BY <1>1
  <2>. QED
    BY <1>1, <1>2, <2>1, FreedInv
<1>4. AnswerInv'
  BY <1>1 DEF AnswerInv, InPasses, IInv
<1>. QED
  BY <1>3, <1>4 DEF IInv

(* The first piece of the stream ends within it.                           *)
LEMMA FirstPiece ==
  ASSUME NEW parts, Len(parts) \in Nat, Len(parts) > 0, NEW off, NEW total,
         Pieces(parts, off, total)
  PROVE  off[1] <= total
<1> DEFINE n == Len(parts)
           S == {m \in Nat : m + 1 > n \/ off[1] <= off[m + 1]}
<1>1. /\ n \in Nat /\ n > 0 /\ off \in [0..n -> Nat] /\ off[n] = total
      /\ \A i \in 1..n : off[i - 1] <= off[i]
  BY DEF Pieces
<1> HIDE DEF n
<1>2. 0 \in S
  BY <1>1
<1>3. ASSUME NEW m \in S PROVE m + 1 \in S
  <2>1. CASE m + 1 + 1 > n
    BY <2>1
  <2>2. CASE ~(m + 1 + 1 > n)
    <3>1. off[1] <= off[m + 1] /\ m + 1 \in 0..n /\ m + 2 \in 1..n
      BY <1>1, <2>2
    <3>2. off[(m + 2) - 1] <= off[m + 2] /\ (m + 2) - 1 = m + 1
      BY <1>1, <3>1
    <3>3. off[1] \in Nat /\ off[m + 1] \in Nat /\ off[m + 2] \in Nat
      BY <1>1, <3>1
    <3>4. off[1] <= off[m + 2] /\ m + 1 + 1 = m + 2
      BY <3>1, <3>2, <3>3
    <3>. QED
      BY <3>4
  <2>. QED
    BY <2>1, <2>2
<1>4. S = Nat
  <2>1. S \in SUBSET Nat
    OBVIOUS
  <2> HIDE DEF S
  <2>. QED
    BY <1>2, <1>3, <2>1, SetInduction
<1>5. n - 1 \in S
  <2>1. n - 1 \in Nat
    BY <1>1
  <2> HIDE DEF S
  <2>. QED
    BY <1>4, <2>1
<1>6. ~((n - 1) + 1 > n) /\ (n - 1) + 1 = n
  BY <1>1
<1>7. off[1] <= off[n]
  BY <1>5, <1>6
<1>. QED
  BY <1>1, <1>7

(* What is sent behind the head: one byte of garbage if nothing came, and  *)
(* the begin of the stream otherwise.                                      *)
LEMMA BodyIs ==
  ASSUME IInv, pc = "readv"
  PROVE  /\ Body \in Seq(Bytes) /\ Body # <<>>
         /\ received = 0 => Body = <<Garbage>>
         /\ received # 0 => /\ Body = [i \in 1..Len(Body) |-> i]
                            /\ Len(Body) <= received
<1>1. /\ ReadQ \in Seq(Bufs) /\ Len(ReadQ) \in Nat
      /\ DOMAIN ReadQ = 1..Len(ReadQ)
      /\ FirstBuffer = IF ReadQ = <<>> THEN m_readbuf_queue ELSE ReadQ[1]
  BY QueueTypes
<1>2. PICK off : Pieces(Parts, off, received)
  BY DEF IInv, StreamInv
<1>3. Len(Parts) = Len(ReadQ)
  BY <1>1 DEF Parts
<1>4. CASE ReadQ = <<>>
  <2>1. received = 0
    BY <1>2, <1>3, <1>4 DEF Pieces
  <2>2. FirstBuffer \notin Bufs
    BY <1>1, <1>4, HeadFacts
  <2>3. Body = <<Garbage>>
    BY <2>2 DEF Body
  <2>4. Garbage \in Bytes
    BY Sizes DEF Garbage, Bytes
  <2>. QED
    BY <2>1, <2>3, <2>4
<1>5. CASE ReadQ # <<>>
  <2> DEFINE b == ReadQ[1]
  <2>1. 1 \in 1..Len(ReadQ) /\ b \in Bufs /\ FirstBuffer = b
    BY <1>1, <1>5
  <2>2. received # 0
    <3>1. Len(ReadQ) <= NBUFS * received /\ Len(ReadQ) > 0 /\ NBUFS * 0 = 0
      BY <1>1, <2>1, Sizes DEF IInv, BufferInv
    <3>. QED
      BY <1>1, <3>1
  <2>3. Body = Contents(b) /\ Body = Parts[1]
    BY <1>1, <2>1 DEF Body, Parts
  <2>4. m_size[b] \in 0..BUF_SIZE /\ m_size[b] > 0 /\ data[b] \in Seq(Bytes)
    BY <1>5, <2>1 DEF IInv, StreamInv, TypeInv
  <2>5. Body \in Seq(Bytes) /\ Len(Body) = m_size[b] /\ Body # <<>>
    <3>1. Garbage \in Bytes
      BY Sizes DEF Garbage, Bytes
    <3> DEFINE z == m_size[b]
               y == data[b]
    <3>2. z \in Nat /\ z > 0 /\ y \in Seq(Bytes)
      BY <2>4, Sizes
    <3>3. Body = [i \in 1..z |-> IF i <= Len(y) THEN y[i] ELSE Garbage]
      BY <2>3 DEF Contents
    <3> HIDE DEF z, y
    <3>4. Body \in Seq(Bytes) /\ Len(Body) = z
      BY <3>1, <3>2, <3>3
    <3>. QED
      BY <3>2, <3>4 DEF z
  <2>6. Body = [j \in 1..(off[1] - off[1 - 1]) |-> off[1 - 1] + j]
    BY <1>2, <1>3, <2>1, <2>3 DEF Pieces
  <2>7. off[1] \in Nat /\ off[0] = 0 /\ 1 - 1 = 0
    BY <1>1, <1>2, <1>3, <2>1 DEF Pieces
  <2>8. Body = [j \in 1..off[1] |-> j]
    <3>1. /\ off[1] - off[1 - 1] = off[1]
          /\ \A j \in 1..off[1] : off[1 - 1] + j = j
      BY <2>7
    <3>. QED
      BY <2>6, <3>1
  <2>9. Len(Body) = off[1]
    BY <2>7, <2>8
  <2>10. off[1] <= received
    BY <1>1, <1>2, <1>3, <2>1, FirstPiece
  <2>. QED
    BY <2>2, <2>5, <2>8, <2>9, <2>10
<1>. QED
  BY <1>4, <1>5

(* The head and the bytes up to a number that was received are one pass.   *)
LEMMA OnePass ==
  ASSUME NEW a \in Seq(Bytes), NEW b \in Seq(Bytes), Len(a) > 0,
         received \in Nat, Len(b) <= received,
         \A i \in 1..Len(a) : a[i] = HeadByte,
         \A i \in 1..Len(b) : b[i] = i
  PROVE  InPasses(a \o b)
<1> DEFINE c == a \o b
<1>1. /\ Len(a) \in Nat /\ Len(b) \in Nat /\ DOMAIN c = 1..(Len(a) + Len(b))
      /\ \A i \in 1..Len(a) : c[i] = a[i]
      /\ \A i \in (Len(a) + 1)..(Len(a) + Len(b)) : c[i] = b[i - Len(a)]
  OBVIOUS
<1> HIDE DEF c
<1> SUFFICES ASSUME NEW i \in DOMAIN c, c[i] # HeadByte
             PROVE  i > 1 /\ c[i] = c[i - 1] + 1 /\ c[i] <= received
  BY DEF InPasses, c
<1>2. i \in (Len(a) + 1)..(Len(a) + Len(b))
  BY <1>1
<1>3. i - Len(a) \in 1..Len(b) /\ c[i] = i - Len(a)
  <2>1. i - Len(a) \in 1..Len(b)
    BY <1>1, <1>2
  <2>. QED
    BY <1>1, <1>2, <2>1
<1>4. c[i - 1] = i - 1 - Len(a)
  <2>1. CASE i - 1 = Len(a)
    BY <1>1, <2>1 DEF HeadByte
  <2>2. CASE i - 1 # Len(a)
    <3>1. i - 1 \in (Len(a) + 1)..(Len(a) + Len(b))
      BY <1>1, <1>2, <2>2
    <3>2. (i - 1) - Len(a) \in 1..Len(b)
      BY <1>1, <3>1
    <3>. QED
      BY <1>1, <3>1, <3>2
  <2>. QED
    BY <2>1, <2>2
<1>. QED
  BY <1>1, <1>2, <1>3, <1>4

(* Passes followed by the beginning of one are passes.                     *)
LEMMA AnotherPass ==
  ASSUME NEW s \in Seq(Bytes), NEW a \in Seq(Bytes), NEW k \in 1..Len(a),
         InPasses(s), InPasses(a)
  PROVE  InPasses(s \o SubSeq(a, 1, k))
<1> DEFINE t == SubSeq(a, 1, k)
           c == s \o t
<1>1. /\ Len(a) \in Nat /\ DOMAIN a = 1..Len(a) /\ t \in Seq(Bytes)
      /\ Len(t) = k /\ \A i \in 1..k : t[i] = a[i]
  OBVIOUS
<1> HIDE DEF t
<1>2. /\ Len(s) \in Nat /\ DOMAIN s = 1..Len(s) /\ DOMAIN c = 1..(Len(s) + k)
      /\ \A i \in 1..Len(s) : c[i] = s[i]
      /\ \A i \in (Len(s) + 1)..(Len(s) + k) : c[i] = t[i - Len(s)]
  <2>1. Len(s) \in Nat /\ DOMAIN s = 1..Len(s) /\ k \in Nat
    OBVIOUS
  <2>2. t \in Seq(Bytes) /\ Len(t) = k
    BY <1>1
  <2>3. /\ Len(c) = Len(s) + Len(t) /\ DOMAIN c = 1..Len(c)
        /\ \A i \in 1..Len(s) : c[i] = s[i]
        /\ \A i \in (Len(s) + 1)..(Len(s) + Len(t)) : c[i] = t[i - Len(s)]
    BY <2>2
  <2> HIDE DEF c
  <2>. QED
    BY <2>1, <2>2, <2>3
<1> HIDE DEF c
<1> SUFFICES ASSUME NEW i \in DOMAIN c, c[i] # HeadByte
             PROVE  i > 1 /\ c[i] = c[i - 1] + 1 /\ c[i] <= received
  BY DEF InPasses, c, t
<1>3. CASE i \in 1..Len(s)
  <2>1. i > 1 /\ s[i] = s[i - 1] + 1 /\ s[i] <= received
    BY <1>2, <1>3 DEF InPasses
  <2>2. i - 1 \in 1..Len(s)
    BY <1>2, <1>3, <2>1
  <2>. QED
    BY <1>2, <1>3, <2>1, <2>2
<1>4. CASE i \in (Len(s) + 1)..(Len(s) + k)
  <2> DEFINE j == i - Len(s)
  <2>1. j \in 1..k /\ i = Len(s) + j /\ i \in Nat
    BY <1>2, <1>4
  <2>2. c[i] = a[j]
    BY <1>1, <1>2, <1>4, <2>1
  <2> HIDE DEF j
  <2>3. j > 1 /\ a[j] = a[j - 1] + 1 /\ a[j] <= received
    <3>1. j \in DOMAIN a
      BY <1>1, <2>1
    <3>. QED
      BY <2>2, <3>1 DEF InPasses
  <2>4. c[i - 1] = a[j - 1]
    <3>1. /\ i - 1 \in (Len(s) + 1)..(Len(s) + k) /\ j - 1 \in 1..k
          /\ (i - 1) - Len(s) = j - 1
      BY <1>2, <2>1, <2>3
    <3>. QED
      BY <1>1, <1>2, <3>1
  <2>. QED
    BY <1>2, <2>1, <2>2, <2>3, <2>4
<1>. QED
  BY <1>1, <1>2, <1>3, <1>4

(* A readv that would block: the answer is made.                           *)
LEMMA AgainInv ==
  ASSUME IInv, ReadvAgain
  PROVE  IInv'
<1> DEFINE head == [i \in 1..HeadLen |-> HeadByte]
           body == Body
           all == head \o body
<1>1. /\ pc = "readv" /\ FreeAll(tmp_queue) /\ vecs' = <<>>
      /\ m_readable' = FALSE /\ answer' = all /\ pc' = "send"
      /\ UNCHANGED <<m_size, data, m_close, received, sent_size, sent>>
  BY DEF ReadvAgain
<1>2. head \in Seq(Bytes) /\ Len(head) = HeadLen
  <2>1. HeadByte \in Bytes /\ HeadLen \in Nat
    BY Sizes DEF HeadByte, Bytes
  <2>. QED
    BY <2>1
<1>3. /\ body \in Seq(Bytes) /\ body # <<>>
      /\ received # 0 => /\ body = [i \in 1..Len(body) |-> i]
                         /\ Len(body) <= received
  BY <1>1, BodyIs
<1> HIDE DEF head, body
<1>4. all \in Seq(Bytes) /\ Len(all) > 0 /\ Len(all) \in Nat
  BY <1>2, <1>3, Sizes
<1>5. received > 0 => InPasses(all)
  <2>1. \A i \in 1..Len(head) : head[i] = HeadByte
    BY <1>2 DEF head
  <2>2. received > 0 => \A i \in 1..Len(body) : body[i] = i
    BY <1>3
  <2>3. received \in Nat
    BY Sizes DEF IInv, TypeInv
  <2>. QED
    BY <1>2, <1>3, <2>1, <2>2, <2>3, Sizes, OnePass
<1> HIDE DEF all
<1>6. TypeInv' /\ LinkInv' /\ BufferInv' /\ StreamInv'
  <2>1. /\ pc' \in {"send", "return"} /\ UNCHANGED <<m_size, data, received>>
        /\ UNCHANGED <<sent_size, sent>> /\ m_readable' \in BOOLEAN
        /\ m_close' \in BOOLEAN /\ answer' \in Seq(Bytes)
    BY <1>1, <1>4 DEF IInv, TypeInv
  <2>. QED
    BY <1>1, <2>1, FreedInv
<1>7. AnswerInv'
  <2>1. sent' = <<>> /\ sent_size' = Len(sent')
    BY <1>1 DEF IInv, AnswerInv
  <2>2. received' > 0 => InPasses(answer)' /\ InPasses(sent)'
    <3>1. received' = received /\ answer' = all
      BY <1>1
    <3>2. InPasses(sent)'
      BY <2>1 DEF InPasses
    <3>. QED
      BY <1>5, <3>1, <3>2 DEF InPasses
  <2>. QED
    BY <1>1, <2>1, <2>2 DEF AnswerInv
<1>. QED
  BY <1>6, <1>7 DEF IInv

(* Steps that leave the buffers alone.                                     *)
LEMMA BuffersSame ==
  ASSUME IInv, UNCHANGED <<h, live, m_size, data, vecs, received>>,
         pc \in {"send", "return"}, pc' \in {"send", "return", "close"}
  PROVE  LinkInv' /\ BufferInv' /\ StreamInv' /\ ReadQ' = ReadQ
<1>1. ReadQ' = ReadQ /\ TmpQ' = TmpQ
  BY DEF ReadQ, TmpQ, Queue
<1>2. LinkInv'
  BY <1>1 DEF IInv, LinkInv
<1>3. BufferInv'
  BY <1>1 DEF IInv, BufferInv
<1>4. StreamInv'
  BY <1>1, StreamSame
<1>. QED
  BY <1>1, <1>2, <1>3, <1>4

(* A writev.                                                               *)
LEMMA WritevInv ==
  ASSUME IInv, Writev
  PROVE  IInv'
<1>1. /\ pc = "send" /\ sent_size < Len(answer)
      /\ UNCHANGED <<pc, h, live, m_size, data, vecs>>
      /\ UNCHANGED <<m_readable, m_close, received, answer>>
  BY DEF Writev, bufVars
<1>2. PICK k \in 1..Len(answer) : /\ sent' = sent \o SubSeq(answer, 1, k)
                                  /\ sent_size' = sent_size + k
  BY DEF Writev
<1>3. /\ answer \in Seq(Bytes) /\ sent \in Seq(Bytes) /\ sent_size = Len(sent)
      /\ Len(answer) \in Nat
  BY DEF IInv, TypeInv, AnswerInv
<1>4. SubSeq(answer, 1, k) \in Seq(Bytes) /\ Len(SubSeq(answer, 1, k)) = k
  BY <1>3
<1>5. /\ sent' \in Seq(Bytes) /\ Len(sent') = Len(sent) + k /\ Len(sent) \in Nat
      /\ sent_size' = Len(sent') /\ sent_size' \in Nat
  BY <1>2, <1>3, <1>4
<1>6. received > 0 => InPasses(answer) /\ InPasses(sent')
  <2>1. ASSUME received > 0
        PROVE  InPasses(answer) /\ InPasses(sent \o SubSeq(answer, 1, k))
    <3>1. InPasses(answer) /\ InPasses(sent)
      BY <2>1 DEF IInv, AnswerInv
    <3>. QED
      BY <1>2, <1>3, <3>1, AnotherPass
  <2>. QED
    BY <1>2, <2>1
<1>7. TypeInv'
  BY <1>1, <1>5 DEF IInv, TypeInv
<1>8. LinkInv' /\ BufferInv' /\ StreamInv'
  <2>1. UNCHANGED <<h, live, m_size, data, vecs, received>>
        /\ pc \in {"send", "return"} /\ pc' \in {"send", "return", "close"}
    BY <1>1
  <2>. QED
    BY <2>1, BuffersSame
<1>9. AnswerInv'
  <2>1. received' > 0 => InPasses(answer)' /\ InPasses(sent)'
    BY <1>1, <1>6 DEF InPasses
  <2>. QED
    BY <1>1, <1>5, <2>1 DEF AnswerInv
<1>. QED
  BY <1>7, <1>8, <1>9 DEF IInv

(* The end of the send loop.                                               *)
LEMMA SendEndsInv ==
  ASSUME IInv, SendEnds
  PROVE  IInv'
<1>1. /\ pc = "send" /\ m_close' = TRUE /\ pc' = "return"
      /\ UNCHANGED <<h, live, m_size, data, vecs>>
      /\ UNCHANGED <<m_readable, received, answer, sent_size, sent>>
  BY DEF SendEnds, bufVars, sendVars
<1>2. TypeInv'
  BY <1>1 DEF IInv, TypeInv
<1>3. LinkInv' /\ BufferInv' /\ StreamInv'
  <2>1. UNCHANGED <<h, live, m_size, data, vecs, received>>
        /\ pc \in {"send", "return"} /\ pc' \in {"send", "return", "close"}
    BY <1>1
  <2>. QED
    BY <2>1, BuffersSame
<1>4. AnswerInv'
  BY <1>1 DEF IInv, AnswerInv, InPasses
<1>. QED
  BY <1>2, <1>3, <1>4 DEF IInv

(* The end of the read handler: there is nothing to give back.             *)
LEMMA ReturnInv ==
  ASSUME IInv, ReturnRead
  PROVE  IInv' /\ pc' = "close" /\ h' = h
<1>1. h' = h
  BY ReturnLinks
<1>2. /\ pc = "return" /\ m_close /\ pc' = "close"
      /\ UNCHANGED <<live, m_size, data, vecs, m_readable, m_close>>
      /\ UNCHANGED <<received, answer, sent_size, sent>>
  <2>1. pc = "return" /\ m_close
    BY DEF IInv, AnswerInv, ReturnRead
  <2>. QED
    BY <2>1 DEF ReturnRead, sendVars
<1>3. TypeInv'
  BY <1>1, <1>2 DEF IInv, TypeInv
<1>4. LinkInv' /\ BufferInv' /\ StreamInv'
  <2>1. UNCHANGED <<h, live, m_size, data, vecs, received>>
        /\ pc \in {"send", "return"} /\ pc' \in {"send", "return", "close"}
    BY <1>1, <1>2
  <2>. QED
    BY <2>1, BuffersSame
<1>5. AnswerInv'
  BY <1>2 DEF IInv, AnswerInv, InPasses
<1>. QED
  BY <1>1, <1>2, <1>3, <1>4, <1>5 DEF IInv

(* The close of the connection.                                            *)
LEMMA DisconnectInv ==
  ASSUME IInv, echo_handle_disconnect
  PROVE  IInv' /\ pc' = "closed" /\ dlist_empty(h', m_readbuf_queue)
<1>1. /\ pc = "close" /\ FreeAll(m_readbuf_queue) /\ m_readable' = FALSE
      /\ pc' = IF dlist_empty(h', m_readbuf_queue) THEN "closed" ELSE "abort"
      /\ UNCHANGED <<m_size, data, vecs, m_close, received>>
      /\ UNCHANGED <<answer, sent_size, sent>>
  BY DEF echo_handle_disconnect, sendVars
<1>2. TmpQ = <<>>
  BY <1>1 DEF IInv, BufferInv
<1>3. /\ LinkInv' /\ h' \in Memory /\ live' = {}
      /\ ReadQ' = <<>> /\ TmpQ' = <<>> /\ dlist_empty(h', m_readbuf_queue)
  BY <1>1, <1>2, DisconnectLinks
<1>4. pc' = "closed"
  BY <1>1, <1>3
<1>5. TypeInv'
  BY <1>1, <1>3, <1>4 DEF IInv, TypeInv
<1>6. BufferInv'
  <2>1. received \in Nat /\ NBUFS \in Nat
    BY Sizes DEF IInv, TypeInv
  <2>2. \A x, y \in Nat : 0 <= x * y
    OBVIOUS
  <2>3. Len(<<>>) = 0 /\ 1..0 = {}
    OBVIOUS
  <2>. QED
    BY <1>1, <1>3, <1>4, <2>1, <2>2, <2>3 DEF BufferInv
<1>7. StreamInv'
  BY <1>3, <1>4, StreamEmpty
<1>8. AnswerInv'
  BY <1>1, <1>4 DEF IInv, AnswerInv, InPasses
<1>. QED
  BY <1>3, <1>4, <1>5, <1>6, <1>7, <1>8 DEF IInv

-----------------------------------------------------------------------------
(* The theorems *)

(* A ring in the sense of the proofs is a sound ring in that of DList.     *)
LEMMA RingSound ==
  ASSUME NEW g \in Memory, NEW l \in Heads, NEW s, RingOf(g, l, s)
  PROVE  Ring(g, l)
<1> DEFINE n == Len(s)
           ring == {l} \cup ToSet(s)
<1>0. n \in Nat /\ s \in Seq(Bufs)
  BY DEF RingOf
<1>1. dlist_for_each_f(g, l) = s
  BY ForEachIs
<1>2. /\ n \in Nat /\ ToSet(s) = {s[i] : i \in 1..n} /\ ToSet(s) \subseteq Bufs
      /\ IsFiniteSet(ToSet(s)) /\ Cardinality(ToSet(s)) = n
      /\ s \in Seq(Bufs)
  BY RingSize DEF RingOf
<1>3. Cardinality(ring) = n + 1
  <2>1. l \notin ToSet(s) /\ ring = ToSet(s) \cup {l}
    BY <1>2, HeadFacts
  <2> HIDE DEF ring, n
  <2>. QED
    BY <1>2, <2>1, FS_AddElement
<1>4. \A i \in 0..n : /\ g.mp_next[Place(l, s, i)] = Place(l, s, i + 1)
                      /\ g.mp_prev[Place(l, s, i + 1)] = Place(l, s, i)
  BY DEF RingOf
<1>5. ASSUME NEW x \in ring PROVE g.mp_prev[g.mp_next[x]] = x
  <2>1. \E i \in 0..n : x = Place(l, s, i)
    <3>1. CASE x = l
      <4>1. 0 \in 0..n /\ Place(l, s, 0) = l
        BY <1>0 DEF Place
      <4>. QED
        BY <3>1, <4>1
    <3>2. CASE x \in ToSet(s)
      <4>1. PICK i \in 1..n : x = s[i]
        BY <1>2, <3>2
      <4>2. i \in 0..n /\ Place(l, s, i) = s[i]
        BY <1>0, <4>1 DEF Place
      <4>. QED
        BY <4>1, <4>2
    <3>. QED
      BY <3>1, <3>2
  <2>2. PICK i \in 0..n : x = Place(l, s, i)
    BY <2>1
  <2>. QED
    BY <1>4, <2>2
<1>6. g.mp_next[IF s = <<>> THEN l ELSE Last(s)] = l
  <2>1. g.mp_next[Place(l, s, n)] = l
    <3>1. n \in 0..n /\ Place(l, s, n + 1) = l
      BY <1>0 DEF Place
    <3>. QED
      BY <1>4, <3>1
  <2>2. CASE s = <<>>
    BY <2>1, <2>2 DEF Place
  <2>3. CASE s # <<>>
    <3>1. n \in 1..n
      BY <1>0, <2>3
    <3>. QED
      BY <2>1, <2>3, <3>1 DEF Place, Last
  <2>. QED
    BY <2>2, <2>3
<1> HIDE DEF n
<1>. QED
  BY <1>1, <1>3, <1>5, <1>6 DEF Ring, n

(* The invariant is inductive, and so holds whatever readv and writev      *)
(* return and whenever the connection ends: the three queues of echo.c are *)
(* rings without a common buffer, the calls of dlist_merge, dlist_add_tail *)
(* and dlist_del leave them so, and the read queue holds the stream.       *)
THEOREM Inductive == Spec => []IInv
<1>1. Init => IInv
  BY InitInv
<1>2. IInv /\ [Next]_vars => IInv'
  <2> SUFFICES ASSUME IInv, [Next]_vars PROVE IInv'
    OBVIOUS
  <2>1. CASE Accept
    BY <2>1, AcceptInv
  <2>2. CASE echo_handle_read
    BY <2>2, ReadInv
  <2>3. CASE CollectBuffer
    BY <2>3, CollectInv
  <2>4. CASE ReadvData
    BY <2>4, DataInv
  <2>5. CASE ReadvEof
    BY <2>5, EofInv
  <2>6. CASE ReadvAgain
    BY <2>6, AgainInv
  <2>7. CASE Writev
    BY <2>7, WritevInv
  <2>8. CASE SendEnds
    BY <2>8, SendEndsInv
  <2>9. CASE ReturnRead
    BY <2>9, ReturnInv
  <2>10. CASE echo_handle_disconnect
    BY <2>10, DisconnectInv
  <2>11. CASE UNCHANGED vars
    <3>1. ReadQ' = ReadQ /\ TmpQ' = TmpQ
      BY <2>11 DEF vars, ReadQ, TmpQ, Queue
    <3>2. TypeInv'
      BY <2>11 DEF vars, IInv, TypeInv
    <3>3. LinkInv' /\ BufferInv'
      BY <2>11, <3>1 DEF vars, IInv, LinkInv, BufferInv
    <3>4. StreamInv'
      <4>1. CASE pc = "closed"
        <5>1. pc' = "closed" /\ ReadQ' = <<>>
          BY <2>11, <3>1, <4>1 DEF vars, IInv, BufferInv
        <5>. QED
          BY <5>1, StreamEmpty
      <4>2. CASE pc # "closed"
        BY <2>11, <3>1, <4>2, StreamSame DEF vars
      <4>. QED
        BY <4>1, <4>2
    <3>5. AnswerInv'
      BY <2>11 DEF vars, IInv, AnswerInv, InPasses
    <3>. QED
      BY <3>2, <3>3, <3>4, <3>5 DEF IInv
  <2>. QED
    BY <2>1, <2>2, <2>3, <2>4, <2>5, <2>6, <2>7, <2>8, <2>9, <2>10, <2>11
    DEF Next, Step
<1>. QED
  BY <1>1, <1>2, PTL DEF Spec

(* Every buffer echo.c allocates is on exactly one sound queue until it is *)
(* freed, a closed slot owns none, the assertion of the disconnect handler *)
(* holds, and no buffer of an earlier call is ever used again.             *)
THEOREM BuffersCorrect == Spec => []BuffersOwned
<1>1. IInv => BuffersOwned
  <2> SUFFICES ASSUME IInv PROVE BuffersOwned
    OBVIOUS
  <2>1. TypeOK
    <3>1. \A V : \A s \in Seq(V) : ToSet(s) \subseteq V
      <4> SUFFICES ASSUME NEW V, NEW s \in Seq(V) PROVE ToSet(s) \subseteq V
        OBVIOUS
      <4>. QED
        BY DEF ToSet
    <3>2. \A b \in Bufs : ToSet(data[b]) \subseteq Bytes
      <4> SUFFICES ASSUME NEW b \in Bufs PROVE ToSet(data[b]) \subseteq Bytes
        OBVIOUS
      <4>1. data[b] \in Seq(Bytes)
        BY DEF IInv, TypeInv
      <4>. QED
        BY <3>1, <4>1
    <3>3. /\ ToSet(vecs) \subseteq Bufs /\ ToSet(answer) \subseteq Bytes
          /\ ToSet(sent) \subseteq Bytes
      BY <3>1 DEF IInv, TypeInv
    <3>. QED
      BY <3>2, <3>3 DEF IInv, TypeInv, TypeOK, Memory
  <2>2. /\ h \in Memory /\ RingOf(h, m_readbuf_queue, ReadQ)
        /\ RingOf(h, tmp_queue, TmpQ) /\ RingOf(h, old_queue, <<>>)
        /\ ToSet(ReadQ) \cap ToSet(TmpQ) = {}
        /\ live = ToSet(ReadQ) \cup ToSet(TmpQ)
    BY DEF IInv, TypeInv, LinkInv
  <2>3. /\ Queue(m_readbuf_queue) = ReadQ /\ Queue(tmp_queue) = TmpQ
        /\ Queue(old_queue) = <<>>
    BY <2>2, HeadFacts, ForEachIs DEF ReadQ, TmpQ, Queue
  <2>4. ToSet(<<>>) = {}
    BY DEF ToSet
  <2>5. QueuesSound
    <3>1. \A l \in Heads : Ring(h, l)
      BY <2>2, HeadFacts, RingSound
    <3>2. \A l, k \in Heads : l # k => ToSet(Queue(l)) \cap ToSet(Queue(k)) = {}
      BY <2>2, <2>3, <2>4, HeadFacts
    <3>3. live = UNION {ToSet(Queue(l)) : l \in Heads}
      BY <2>2, <2>3, <2>4, HeadFacts
    <3>. QED
      BY <3>1, <3>2, <3>3 DEF QueuesSound
  <2>6. dlist_empty(h, old_queue)
    BY QueueTypes
  <2>7. NothingLeft
    <3>1. pc # "abort"
      BY DEF IInv, TypeInv
    <3>2. ASSUME pc = "closed"
          PROVE  live = {} /\ \A l \in Heads : dlist_empty(h, l)
      <4>1. ReadQ = <<>> /\ TmpQ = <<>>
        BY <3>2 DEF IInv, BufferInv
      <4>. QED
        BY <2>2, <2>4, <2>6, <4>1, HeadFacts, QueueTypes
    <3>. QED
      BY <3>1, <3>2 DEF NothingLeft
  <2>. QED
    BY <2>1, <2>5, <2>6, <2>7 DEF BuffersOwned, OldQueueUnused
<1>. QED
  BY <1>1, Inductive, PTL

(* The read queue holds what the peer sent, complete and in order,         *)
(* whatever the sizes of the readvs: the sizes set from readv's result     *)
(* agree with what the kernel stored.                                      *)
THEOREM StreamCorrect == Spec => []StreamIntact
<1>1. IInv => StreamIntact
  <2> SUFFICES ASSUME IInv, Handling \/ pc = "close"
               PROVE  FlattenSeq(Parts) = [i \in 1..received |-> i]
    BY DEF StreamIntact, Parts, ReadQ
  <2>1. pc # "closed"
    BY DEF Handling
  <2>2. PICK off : Pieces(Parts, off, received)
    BY <2>1 DEF IInv, StreamInv
  <2> DEFINE V == {Contents(ReadQ[i]) : i \in DOMAIN ReadQ}
  <2>3. Parts \in Seq(V)
    <3>1. DOMAIN ReadQ = 1..Len(ReadQ) /\ Len(ReadQ) \in Nat
      BY QueueTypes
    <3>. QED
      BY <3>1 DEF Parts
  <2> HIDE DEF V
  <2>. QED
    BY <2>2, <2>3, Flattened
<1>. QED
  BY <1>1, Inductive, PTL

(* The peer is sent nothing but passes over the head and its own bytes, in *)
(* order, however the reads were split and however short the writevs are.  *)
THEOREM AnswerCorrect == Spec => []AnswerSent
<1>1. IInv => AnswerSent
  BY DEF IInv, AnswerInv, AnswerSent
<1>. QED
  BY <1>1, Inductive, PTL

(* The handler, its loops over readv and writev included, is the one step  *)
(* that EventLoop takes it for.                                            *)
THEOREM SocketImplemented == Spec => ImplementsSocket
<1> DEFINE op == pc # "closed"
           rd == IF Handling THEN TRUE ELSE m_readable
           cl == IF Handling THEN FALSE ELSE m_close
           bu == IF Handling THEN FALSE ELSE ~dlist_empty(h, m_readbuf_queue)
<1>1. Init => Socket!Init
  <2> SUFFICES ASSUME Init PROVE Socket!Init
    OBVIOUS
  <2>1. IInv /\ pc = "closed"
    BY InitInv DEF Init
  <2>2. dlist_empty(h, m_readbuf_queue)
    BY <2>1, QueueTypes DEF IInv, BufferInv
  <2>. QED
    BY <2>1, <2>2 DEF Socket!Init, Init, Handling
<1>2. IInv /\ [Next]_vars => [Socket!Next]_(Socket!vars)
  <2> SUFFICES ASSUME IInv, [Next]_vars PROVE [Socket!Next]_(Socket!vars)
    OBVIOUS
  <2>1. ASSUME Accept PROVE Socket!Accept
    <3>1. /\ pc = "closed" /\ pc' = "idle"
          /\ m_readable' = FALSE /\ m_close' = FALSE
      BY <2>1 DEF Accept
    <3>2. dlist_empty(h', m_readbuf_queue)
      <4>1. IInv' /\ ReadQ' = <<>>
        BY <2>1, AcceptInv, AcceptLinks
      <4>2. RingOf(h', m_readbuf_queue, <<>>)
        BY <4>1 DEF IInv, LinkInv
      <4>. QED
        BY <4>2, HeadFacts, RingEnds
    <3>. QED
      BY <3>1, <3>2 DEF Socket!Accept, Handling
  <2>2. ASSUME echo_handle_read PROVE Socket!Post
    <3>1. pc = "idle" /\ pc' = "collect" /\ ~m_close
      BY <2>2 DEF echo_handle_read, IInv, AnswerInv
    <3>2. m_close \in BOOLEAN
      BY DEF IInv, TypeInv
    <3>3. dlist_empty(h, m_readbuf_queue)
      BY <3>1, QueueTypes DEF IInv, BufferInv
    <3>. QED
      BY <3>1, <3>2, <3>3 DEF Socket!Post, Handling
  <2>3. ASSUME Handling, Handling' PROVE UNCHANGED Socket!vars
    BY <2>3 DEF Socket!vars, Handling
  <2>4. ASSUME CollectBuffer \/ ReadvData \/ ReadvEof \/ ReadvAgain
                 \/ Writev \/ SendEnds
        PROVE  Handling /\ Handling'
    <3>1. CASE CollectBuffer
      BY <3>1 DEF CollectBuffer, Handling
    <3>2. CASE ReadvData
      BY <3>2 DEF ReadvData, Handling
    <3>3. CASE ReadvEof \/ ReadvAgain
      BY <3>3 DEF ReadvEof, ReadvAgain, Handling
    <3>4. CASE Writev \/ SendEnds
      BY <3>4 DEF Writev, SendEnds, Handling
    <3>. QED
      BY <2>4, <3>1, <3>2, <3>3, <3>4
  <2>5. ASSUME ReturnRead PROVE Socket!ReadEcho
    <3>1. pc = "return" /\ m_readable' = m_readable /\ m_close' = m_close
      BY <2>5 DEF ReturnRead
    <3>2. pc' = "close" /\ m_close /\ m_readable \in BOOLEAN
          /\ m_close \in BOOLEAN
      BY <2>5, <3>1, ReturnInv DEF IInv, AnswerInv, TypeInv
    <3> DEFINE got == ~dlist_empty(h', m_readbuf_queue)
               dry == ~m_readable
               none == FALSE
    <3>3. got \in BOOLEAN /\ dry \in BOOLEAN /\ none \in BOOLEAN
      OBVIOUS
    <3>4. Handling /\ ~Handling' /\ pc # "closed" /\ pc' # "closed"
      BY <3>1, <3>2 DEF Handling
    <3>5. \E gotData, drained, old \in BOOLEAN :
            /\ old => bu
            /\ bu' = (old \/ gotData)
            /\ rd' = ~drained
      <4>1. /\ none => bu
            /\ bu' = (none \/ got)
            /\ rd' = ~dry
        BY <3>1, <3>2, <3>4
      <4> HIDE DEF none, bu, got, dry, rd
      <4>. QED
        BY <3>3, <4>1
    <3>. QED
      BY <3>1, <3>2, <3>4, <3>5 DEF Socket!ReadEcho
  <2>6. ASSUME echo_handle_disconnect PROVE Socket!Close
    <3>1. pc = "close" /\ m_readable' = FALSE /\ m_close' = m_close
      BY <2>6 DEF echo_handle_disconnect
    <3>2. /\ pc' = "closed" /\ m_close /\ m_close \in BOOLEAN
          /\ dlist_empty(h', m_readbuf_queue)
      BY <2>6, <3>1, DisconnectInv DEF IInv, AnswerInv, TypeInv
    <3>. QED
      BY <3>1, <3>2 DEF Socket!Close, Handling
  <2>7. ASSUME UNCHANGED vars PROVE UNCHANGED Socket!vars
    BY <2>7 DEF vars, Socket!vars, Handling
  <2>. QED
    BY <2>1, <2>2, <2>3, <2>4, <2>5, <2>6, <2>7 DEF Next, Step, Socket!Next
<1>. QED
  BY <1>1, <1>2, Inductive, PTL DEF Spec, ImplementsSocket, Socket!Spec
=============================================================================
