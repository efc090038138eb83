-------------------------- MODULE Resource_proofs --------------------------
(* Theorems about Resource, for a cache of every capacity.                 *)
EXTENDS Resource, FiniteSetTheorems, WellFoundedInduction, TLAPS

-----------------------------------------------------------------------------
(* Numbers *)

(* A set of natural numbers that is not empty has a least one.             *)
LEMMA LeastExists ==
  ASSUME NEW S \in SUBSET Nat, S # {}
  PROVE  \E m \in S : \A n \in S : m <= n
<1> DEFINE R == OpToRel(<, Nat)
<1>1. IsWellFoundedOn(R, Nat)
  BY NatLessThanWellFounded
<1>2. \A x, y \in Nat : x < y => <<x, y>> \in R
  BY DEF OpToRel
<1> HIDE DEF R
<1>3. PICK m \in S : \A n \in S : ~(<<n, m>> \in R)
  BY <1>1, WFMin
<1>4. ASSUME NEW n \in S PROVE m <= n
  <2>1. ~(n < m)
    BY <1>2, <1>3
  <2>. QED
    BY <2>1
<1>. QED
  BY <1>4

(* One that has 0 and with every number the next one has them all.         *)
LEMMA SetInduction ==
  ASSUME NEW S \in SUBSET Nat, 0 \in S, \A n \in S : n + 1 \in S
  PROVE  S = Nat
<1>1. SUFFICES ASSUME Nat \ S # {} PROVE FALSE
  OBVIOUS
<1>2. PICK m \in Nat \ S : \A n \in Nat \ S : m <= n
  BY <1>1, LeastExists
<1>3. m # 0 /\ m - 1 \in Nat /\ m - 1 \notin Nat \ S
  BY <1>2
<1>. QED
  BY <1>2, <1>3

-----------------------------------------------------------------------------
(* The lists of list.h.  q names the pointers of a walk: n elements, each  *)
(* met once, and NULL at the end.                                          *)

Chain(list, link, n, q) ==
  /\ n \in 0..Capacity /\ q \in [0..n -> Pointer]
  /\ q[0] = list /\ q[n] = NULL
  /\ \A k \in 0..(n - 1) : q[k] \in Elements /\ link[q[k]] = q[k + 1]
  /\ \A j, k \in 0..(n - 1) : q[j] = q[k] => j = k

Sound(list, link) ==
  \E n \in 0..Capacity : \E q \in [0..n -> Pointer] : Chain(list, link, n, q)

(* A walk over a chain meets the elements of the chain.                    *)
LEMMA WalkIs ==
  ASSUME NEW list, NEW link, NEW n, NEW q, Chain(list, link, n, q)
  PROVE  Walk(list, link)
           = [k \in 0..Capacity |-> IF k <= n THEN q[k] ELSE NULL]
<1> DEFINE w == [k \in 0..Capacity |-> IF k <= n THEN q[k] ELSE NULL]
           Rec(f) == [k \in 0..Capacity |->
                        IF k = 0 THEN list
                        ELSE IF f[k - 1] = NULL THEN NULL ELSE link[f[k - 1]]]
<1>0. Capacity \in Nat \ {0} /\ n \in 0..Capacity
  BY CapacityAssumption DEF Chain
<1>1. w = Rec(w)
  <2> SUFFICES ASSUME NEW k \in 0..Capacity
               PROVE  w[k] = IF k = 0 THEN list
                             ELSE IF w[k - 1] = NULL THEN NULL
                             ELSE link[w[k - 1]]
    OBVIOUS
  <2>1. CASE k = 0
    BY <1>0, <2>1 DEF Chain
  <2>2. CASE k # 0 /\ k <= n
    <3>1. /\ k - 1 \in 0..(n - 1) /\ k - 1 \in 0..Capacity
          /\ k - 1 <= n /\ (k - 1) + 1 = k
      BY <1>0, <2>2
    <3>2. w[k - 1] = q[k - 1] /\ w[k] = q[k]
      BY <2>2, <3>1
    <3>3. q[k - 1] # NULL /\ link[q[k - 1]] = q[k]
      BY <3>1 DEF Chain, Elements, NULL
    <3>. QED
      BY <2>2, <3>2, <3>3
  <2>3. CASE k > n
    <3>1. k - 1 \in 0..Capacity /\ k # 0 /\ ~(k <= n)
      BY <1>0, <2>3
    <3>2. w[k - 1] = NULL
      <4>1. CASE k - 1 = n
        BY <1>0, <3>1, <4>1 DEF Chain
      <4>2. CASE k - 1 # n
        BY <1>0, <2>3, <3>1, <4>2
      <4>. QED
        BY <4>1, <4>2
    <3>. QED
      BY <3>1, <3>2
  <2>. QED
    BY <1>0, <2>1, <2>2, <2>3
<1> HIDE DEF w
<1>2. \E f : f = Rec(f)
  BY <1>1
<1>3. Walk(list, link) = Rec(Walk(list, link))
  BY <1>2, Zenon DEF Walk
<1> DEFINE v == Walk(list, link)
           S == {k \in Nat : k \in 0..Capacity => v[k] = w[k]}
<1> HIDE DEF v
<1>4. S = Nat
  <2>1. 0 \in S
    BY <1>0, <1>1, <1>3 DEF v
  <2>2. ASSUME NEW k \in S PROVE k + 1 \in S
    <3>1. CASE k + 1 \in 0..Capacity
      <4>1. k \in 0..Capacity /\ (k + 1) - 1 = k /\ k + 1 # 0
        BY <1>0, <3>1
      <4>2. v[k] = w[k]
        BY <4>1
      <4>3. /\ v[k + 1] = IF v[k] = NULL THEN NULL ELSE link[v[k]]
            /\ w[k + 1] = IF w[k] = NULL THEN NULL ELSE link[w[k]]
        BY <1>1, <1>3, <3>1, <4>1 DEF v
      <4>. QED
        BY <4>2, <4>3
    <3>. QED
      BY <3>1
  <2> HIDE DEF S
  <2>3. S \in SUBSET Nat
    BY DEF S
  <2>. QED
    BY <2>1, <2>2, <2>3, SetInduction
<1>5. \A k \in 0..Capacity : v[k] = w[k]
  BY <1>0, <1>4
<1>6. v = [k \in 0..Capacity |-> v[k]] /\ w = [k \in 0..Capacity |-> w[k]]
  BY <1>1, <1>3 DEF v
<1>7. v = w
  BY <1>5, <1>6
<1>. QED
  BY <1>7 DEF v, w

(* The elements on a list, and how many there are.                         *)
LEMMA OnListIs ==
  ASSUME NEW list, NEW link, NEW n, NEW q, Chain(list, link, n, q)
  PROVE  /\ OnList(list, link) = {q[k] : k \in 0..(n - 1)}
         /\ OnList(list, link) \subseteq Elements
         /\ IsFiniteSet(OnList(list, link))
         /\ Cardinality(OnList(list, link)) = n
         /\ Walk(list, link)[n] = NULL
<1>0. Capacity \in Nat \ {0} /\ n \in 0..Capacity
  BY CapacityAssumption DEF Chain
<1> DEFINE w == [k \in 0..Capacity |-> IF k <= n THEN q[k] ELSE NULL]
           I == {q[k] : k \in 0..(n - 1)}
<1>1. Walk(list, link) = w
  BY WalkIs
<1>2. I \subseteq Elements /\ NULL \notin I
  BY DEF Chain, Elements, NULL
<1>3. {w[k] : k \in 0..Capacity} \ {NULL} = I
  <2>1. ASSUME NEW k \in 0..Capacity, w[k] # NULL PROVE w[k] \in I
    <3>1. k <= n /\ k # n
      BY <1>0, <2>1 DEF Chain
    <3>. QED
      BY <1>0, <3>1
  <2>2. ASSUME NEW k \in 0..(n - 1) PROVE q[k] = w[k] /\ k \in 0..Capacity
    BY <1>0
  <2>. QED
    BY <1>2, <2>1, <2>2
<1>4. OnList(list, link) = I
  BY <1>1, <1>3 DEF OnList
<1>5. IsFiniteSet(I) /\ Cardinality(I) = n
  <2> DEFINE g == [k \in 0..(n - 1) |-> q[k]]
  <2>1. g \in Surjection(0..(n - 1), I)
    BY DEF Surjection
  <2>2. g \in Injection(0..(n - 1), I)
    BY DEF Injection, IsInjective, Chain
  <2>3. IsFiniteSet(0..(n - 1)) /\ Cardinality(0..(n - 1)) = n
    <3>1. n - 1 \in Int /\ (n - 1) - 0 + 1 = n
      BY <1>0
    <3>2. CASE n = 0
      <4>1. 0..(n - 1) = {}
        BY <3>2
      <4>. QED
        BY <3>2, <4>1, FS_EmptySet
    <3>3. CASE n # 0
      BY <1>0, <3>1, <3>3, FS_Interval
    <3>. QED
      BY <3>2, <3>3
  <2> HIDE DEF g, I
  <2>. QED
    BY <2>1, <2>2, <2>3, FS_Surjection
<1>6. w[n] = NULL
  BY <1>0 DEF Chain
<1>. QED
  BY <1>1, <1>2, <1>4, <1>5, <1>6

(* The elements of a sound list: finitely many, and the walk ends.         *)
LEMMA SoundElements ==
  ASSUME NEW list, NEW link, Sound(list, link)
  PROVE  /\ OnList(list, link) \subseteq Elements
         /\ IsFiniteSet(OnList(list, link))
         /\ Walk(list, link)[Cardinality(OnList(list, link))] = NULL
         /\ list \in Pointer
         /\ list = NULL <=> OnList(list, link) = {}
         /\ list # NULL => list \in OnList(list, link)
<1>0. Capacity \in Nat \ {0}
  BY CapacityAssumption
<1>1. PICK n \in 0..Capacity : \E q \in [0..n -> Pointer] :
        Chain(list, link, n, q)
  BY DEF Sound
<1>2. PICK q \in [0..n -> Pointer] : Chain(list, link, n, q)
  BY <1>1
<1>3. /\ OnList(list, link) = {q[k] : k \in 0..(n - 1)}
      /\ OnList(list, link) \subseteq Elements
      /\ IsFiniteSet(OnList(list, link))
      /\ Cardinality(OnList(list, link)) = n
      /\ Walk(list, link)[n] = NULL
  BY <1>2, OnListIs
<1>4. list = q[0] /\ q[0] \in Pointer /\ q[n] = NULL
  BY <1>0, <1>2 DEF Chain
<1>5. n # 0 => 0 \in 0..(n - 1)
  BY <1>0
<1>6. NULL \notin Elements
  BY DEF NULL, Elements
<1>7. CASE n = 0
  <2>1. 0..(n - 1) = {}
    BY <1>7
  <2>2. OnList(list, link) = {} /\ list = NULL
    BY <1>3, <1>4, <1>7, <2>1
  <2>. QED
    BY <1>3, <1>4, <2>2
<1>8. CASE n # 0
  <2>1. list \in OnList(list, link) /\ list # NULL
    BY <1>3, <1>4, <1>5, <1>6, <1>8
  <2>. QED
    BY <1>3, <1>4, <2>1
<1>. QED
  BY <1>7, <1>8

(* A list does not depend on the link words of elements that are not on    *)
(* it.                                                                     *)
LEMMA Frame ==
  ASSUME NEW list, NEW link, Sound(list, link), NEW new,
         \A e \in OnList(list, link) : new[e] = link[e]
  PROVE  Sound(list, new) /\ OnList(list, new) = OnList(list, link)
<1>1. PICK n \in 0..Capacity : \E q \in [0..n -> Pointer] :
        Chain(list, link, n, q)
  BY DEF Sound
<1>2. PICK q \in [0..n -> Pointer] : Chain(list, link, n, q)
  BY <1>1
<1>3. OnList(list, link) = {q[k] : k \in 0..(n - 1)}
  BY <1>2, OnListIs
<1>4. Chain(list, new, n, q)
  BY <1>2, <1>3 DEF Chain
<1>. QED
  BY <1>3, <1>4, OnListIs DEF Sound

(* The empty list.                                                         *)
LEMMA Empty ==
  ASSUME NEW link
  PROVE  Sound(NULL, link) /\ OnList(NULL, link) = {}
<1> DEFINE q == [k \in 0..0 |-> NULL]
<1>1. 0 \in 0..Capacity /\ 0..(0 - 1) = {} /\ NULL \in Pointer
  BY CapacityAssumption DEF Pointer, NULL
<1>2. Chain(NULL, link, 0, q) /\ q \in [0..0 -> Pointer]
  BY <1>1 DEF Chain
<1> HIDE DEF q
<1>3. OnList(NULL, link) = {q[k] : k \in 0..(0 - 1)}
  BY <1>2, OnListIs
<1>. QED
  BY <1>1, <1>2, <1>3 DEF Sound

(* add_node puts an element that is on no list at the head.                *)
LEMMA AddNode ==
  ASSUME NEW list, NEW link \in [Elements -> Pointer], Sound(list, link),
         NEW node \in Elements \ OnList(list, link),
         NEW r, r = add_node(list, link, node)
  PROVE  /\ Sound(r.list, r.link)
         /\ OnList(r.list, r.link) = OnList(list, link) \cup {node}
         /\ r.list = node /\ r.link \in [Elements -> Pointer]
         /\ \A e \in Elements \ {node} : r.link[e] = link[e]
<1>0. Capacity \in Nat \ {0} /\ node \in 1..Capacity /\ list \in Pointer
  BY CapacityAssumption, SoundElements DEF Elements
<1>1. PICK n \in 0..Capacity : \E q \in [0..n -> Pointer] :
        Chain(list, link, n, q)
  BY DEF Sound
<1>2. PICK q \in [0..n -> Pointer] : Chain(list, link, n, q)
  BY <1>1
<1>3. /\ OnList(list, link) = {q[k] : k \in 0..(n - 1)}
      /\ OnList(list, link) \subseteq Elements
      /\ IsFiniteSet(OnList(list, link))
      /\ Cardinality(OnList(list, link)) = n
  BY <1>2, OnListIs
<1>4. n < Capacity
  <2> DEFINE L == OnList(list, link)
  <2>1. IsFiniteSet(Elements) /\ Cardinality(Elements) = Capacity
    BY <1>0, FS_Interval DEF Elements
  <2>2. /\ IsFiniteSet(L \cup {node})
        /\ Cardinality(L \cup {node}) = n + 1
    BY <1>3, FS_AddElement
  <2>3. L \cup {node} \subseteq Elements
    BY <1>3
  <2> HIDE DEF L
  <2>4. Cardinality(L \cup {node}) <= Cardinality(Elements)
    BY <2>1, <2>3, FS_Subset
  <2>. QED
    BY <1>0, <1>1, <2>1, <2>2, <2>4
<1>5. r.list = node /\ r.link = [link EXCEPT ![node] = list]
  BY DEF add_node
<1> DEFINE p == [k \in 0..(n + 1) |-> IF k = 0 THEN node ELSE q[k - 1]]
<1>6. p \in [0..(n + 1) -> Pointer] /\ n + 1 \in 0..Capacity
  <2>1. \A k \in 0..(n + 1) : k # 0 => k - 1 \in 0..n
    BY <1>0
  <2>2. node \in Pointer
    BY <1>0 DEF Pointer
  <2>. QED
    BY <1>0, <1>2, <1>4, <2>1, <2>2
<1>7. p[0] = node /\ p[n + 1] = NULL
  BY <1>0, <1>2 DEF Chain
<1>8. ASSUME NEW k \in 0..n
      PROVE  p[k] \in Elements /\ r.link[p[k]] = p[k + 1]
  <2>1. CASE k = 0
    BY <1>0, <1>2, <1>5, <2>1 DEF Chain
  <2>2. CASE k # 0
    <3>1. /\ k - 1 \in 0..(n - 1) /\ (k - 1) + 1 = k /\ (k + 1) - 1 = k
          /\ p[k] = q[k - 1] /\ p[k + 1] = q[k]
      BY <1>0, <2>2
    <3>2. q[k - 1] \in Elements /\ link[q[k - 1]] = q[k]
      BY <1>2, <3>1 DEF Chain
    <3>3. q[k - 1] # node
      BY <1>3, <3>1
    <3>. QED
      BY <1>5, <3>1, <3>2, <3>3
  <2>. QED
    BY <2>1, <2>2
<1>9. ASSUME NEW j \in 0..n, NEW k \in 0..n, p[j] = p[k] PROVE j = k
  <2>1. \A i \in 0..n : i # 0 => /\ i - 1 \in 0..(n - 1) /\ p[i] = q[i - 1]
                                 /\ q[i - 1] # node
    BY <1>0, <1>3
  <2>2. j # 0 /\ k # 0 => j - 1 = k - 1
    BY <1>2, <1>9, <2>1 DEF Chain
  <2>3. p[0] = node
    BY <1>7
  <2> HIDE DEF p
  <2>. QED
    BY <1>0, <1>9, <2>1, <2>2, <2>3
<1>10. Chain(r.list, r.link, n + 1, p)
  <2>1. (n + 1) - 1 = n
    BY <1>0
  <2> HIDE DEF p
  <2>. QED
    BY <1>5, <1>6, <1>7, <1>8, <1>9, <2>1 DEF Chain
<1>11. OnList(r.list, r.link) = OnList(list, link) \cup {node}
  <2>1. OnList(r.list, r.link) = {p[k] : k \in 0..n}
    <3>1. (n + 1) - 1 = n
      BY <1>0
    <3> HIDE DEF p
    <3>. QED
      BY <1>10, <3>1, OnListIs
  <2>2. \A k \in 0..n : k # 0 => k - 1 \in 0..(n - 1) /\ p[k] = q[k - 1]
    BY <1>0
  <2>3. \A k \in 0..(n - 1) : k + 1 \in 0..n /\ p[k + 1] = q[k]
    BY <1>0
  <2>4. 0 \in 0..n
    BY <1>0
  <2>5. OnList(list, link) = {q[k] : k \in 0..(n - 1)} /\ p[0] = node
    BY <1>3, <1>7
  <2> HIDE DEF p
  <2>6. {p[k] : k \in 0..n} \subseteq {q[k] : k \in 0..(n - 1)} \cup {node}
    BY <2>2, <2>5
  <2>7. {q[k] : k \in 0..(n - 1)} \cup {node} \subseteq {p[k] : k \in 0..n}
    BY <2>3, <2>4, <2>5
  <2>. QED
    BY <2>1, <2>5, <2>6, <2>7
<1> HIDE DEF p
<1>. QED
  BY <1>0, <1>5, <1>6, <1>10, <1>11 DEF Sound

(* rm_node takes an element out, wherever on the list it is, and leaves    *)
(* the link words of the elements of other lists alone.                    *)
LEMMA RmNode ==
  ASSUME NEW list, NEW link \in [Elements -> Pointer], Sound(list, link),
         NEW node \in OnList(list, link),
         NEW r, r = rm_node(list, link, node)
  PROVE  /\ Sound(r.list, r.link)
         /\ OnList(r.list, r.link) = OnList(list, link) \ {node}
         /\ r.removed /\ r.link \in [Elements -> Pointer]
         /\ \A e \in Elements \ OnList(list, link) : r.link[e] = link[e]
<1> DEFINE L == OnList(list, link)
<1>0. Capacity \in Nat \ {0}
  BY CapacityAssumption
<1>1. PICK n \in 0..Capacity : \E q \in [0..n -> Pointer] :
        Chain(list, link, n, q)
  BY DEF Sound
<1>2. PICK q \in [0..n -> Pointer] : Chain(list, link, n, q)
  BY <1>1
<1>3. L = {q[k] : k \in 0..(n - 1)} /\ L \subseteq Elements
  BY <1>2, OnListIs
<1>4. PICK m \in 0..(n - 1) : node = q[m]
  BY <1>3
<1>5. /\ r.list = IF list = node THEN link[node] ELSE list
      /\ r.link = [e \in Elements |->
                     IF e = node THEN NULL
                     ELSE IF link[e] = node /\ e \in L
                     THEN link[node] ELSE link[e]]
      /\ r.removed = TRUE
  BY DEF rm_node
<1>16. node \in L /\ node \in Elements
  BY <1>3
<1> HIDE DEF L
<1>6. /\ q[0] = list /\ q[n] = NULL
      /\ \A k \in 0..(n - 1) : q[k] \in Elements /\ link[q[k]] = q[k + 1]
      /\ \A j, k \in 0..(n - 1) : q[j] = q[k] => j = k
      /\ NULL \notin Elements /\ NULL \in Pointer
  BY <1>0, <1>2 DEF Chain, NULL, Elements, Pointer
<1>7. r.link \in [Elements -> Pointer]
  <2>1. \A e \in Elements : link[e] \in Pointer
    OBVIOUS
  <2>. QED
    BY <1>5, <1>6, <1>16, <2>1
<1>8. \A e \in Elements \ L : r.link[e] = link[e]
  BY <1>5, <1>16
<1> DEFINE p == [k \in 0..(n - 1) |-> IF k < m THEN q[k] ELSE q[k + 1]]
<1>9. /\ p \in [0..(n - 1) -> Pointer] /\ n - 1 \in 0..Capacity
      /\ p[n - 1] = NULL
  BY <1>0, <1>1, <1>4, <1>6
<1>10. p[0] = r.list
  <2>1. CASE m = 0
    BY <1>0, <1>1, <1>4, <1>5, <1>6, <2>1
  <2>2. CASE m # 0
    <3>1. 0 \in 0..(n - 1) /\ 0 < m
      BY <1>0, <1>1, <1>4, <2>2
    <3>2. list # node
      BY <1>4, <1>6, <3>1
    <3>. QED
      BY <1>5, <1>6, <3>1, <3>2
  <2>. QED
    BY <2>1, <2>2
<1>11. ASSUME NEW k \in 0..((n - 1) - 1)
       PROVE  p[k] \in Elements /\ p[k] # node /\ r.link[p[k]] = p[k + 1]
  <2>0. /\ k \in 0..(n - 1) /\ k + 1 \in 0..(n - 1) /\ (k + 1) + 1 \in 0..n
        /\ p[k] = IF k < m THEN q[k] ELSE q[k + 1]
        /\ p[k + 1] = IF k + 1 < m THEN q[k + 1] ELSE q[(k + 1) + 1]
    BY <1>0, <1>1
  <2>1. CASE k + 1 < m
    <3>1. k < m /\ k # m /\ k + 1 # m
      BY <1>0, <1>1, <1>4, <2>1
    <3>2. q[k] # node /\ q[k + 1] # node
      BY <1>4, <1>6, <2>0, <3>1
    <3>. QED
      BY <1>5, <1>6, <2>0, <2>1, <3>1, <3>2
  <2>2. CASE k + 1 = m
    <3>1. k < m /\ k # m /\ ~(k + 1 < m)
      BY <1>0, <1>1, <1>4, <2>2
    <3>2. q[k] # node /\ q[k + 1] = node /\ q[k] \in L
      BY <1>3, <1>4, <1>6, <2>0, <2>2, <3>1
    <3>3. link[node] = q[(k + 1) + 1]
      BY <1>6, <2>0, <3>2
    <3>. QED
      BY <1>5, <1>6, <2>0, <3>1, <3>2, <3>3
  <2>3. CASE k >= m
    <3>1. ~(k < m) /\ ~(k + 1 < m) /\ k + 1 # m /\ (k + 1) + 1 # m
      BY <1>0, <1>1, <1>4, <2>3
    <3>2. q[k + 1] # node /\ q[(k + 1) + 1] # node
      <4>1. (k + 1) + 1 = n \/ (k + 1) + 1 \in 0..(n - 1)
        BY <1>0, <1>1
      <4>2. node \in Elements
        BY <1>4, <1>6
      <4>. QED
        BY <1>4, <1>6, <2>0, <3>1, <4>1, <4>2
    <3>. QED
      BY <1>5, <1>6, <2>0, <3>1, <3>2
  <2>. QED
    BY <1>0, <1>1, <1>4, <2>1, <2>2, <2>3
<1>12. ASSUME NEW j \in 0..((n - 1) - 1), NEW k \in 0..((n - 1) - 1),
              p[j] = p[k]
       PROVE  j = k
  <2> DEFINE s(i) == IF i < m THEN i ELSE i + 1
  <2>1. \A i \in 0..((n - 1) - 1) : p[i] = q[s(i)] /\ s(i) \in 0..(n - 1)
    BY <1>0, <1>1, <1>4
  <2>2. s(j) = s(k)
    <3>1. /\ p[j] = q[s(j)] /\ s(j) \in 0..(n - 1)
          /\ p[k] = q[s(k)] /\ s(k) \in 0..(n - 1)
      BY <2>1
    <3>2. \A a, b \in 0..(n - 1) : q[a] = q[b] => a = b
      BY <1>6
    <3>3. q[s(j)] = q[s(k)]
      BY <1>12, <3>1
    <3> HIDE DEF s, p
    <3>. QED
      BY <3>1, <3>2, <3>3
  <2>. QED
    BY <1>0, <1>1, <1>4, <2>2
<1>13. {p[k] : k \in 0..((n - 1) - 1)} = L \ {node}
  <2>1. ASSUME NEW k \in 0..((n - 1) - 1) PROVE p[k] \in L \ {node}
    <3>1. p[k] # node
      BY <1>11
    <3>2. /\ k \in 0..(n - 1) /\ k + 1 \in 0..(n - 1)
          /\ p[k] = q[k] \/ p[k] = q[k + 1]
      BY <1>0, <1>1
    <3>. QED
      BY <1>3, <3>1, <3>2
  <2>2. ASSUME NEW k \in 0..(n - 1), q[k] # node
        PROVE  \E i \in 0..((n - 1) - 1) : q[k] = p[i]
    <3>1. k # m
      BY <1>4, <2>2
    <3>2. CASE k < m
      <4>1. k \in 0..((n - 1) - 1) /\ p[k] = q[k]
        BY <1>0, <1>1, <1>4, <3>2
      <4>. QED
        BY <4>1
    <3>3. CASE k > m
      <4>1. k - 1 \in 0..((n - 1) - 1) /\ p[k - 1] = q[k]
        BY <1>0, <1>1, <1>4, <3>3
      <4>. QED
        BY <4>1
    <3>4. k < m \/ k > m
      BY <1>0, <1>1, <1>4, <3>1
    <3>. QED
      BY <3>2, <3>3, <3>4
  <2> HIDE DEF p
  <2>. QED
    BY <1>3, <2>1, <2>2
<1> HIDE DEF p
<1>14. Chain(r.list, r.link, n - 1, p)
  BY <1>9, <1>10, <1>11, <1>12 DEF Chain
<1>15. OnList(r.list, r.link) = L \ {node}
  BY <1>13, <1>14, OnListIs
<1>. QED
  BY <1>5, <1>7, <1>8, <1>9, <1>14, <1>15 DEF Sound, L

-----------------------------------------------------------------------------
(* The inductive invariant *)

Free == OnList(free_list, m_node)
Conns == OnList(connections, m_node)
Posted == OnList(posted, m_posted_node)

HeapInv ==
  /\ Sound(free_list, m_node) /\ Sound(connections, m_node)
  /\ Free \cap Conns = {} /\ held \cap (Free \cup Conns) = {}
  /\ Free \cup Conns \cup held = Elements
  /\ \A e \in Elements : belong[e] <=> e \notin Free
  /\ m_used = Cardinality(Elements \ Free)

IInv ==
  /\ TypeOK
  /\ ~failed
  /\ start = "null" => /\ free_list = NULL /\ connections = NULL
                       /\ posted = NULL /\ held = {} /\ m_used = 0
                       /\ \A e \in Elements : ~belong[e]
  /\ Sound(posted, m_posted_node)
  /\ start = "heap" => HeapInv

(* The slots are finitely many, and NULL is none of them.                  *)
LEMMA ElementsFinite ==
  /\ IsFiniteSet(Elements) /\ Cardinality(Elements) = Capacity
  /\ Capacity \in Nat \ {0} /\ NULL \notin Elements
  /\ NULL \in Pointer /\ Elements \subseteq Pointer
<1>1. Capacity \in Nat \ {0}
  BY CapacityAssumption
<1>2. IsFiniteSet(1..Capacity) /\ Cardinality(1..Capacity) = Capacity
  <2>1. 1 \in Int /\ Capacity \in Int /\ Capacity - 1 + 1 = Capacity
    BY <1>1
  <2>2. 1 <= Capacity
    BY <1>1
  <2>. QED
    BY <2>1, <2>2, FS_Interval
<1>3. NULL \notin Elements /\ NULL \in Pointer /\ Elements \subseteq Pointer
  BY <1>1 DEF Elements, NULL, Pointer
<1>. QED
  BY <1>1, <1>2, <1>3 DEF Elements

(* m_used when an element leaves the free list, and when it comes back.    *)
LEMMA UsedStep ==
  ASSUME NEW S \in SUBSET Elements, NEW e \in Elements
  PROVE  /\ Cardinality(Elements \ S) \in 0..Capacity
         /\ e \in S => Cardinality(Elements \ (S \ {e}))
                         = Cardinality(Elements \ S) + 1
         /\ e \notin S => Cardinality(Elements \ (S \cup {e}))
                            = Cardinality(Elements \ S) - 1
<1> DEFINE U == Elements \ S
<1>1. /\ IsFiniteSet(U) /\ Cardinality(U) \in Nat
      /\ Cardinality(U) <= Capacity
  BY ElementsFinite, FS_Subset, FS_CardinalityType
<1>2. e \in S => Elements \ (S \ {e}) = U \cup {e} /\ e \notin U
  OBVIOUS
<1>3. e \notin S => Elements \ (S \cup {e}) = U \ {e} /\ e \in U
  OBVIOUS
<1> HIDE DEF U
<1>4. e \notin U => Cardinality(U \cup {e}) = Cardinality(U) + 1
  BY <1>1, FS_AddElement
<1>5. e \in U => Cardinality(U \ {e}) = Cardinality(U) - 1
  BY <1>1, FS_RemoveElement
<1>6. Cardinality(U) \in 0..Capacity
  BY <1>1, ElementsFinite
<1>. QED
  BY <1>2, <1>3, <1>4, <1>5, <1>6 DEF U

(* The invariant holds initially.                                          *)
LEMMA IInvInit == Init => IInv
<1> SUFFICES ASSUME Init PROVE IInv
  OBVIOUS
<1>1. TypeOK
  <2>1. 0 \in 0..Capacity
    BY ElementsFinite
  <2>. QED
    BY <2>1, ElementsFinite DEF Init, TypeOK
<1>2. Sound(posted, m_posted_node)
  BY Empty DEF Init
<1>. QED
  BY <1>1, <1>2 DEF Init, IInv

(* create_resource links the elements in reverse order.                    *)
LEMMA CreateStep ==
  ASSUME IInv, create_resource
  PROVE  /\ IInv' /\ Free = {} /\ Conns = {} /\ Posted = {}
         /\ Free' = Elements /\ Conns' = {} /\ Posted' = {}
<1>1. /\ start = "null" /\ start' = "heap" /\ free_list' = Capacity
      /\ m_node' = [e \in Elements |-> e - 1]
      /\ UNCHANGED <<m_posted_node, connections, posted, m_used, belong, held,
                     failed>>
  BY DEF create_resource
<1>2. /\ free_list = NULL /\ connections = NULL /\ posted = NULL
      /\ held = {} /\ m_used = 0 /\ \A e \in Elements : ~belong[e]
  BY <1>1 DEF IInv
<1>3. /\ Free = {} /\ Conns = {} /\ Posted = {} /\ Conns' = {} /\ Posted' = {}
      /\ Sound(connections, m_node)' /\ Sound(posted, m_posted_node)'
  BY <1>1, <1>2, Empty DEF Free, Conns, Posted
<1> DEFINE q == [k \in 0..Capacity |-> Capacity - k]
<1>4. Capacity \in Nat \ {0}
  BY CapacityAssumption
<1>5. q \in [0..Capacity -> Pointer] /\ m_node' \in [Elements -> Pointer]
  BY <1>1, <1>4 DEF Pointer, Elements
<1>6. Chain(free_list', m_node', Capacity, q)
  <2>1. q[0] = free_list' /\ q[Capacity] = NULL
    BY <1>1, <1>4 DEF NULL
  <2>2. ASSUME NEW k \in 0..(Capacity - 1)
        PROVE  q[k] \in Elements /\ m_node'[q[k]] = q[k + 1]
    BY <1>1, <1>4 DEF Elements
  <2>3. \A j, k \in 0..(Capacity - 1) : q[j] = q[k] => j = k
    BY <1>4
  <2>4. Capacity \in 0..Capacity
    BY <1>4
  <2> HIDE DEF q
  <2>. QED
    BY <1>5, <2>1, <2>2, <2>3, <2>4 DEF Chain
<1>7. Sound(free_list, m_node)' /\ Free' = {q[k] : k \in 0..(Capacity - 1)}
  <2>1. Capacity \in 0..Capacity
    BY <1>4
  <2> HIDE DEF q
  <2>. QED
    BY <1>5, <1>6, <2>1, OnListIs DEF Sound, Free
<1>8. Free' = Elements
  <2>1. ASSUME NEW e \in Elements PROVE \E k \in 0..(Capacity - 1) : e = q[k]
    <3>1. Capacity - e \in 0..(Capacity - 1) /\ q[Capacity - e] = e
      BY <1>4 DEF Elements
    <3>. QED
      BY <3>1
  <2>2. \A k \in 0..(Capacity - 1) : q[k] \in Elements
    BY <1>4 DEF Elements
  <2> HIDE DEF q
  <2>. QED
    BY <1>7, <2>1, <2>2
<1>9. Cardinality(Elements \ Free)' = 0
  <2>1. Elements \ Free' = {}
    BY <1>8
  <2>. QED
    BY <2>1, FS_EmptySet
<1>10. HeapInv'
  BY <1>1, <1>2, <1>3, <1>7, <1>8, <1>9 DEF HeapInv
<1>11. TypeOK'
  BY <1>1, <1>4, <1>5 DEF IInv, TypeOK, Pointer
<1>. QED
  BY <1>1, <1>3, <1>8, <1>10, <1>11 DEF IInv

(* alloc_resource takes the first free element.                            *)
LEMMA AllocStep ==
  ASSUME IInv, alloc_resource
  PROVE  /\ IInv' /\ free_list \in Free /\ Free' = Free \ {free_list}
         /\ Conns' = Conns /\ Posted' = Posted
<1> DEFINE r == rm_node(free_list, m_node, free_list)
<1>1. /\ start = "heap" /\ free_list # NULL
      /\ free_list' = r.list /\ m_node' = r.link
      /\ failed' = (~r.removed \/ belong[free_list])
      /\ m_used' = m_used + 1
      /\ belong' = [belong EXCEPT ![free_list] = TRUE]
      /\ held' = held \cup {free_list}
      /\ UNCHANGED <<start, m_posted_node, connections, posted>>
  BY DEF alloc_resource
<1>2. HeapInv /\ m_node \in [Elements -> Pointer] /\ Free \subseteq Elements
  BY <1>1, SoundElements DEF IInv, TypeOK, HeapInv, Free
<1>3. free_list \in Free /\ free_list \in Elements
  BY <1>1, <1>2, SoundElements DEF HeapInv, Free
<1>4. /\ Sound(r.list, r.link) /\ OnList(r.list, r.link) = Free \ {free_list}
      /\ r.removed /\ r.link \in [Elements -> Pointer]
      /\ \A e \in Elements \ Free : r.link[e] = m_node[e]
  BY <1>2, <1>3, RmNode DEF HeapInv, Free
<1> HIDE DEF r
<1>5. Sound(free_list, m_node)' /\ Free' = Free \ {free_list}
  BY <1>1, <1>4 DEF Free
<1>6. Sound(connections, m_node)' /\ Conns' = Conns
  <2>1. Conns \subseteq Elements \ Free
    BY <1>2 DEF HeapInv
  <2>. QED
    BY <1>1, <1>2, <1>4, <2>1, Frame DEF HeapInv, Conns
<1>7. Sound(posted, m_posted_node)' /\ Posted' = Posted
  BY <1>1 DEF IInv, Posted
<1>8. /\ m_used' = Cardinality(Elements \ Free') /\ m_used' \in 0..Capacity
      /\ Free' \subseteq Elements
  <2>1. Free \in SUBSET Elements /\ Free' \in SUBSET Elements
    BY <1>2, <1>5
  <2>2. m_used = Cardinality(Elements \ Free)
    BY <1>2 DEF HeapInv
  <2>3. Cardinality(Elements \ Free') = m_used + 1
    BY <1>3, <1>5, <2>1, <2>2, UsedStep
  <2>4. Cardinality(Elements \ Free') \in 0..Capacity
    BY <1>3, <2>1, UsedStep
  <2>. QED
    BY <1>1, <2>1, <2>3, <2>4
<1>9. HeapInv'
  BY <1>1, <1>2, <1>3, <1>5, <1>6, <1>8 DEF HeapInv, IInv, TypeOK
<1>10. ~failed'
  BY <1>1, <1>2, <1>3, <1>4 DEF HeapInv, IInv, TypeOK
<1>11. free_list' \in Pointer
  BY <1>5, SoundElements
<1>12. TypeOK'
  BY <1>1, <1>3, <1>4, <1>8, <1>10, <1>11 DEF IInv, TypeOK
<1>. QED
  BY <1>1, <1>3, <1>5, <1>6, <1>7, <1>9, <1>10, <1>12 DEF IInv

(* A socket that was accepted goes from its holder to mp_connections.      *)
LEMMA OpenStep ==
  ASSUME IInv, NEW e \in Elements, Open(e)
  PROVE  /\ IInv' /\ Free' = Free
         /\ Conns' = Conns \cup {e} /\ Posted' = Posted
<1> DEFINE r == add_node(connections, m_node, e)
<1>1. /\ start = "heap" /\ e \in held
      /\ connections' = r.list /\ m_node' = r.link /\ held' = held \ {e}
      /\ UNCHANGED <<start, m_posted_node, free_list, posted, m_used, belong,
                     failed>>
  BY DEF Open
<1>2. HeapInv /\ m_node \in [Elements -> Pointer]
  BY <1>1 DEF IInv, TypeOK
<1>3. e \in Elements \ Conns /\ e \notin Free
  BY <1>1, <1>2 DEF HeapInv
<1>4. /\ Sound(r.list, r.link) /\ OnList(r.list, r.link) = Conns \cup {e}
      /\ r.list = e /\ r.link \in [Elements -> Pointer]
      /\ \A x \in Elements \ {e} : r.link[x] = m_node[x]
  BY <1>2, <1>3, AddNode DEF HeapInv, Conns
<1> HIDE DEF r
<1>5. Sound(connections, m_node)' /\ Conns' = Conns \cup {e}
  BY <1>1, <1>4 DEF Conns
<1>6. Sound(free_list, m_node)' /\ Free' = Free
  <2>1. Free \subseteq Elements \ {e}
    BY <1>2, <1>3 DEF HeapInv
  <2>. QED
    BY <1>1, <1>2, <1>4, <2>1, Frame DEF HeapInv, Free
<1>7. Sound(posted, m_posted_node)' /\ Posted' = Posted
  BY <1>1 DEF IInv, Posted
<1>8. HeapInv'
  BY <1>1, <1>2, <1>3, <1>5, <1>6 DEF HeapInv
<1>9. TypeOK'
  BY <1>1, <1>4, ElementsFinite DEF IInv, TypeOK
<1>. QED
  BY <1>1, <1>5, <1>6, <1>7, <1>8, <1>9 DEF IInv

(* free_resource on the link words that the caller leaves: the element is  *)
(* on no list and comes to the head of the free list.                      *)
LEMMA FreeStep ==
  ASSUME IInv, start = "heap", NEW e \in Elements \ Free,
         NEW link \in [Elements -> Pointer],
         \A x \in Free : link[x] = m_node[x],
         free_resource(e, link)
  PROVE  /\ Sound(free_list, m_node)' /\ Free' = Free \cup {e}
         /\ free_list' \in Pointer /\ m_node' \in [Elements -> Pointer]
         /\ \A x \in Elements \ {e} : m_node'[x] = link[x]
         /\ m_used' = Cardinality(Elements \ Free') /\ m_used' \in 0..Capacity
         /\ m_used' = m_used - 1
         /\ belong' \in [Elements -> BOOLEAN]
         /\ \A x \in Elements : belong'[x] <=> x \notin Free'
         /\ belong[e]
<1> DEFINE r == add_node(free_list, link, e)
<1>1. /\ free_list' = r.list /\ m_node' = r.link /\ m_used' = m_used - 1
      /\ belong' = [belong EXCEPT ![e] = FALSE]
  BY DEF free_resource
<1>2. /\ HeapInv /\ belong \in [Elements -> BOOLEAN]
      /\ Sound(free_list, m_node) /\ Free \in SUBSET Elements
  BY SoundElements DEF IInv, TypeOK, HeapInv, Free
<1>3. Sound(free_list, link) /\ OnList(free_list, link) = Free
  BY <1>2, Frame DEF Free
<1>4. /\ Sound(r.list, r.link) /\ OnList(r.list, r.link) = Free \cup {e}
      /\ r.list = e /\ r.link \in [Elements -> Pointer]
      /\ \A x \in Elements \ {e} : r.link[x] = link[x]
  BY <1>3, AddNode
<1> HIDE DEF r
<1>5. Sound(free_list, m_node)' /\ Free' = Free \cup {e}
  BY <1>1, <1>4 DEF Free
<1>6. m_used' = Cardinality(Elements \ Free') /\ m_used' \in 0..Capacity
  <2>1. Free' \in SUBSET Elements
    BY <1>2, <1>5
  <2>2. m_used = Cardinality(Elements \ Free)
    BY <1>2 DEF HeapInv
  <2>3. Cardinality(Elements \ Free') = m_used - 1
    BY <1>2, <1>5, <2>2, UsedStep
  <2>4. Cardinality(Elements \ Free') \in 0..Capacity
    BY <2>1, UsedStep
  <2>. QED
    BY <1>1, <2>3, <2>4
<1>7. /\ \A x \in Elements : belong'[x] <=> x \notin Free'
      /\ belong' \in [Elements -> BOOLEAN] /\ belong[e]
  BY <1>1, <1>2, <1>5 DEF HeapInv
<1>. QED
  BY <1>1, <1>4, <1>5, <1>6, <1>7, ElementsFinite

(* accept failed: the holder gives the element back.                       *)
LEMMA GiveBackStep ==
  ASSUME IInv, NEW e \in Elements, GiveBack(e)
  PROVE  /\ IInv' /\ Free' = Free \cup {e} /\ m_used' = m_used - 1
         /\ Conns' = Conns /\ Posted' = Posted
<1>1. /\ start = "heap" /\ e \in held /\ free_resource(e, m_node)
      /\ failed' = ~belong[e] /\ held' = held \ {e}
      /\ UNCHANGED <<start, m_posted_node, connections, posted>>
  BY DEF GiveBack
<1>2. HeapInv /\ m_node \in [Elements -> Pointer]
  BY <1>1 DEF IInv, TypeOK
<1>3. e \in Elements \ Free /\ e \notin Conns
  BY <1>1, <1>2 DEF HeapInv
<1>4. /\ Sound(free_list, m_node)' /\ Free' = Free \cup {e}
      /\ free_list' \in Pointer /\ m_node' \in [Elements -> Pointer]
      /\ \A x \in Elements \ {e} : m_node'[x] = m_node[x]
      /\ m_used' = Cardinality(Elements \ Free') /\ m_used' \in 0..Capacity
      /\ m_used' = m_used - 1
      /\ belong' \in [Elements -> BOOLEAN]
      /\ \A x \in Elements : belong'[x] <=> x \notin Free'
      /\ belong[e]
  BY <1>1, <1>2, <1>3, FreeStep
<1>5. Sound(connections, m_node)' /\ Conns' = Conns
  <2>1. Conns \subseteq Elements \ {e}
    BY <1>2, <1>3 DEF HeapInv
  <2>. QED
    BY <1>1, <1>2, <1>4, <2>1, Frame DEF HeapInv, Conns
<1>6. Sound(posted, m_posted_node)' /\ Posted' = Posted
  BY <1>1 DEF IInv, Posted
<1>7. HeapInv'
  BY <1>1, <1>2, <1>3, <1>4, <1>5 DEF HeapInv
<1>8. TypeOK' /\ ~failed'
  BY <1>1, <1>4 DEF IInv, TypeOK
<1>. QED
  BY <1>1, <1>4, <1>5, <1>6, <1>7, <1>8 DEF IInv

(* hixo_handle_close: out of mp_connections, wherever the socket is there, *)
(* and back to the free list.                                              *)
LEMMA CloseStep ==
  ASSUME IInv, NEW e \in Elements, Close(e)
  PROVE  /\ IInv' /\ Free' = Free \cup {e} /\ m_used' = m_used - 1
         /\ Conns' = Conns \ {e} /\ Posted' = Posted
<1> DEFINE r == rm_node(connections, m_node, e)
<1>1. /\ start = "heap" /\ e \in Conns
      /\ connections' = r.list /\ free_resource(e, r.link)
      /\ failed' = (~r.removed \/ ~belong[e])
      /\ UNCHANGED <<start, m_posted_node, posted, held>>
  BY DEF Close, Conns
<1>2. HeapInv /\ m_node \in [Elements -> Pointer]
  BY <1>1 DEF IInv, TypeOK
<1>3. e \in Elements \ Free /\ e \notin held
  BY <1>1, <1>2 DEF HeapInv
<1>4. /\ Sound(r.list, r.link) /\ OnList(r.list, r.link) = Conns \ {e}
      /\ r.removed /\ r.link \in [Elements -> Pointer]
      /\ \A x \in Elements \ Conns : r.link[x] = m_node[x]
  BY <1>1, <1>2, RmNode DEF HeapInv, Conns
<1> HIDE DEF r
<1>5. \A x \in Free : r.link[x] = m_node[x]
  <2>1. Free \subseteq Elements \ Conns
    BY <1>2 DEF HeapInv
  <2>. QED
    BY <1>4, <2>1
<1>6. /\ Sound(free_list, m_node)' /\ Free' = Free \cup {e}
      /\ free_list' \in Pointer /\ m_node' \in [Elements -> Pointer]
      /\ \A x \in Elements \ {e} : m_node'[x] = r.link[x]
      /\ m_used' = Cardinality(Elements \ Free') /\ m_used' \in 0..Capacity
      /\ m_used' = m_used - 1
      /\ belong' \in [Elements -> BOOLEAN]
      /\ \A x \in Elements : belong'[x] <=> x \notin Free'
      /\ belong[e]
  BY <1>1, <1>3, <1>4, <1>5, FreeStep
<1>7. Sound(connections, m_node)' /\ Conns' = Conns \ {e}
  <2>1. Conns \ {e} \subseteq Elements \ {e}
    BY <1>2 DEF HeapInv
  <2>2. \A x \in OnList(r.list, r.link) : m_node'[x] = r.link[x]
    BY <1>4, <1>6, <2>1
  <2>3. Sound(r.list, m_node') /\ OnList(r.list, m_node') = Conns \ {e}
    BY <1>4, <2>2, Frame
  <2>. QED
    BY <1>1, <2>3 DEF Conns
<1>8. Sound(posted, m_posted_node)' /\ Posted' = Posted
  BY <1>1 DEF IInv, Posted
<1>9. HeapInv'
  BY <1>1, <1>2, <1>3, <1>6, <1>7 DEF HeapInv
<1>10. connections' \in Pointer
  BY <1>7, SoundElements
<1>11. TypeOK' /\ ~failed'
  BY <1>1, <1>4, <1>6, <1>10 DEF IInv, TypeOK
<1>. QED
  BY <1>1, <1>6, <1>7, <1>8, <1>9, <1>11 DEF IInv

(* The other link word: a socket becomes pending, and stops being so.      *)
LEMMA PostStep ==
  ASSUME IInv, NEW e \in Elements, Post(e)
  PROVE  /\ IInv' /\ Free' = Free /\ Conns' = Conns
         /\ Posted' = Posted \cup {e}
<1> DEFINE r == add_node(posted, m_posted_node, e)
<1>1. /\ start = "heap" /\ e \in Elements \ Posted
      /\ posted' = r.list /\ m_posted_node' = r.link
      /\ UNCHANGED <<start, m_node, free_list, connections, m_used, belong,
                     held, failed>>
  BY DEF Post, Posted
<1>2. /\ HeapInv /\ m_posted_node \in [Elements -> Pointer]
      /\ Sound(posted, m_posted_node)
  BY <1>1 DEF IInv, TypeOK
<1>3. /\ Sound(r.list, r.link) /\ OnList(r.list, r.link) = Posted \cup {e}
      /\ r.list = e /\ r.link \in [Elements -> Pointer]
  BY <1>1, <1>2, AddNode DEF Posted
<1> HIDE DEF r
<1>4. Sound(posted, m_posted_node)' /\ Posted' = Posted \cup {e}
  BY <1>1, <1>3 DEF Posted
<1>5. HeapInv' /\ Free' = Free /\ Conns' = Conns
  BY <1>1, <1>2 DEF HeapInv, Free, Conns
<1>6. TypeOK'
  BY <1>1, <1>3, ElementsFinite DEF IInv, TypeOK
<1>. QED
  BY <1>1, <1>4, <1>5, <1>6 DEF IInv

(* The step of event_loop that takes a slot off the posted list.           *)
LEMMA UnpostStep ==
  ASSUME IInv, NEW e \in Elements, Unpost(e)
  PROVE  /\ IInv' /\ Free' = Free /\ Conns' = Conns
         /\ Posted' = Posted \ {e}
<1> DEFINE r == rm_node(posted, m_posted_node, e)
<1>1. /\ start = "heap" /\ e \in Posted
      /\ posted' = r.list /\ m_posted_node' = r.link /\ failed' = ~r.removed
      /\ UNCHANGED <<start, m_node, free_list, connections, m_used, belong,
                     held>>
  BY DEF Unpost, Posted
<1>2. /\ HeapInv /\ m_posted_node \in [Elements -> Pointer]
      /\ Sound(posted, m_posted_node)
  BY <1>1 DEF IInv, TypeOK
<1>3. /\ Sound(r.list, r.link) /\ OnList(r.list, r.link) = Posted \ {e}
      /\ r.removed /\ r.link \in [Elements -> Pointer]
  BY <1>1, <1>2, RmNode DEF Posted
<1> HIDE DEF r
<1>4. Sound(posted, m_posted_node)' /\ Posted' = Posted \ {e}
  BY <1>1, <1>3 DEF Posted
<1>5. HeapInv' /\ Free' = Free /\ Conns' = Conns
  BY <1>1, <1>2 DEF HeapInv, Free, Conns
<1>6. posted' \in Pointer
  BY <1>4, SoundElements
<1>7. TypeOK' /\ ~failed'
  BY <1>1, <1>3, <1>6 DEF IInv, TypeOK
<1>. QED
  BY <1>1, <1>4, <1>5, <1>7 DEF IInv

(* destroy_resource empties the free list.                                 *)
LEMMA DestroyStep ==
  ASSUME IInv, destroy_resource
  PROVE  IInv' /\ Free' = {} /\ Conns' = Conns /\ Posted' = Posted
<1>1. /\ start' = "freed" /\ free_list' = NULL /\ m_used' = 0
      /\ UNCHANGED <<m_node, m_posted_node, connections, posted, belong, held,
                     failed>>
  BY DEF destroy_resource
<1>2. Free' = {}
  BY <1>1, Empty DEF Free
<1>3. Conns' = Conns /\ Posted' = Posted
  BY <1>1 DEF Conns, Posted
<1>4. TypeOK'
  <2>1. 0 \in 0..Capacity
    BY ElementsFinite
  <2>. QED
    BY <1>1, <2>1, ElementsFinite DEF IInv, TypeOK
<1>. QED
  BY <1>1, <1>2, <1>3, <1>4 DEF IInv

(* Nothing changes: a failing calloc, an empty cache, the end.             *)
LEMMA StutterStep ==
  ASSUME IInv, UNCHANGED vars
  PROVE  IInv' /\ Free' = Free /\ Conns' = Conns /\ Posted' = Posted
  BY DEF IInv, HeapInv, TypeOK, vars, Free, Conns, Posted

-----------------------------------------------------------------------------
(* The theorems *)

(* Every call keeps the invariant: each list is a chain that ends, the     *)
(* lists and the holders share the elements out, and m_used and the low    *)
(* bit of the owner words agree with the free list.                        *)
THEOREM Inductive == Spec => []IInv
<1>1. Init => IInv
  BY IInvInit
<1>2. IInv /\ [Next]_vars => IInv'
  <2> SUFFICES ASSUME IInv, [Next]_vars PROVE IInv'
    OBVIOUS
  <2>1. CASE UNCHANGED vars
    BY <2>1, StutterStep
  <2>2. CASE CreateFails \/ AllocFails \/ Ended
    BY <2>1, <2>2 DEF CreateFails, AllocFails, Ended
  <2>3. CASE create_resource
    BY <2>3, CreateStep
  <2>4. CASE alloc_resource
    BY <2>4, AllocStep
  <2>5. CASE destroy_resource
    BY <2>5, DestroyStep
  <2>6. ASSUME NEW e \in Elements,
               Open(e) \/ GiveBack(e) \/ Close(e) \/ Post(e) \/ Unpost(e)
        PROVE  IInv'
    <3>1. CASE Open(e)
      BY <3>1, OpenStep
    <3>2. CASE GiveBack(e)
      BY <3>2, GiveBackStep
    <3>3. CASE Close(e)
      BY <3>3, CloseStep
    <3>4. CASE Post(e)
      BY <3>4, PostStep
    <3>5. CASE Unpost(e)
      BY <3>5, UnpostStep
    <3>. QED
      BY <2>6, <3>1, <3>2, <3>3, <3>4, <3>5
  <2>. QED
    BY <2>1, <2>2, <2>3, <2>4, <2>5, <2>6 DEF Next, Step
<1>. QED
  BY <1>1, <1>2, PTL DEF Spec

(* No assertion of alloc_resource, free_resource, hixo_handle_close or the *)
(* event loop fails, for a cache of any capacity.                          *)
THEOREM NoAssert == Spec => []NoAssertFails
<1>1. IInv => NoAssertFails
  BY DEF IInv, NoAssertFails
<1>. QED
  BY <1>1, Inductive, PTL

(* The free list and mp_connections, which share a link word, never run    *)
(* into each other or into a circle, and no element is lost.               *)
THEOREM ListsCorrect == Spec => []ListsSound
<1>1. IInv => ListsSound
  <2> SUFFICES ASSUME IInv PROVE ListsSound
    OBVIOUS
  <2>1. ASSUME start = "heap"
        PROVE  /\ Walk(free_list, m_node)[Cardinality(Free)] = NULL
               /\ Walk(connections, m_node)[Cardinality(Conns)] = NULL
    <3>1. Sound(free_list, m_node) /\ Sound(connections, m_node)
      BY <2>1 DEF IInv, HeapInv
    <3>. QED
      BY <3>1, SoundElements DEF Free, Conns
  <2>. QED
    BY <2>1 DEF IInv, HeapInv, ListsSound, Free, Conns
<1>. QED
  BY <1>1, Inductive, PTL

(* The linked lists and the counter of resource.c implement the sets of    *)
(* SlotSets: each call moves the element it is about and no other.         *)
THEOREM SetsImplemented == Spec => ImplementsSets
<1>1. Init => Sets!Init
  <2> SUFFICES ASSUME Init PROVE Sets!Init
    OBVIOUS
  <2>1. Free = {} /\ Conns = {} /\ Posted = {}
    BY Empty DEF Init, Free, Conns, Posted
  <2>. QED
    BY <2>1 DEF Init, Sets!Init, Free, Conns, Posted
<1>2. IInv /\ [Next]_vars => [Sets!Next]_(Sets!vars)
  <2> SUFFICES ASSUME IInv, [Next]_vars
               PROVE  Sets!Next \/ UNCHANGED Sets!vars
    BY DEF Sets!vars
  <2>1. CASE UNCHANGED vars
    BY <2>1 DEF vars, Sets!vars
  <2>2. CASE CreateFails \/ AllocFails \/ Ended
    BY <2>1, <2>2 DEF CreateFails, AllocFails, Ended
  <2>3. CASE create_resource
    <3>1. m_used = 0 /\ UNCHANGED <<held, m_used>>
      BY <2>3 DEF create_resource, IInv
    <3>2. Sets!Create
      BY <2>3, <3>1, CreateStep DEF Sets!Create, Free, Conns, Posted
    <3>. QED
      BY <3>2 DEF Sets!Next
  <2>4. CASE alloc_resource
    <3>1. free_list \in Elements
      BY <2>4 DEF alloc_resource, IInv, TypeOK, Pointer, Elements, NULL
    <3>2. Sets!Alloc(free_list)
      BY <2>4, AllocStep DEF alloc_resource, Sets!Alloc, Free, Conns, Posted
    <3>. QED
      BY <3>1, <3>2 DEF Sets!Next
  <2>5. CASE destroy_resource
    <3>1. Sets!Destroy
      BY <2>5, DestroyStep
      DEF destroy_resource, Sets!Destroy, Free, Conns, Posted
    <3>. QED
      BY <3>1 DEF Sets!Next
  <2>6. ASSUME NEW e \in Elements,
               Open(e) \/ GiveBack(e) \/ Close(e) \/ Post(e) \/ Unpost(e)
        PROVE  Sets!Next
    <3>1. CASE Open(e)
      <4>1. Sets!Open(e)
        BY <3>1, OpenStep DEF Open, Sets!Open, Free, Conns, Posted
      <4>. QED
        BY <4>1 DEF Sets!Next
    <3>2. CASE GiveBack(e)
      <4>1. Sets!GiveBack(e)
        BY <3>2, GiveBackStep DEF GiveBack, Sets!GiveBack, Free, Conns, Posted
      <4>. QED
        BY <4>1 DEF Sets!Next
    <3>3. CASE Close(e)
      <4>1. Sets!Close(e)
        BY <3>3, CloseStep DEF Close, Sets!Close, Free, Conns, Posted
      <4>. QED
        BY <4>1 DEF Sets!Next
    <3>4. CASE Post(e)
      <4>1. Sets!Post(e)
        BY <3>4, PostStep DEF Post, Sets!Post, Free, Conns, Posted
      <4>. QED
        BY <4>1 DEF Sets!Next
    <3>5. CASE Unpost(e)
      <4>1. Sets!Unpost(e)
        BY <3>5, UnpostStep DEF Unpost, Sets!Unpost, Free, Conns, Posted
      <4>. QED
        BY <4>1 DEF Sets!Next
    <3>. QED
      BY <2>6, <3>1, <3>2, <3>3, <3>4, <3>5
  <2>. QED
    BY <2>1, <2>2, <2>3, <2>4, <2>5, <2>6 DEF Next, Step
<1>. QED
  BY <1>1, <1>2, Inductive, PTL DEF Spec, ImplementsSets, Sets!Spec
=============================================================================
