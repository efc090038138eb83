--------------------------- MODULE Digits_proofs ---------------------------
(***************************************************************************)
(* Theorems about Digits, for every width of the integers, every set of    *)
(* numbers and every size of the buffer.                                   *)
(*                                                                         *)
(* LowSeq[u] is the digits of u as division by ten gives them, NumSeq[u]   *)
(* those of the numeral: one is the other turned round.  count_places is   *)
(* shown to search for the number of them, wtoa and itostr to store them,  *)
(* and strtoi to make u of them again.  That a function defined by         *)
(* recursion satisfies its equation follows from RecursionExists; what it  *)
(* computes is shown with a least number for which it would not.           *)
(***************************************************************************)
EXTENDS Digits, SequenceTheorems, WellFoundedInduction, TLAPS

-----------------------------------------------------------------------------
(* Numbers *)

(* A set of natural numbers that is not empty has a least one.             *)
LEMMA LeastExists ==
  ASSUME NEW S \in SUBSET Nat, S # {}
  PROVE  \E m \in S : \A n \in S : m <= n
<1> DEFINE R == OpToRel(<, Nat)
<1>1. IsWellFoundedOn(R, Nat)
  BY NatLessThanWellFounded
<1>2. \A x, y \in Nat : x < y => <<x, y>> \in R
  BY DEF OpToRel
<1> HIDE DEF R
<1>3. PICK m \in S : \A n \in S : ~(<<n, m>> \in R)
  BY <1>1, WFMin
<1>4. ASSUME NEW n \in S PROVE m <= n
  <2>1. ~(n < m)
    BY <1>2, <1>3
  <2>. QED
    BY <2>1
<1>. QED
  BY <1>4

(* One that has 0 and with every number the next one has them all.         *)
LEMMA SetInduction ==
  ASSUME NEW S \in SUBSET Nat, 0 \in S, \A n \in S : n + 1 \in S
  PROVE  S = Nat
<1>1. SUFFICES ASSUME Nat \ S # {} PROVE FALSE
  OBVIOUS
<1>2. PICK m \in Nat \ S : \A n \in Nat \ S : m <= n
  BY <1>1, LeastExists
<1>3. m # 0 /\ m - 1 \in Nat /\ m - 1 \notin Nat \ S
  BY <1>2
<1>. QED
  BY <1>2, <1>3

(* Division by ten.                                                        *)
LEMMA DivTen ==
  ASSUME NEW u \in Nat
  PROVE  /\ u \div 10 \in Nat /\ u % 10 \in 0..9
         /\ u = 10 * (u \div 10) + (u % 10)
         /\ u >= 10 => u \div 10 < u /\ u \div 10 >= 1
         /\ u < 10 => u \div 10 = 0 /\ u % 10 = u
<1>1. u \div 10 \in Nat /\ u % 10 \in 0..9 /\ u = 10 * (u \div 10) + (u % 10)
  OBVIOUS
<1> DEFINE q == u \div 10
           r == u % 10
<1> HIDE DEF q, r
<1>2. q \in Nat /\ r \in 0..9 /\ u = 10 * q + r
  BY <1>1 DEF q, r
<1>3. u >= 10 => q < u /\ q >= 1
  BY <1>2
<1>4. u < 10 => q = 0 /\ r = u
  BY <1>2
<1>. QED
  BY <1>1, <1>3, <1>4 DEF q, r

(* A quotient is as large as it is.                                        *)
LEMMA DivTenIs ==
  ASSUME NEW u \in Nat, NEW q \in Nat, NEW r \in 0..9, u = 10 * q + r
  PROVE  u \div 10 = q /\ u % 10 = r
<1>1. u \div 10 \in Nat /\ u % 10 \in 0..9 /\ u = 10 * (u \div 10) + (u % 10)
  BY DivTen
<1> DEFINE q2 == u \div 10
           r2 == u % 10
<1> HIDE DEF q2, r2
<1>2. q2 \in Nat /\ r2 \in 0..9 /\ u = 10 * q2 + r2
  BY <1>1 DEF q2, r2
<1>. QED
  BY <1>2 DEF q2, r2

(* Wrap leaves an intptr_t as it is, and the number after the largest one  *)
(* becomes the smallest.                                                   *)
LEMMA WrapIs ==
  /\ \A x \in Int : Wrap(x) \in Integer
  /\ \A x \in Integer : Wrap(x) = x
  /\ Wrap(INTEGER_MAX + 1) = INTEGER_MIN
<1> DEFINE b == 2 * (INTEGER_MAX + 1)
<1>1. INTEGER_MAX \in Nat /\ b \in Nat /\ b > 0 /\ INTEGER_MIN = -INTEGER_MAX - 1
      /\ b = INTEGER_MAX + INTEGER_MAX + 2
  BY ConstantsAssumption DEF INTEGER_MIN
<1>3. \A x \in Int : Wrap(x) = ((x - INTEGER_MIN) % b) + INTEGER_MIN
  BY DEF Wrap
<1> HIDE DEF b
<1>4. ASSUME NEW x \in Int PROVE Wrap(x) \in Integer
  <2>1. x - INTEGER_MIN \in Int
    BY <1>1
  <2>2. (x - INTEGER_MIN) % b \in 0..(b - 1)
    BY <1>1, <2>1
  <2>. QED
    BY <1>1, <1>3, <2>2 DEF Integer
<1>5. ASSUME NEW x \in Integer PROVE Wrap(x) = x
  <2>1. /\ x \in Int /\ x - INTEGER_MIN \in Int /\ 0 <= x - INTEGER_MIN
        /\ x - INTEGER_MIN < b
    BY <1>1 DEF Integer
  <2>2. (x - INTEGER_MIN) % b = x - INTEGER_MIN
    BY <1>1, <2>1
  <2>. QED
    BY <1>1, <1>3, <2>1, <2>2
<1>6. Wrap(INTEGER_MAX + 1) = INTEGER_MIN
  <2>1. (INTEGER_MAX + 1) - INTEGER_MIN = b /\ INTEGER_MAX + 1 \in Int
    BY <1>1
  <2>2. b % b = 0
    BY <1>1
  <2>3. Wrap(INTEGER_MAX + 1) = (b % b) + INTEGER_MIN
    BY <1>3, <2>1
  <2>. QED
    BY <1>1, <2>2, <2>3
<1>. QED
  BY <1>4, <1>5, <1>6

-----------------------------------------------------------------------------
(* Recursion: f[x] is base[x] at a stop, and G[x] makes it of the next one *)
(* elsewhere.  The next one is of a lower rank.                            *)

Descends(X, w, stop, next) ==
  /\ \A x \in X : w[x] \in Nat
  /\ \A x \in X : x \notin stop => next[x] \in X /\ w[next[x]] < w[x]
Maps(X, V, stop, base, G) ==
  /\ \A x \in X : x \in stop => base[x] \in V
  /\ \A x \in X, v \in V : x \notin stop => G[x][v] \in V
Solves(X, stop, next, base, G, g, f) ==
  \A x \in X : f[x] = IF x \in stop THEN base[x] ELSE G[x][g[next[x]]]

(* There is such a function.                                               *)
LEMMA RecursionExists ==
  ASSUME NEW X, NEW V, NEW w, NEW stop, NEW next, NEW base, NEW G,
         Descends(X, w, stop, next), Maps(X, V, stop, base, G)
  PROVE  \E f \in [X -> V] : Solves(X, stop, next, base, G, f, f)
<1> DEFINE Part(k) == {x \in X : w[x] < k}
           Sol(k) == {g \in [Part(k) -> V] :
                        Solves(Part(k), stop, next, base, G, g, g)}
           S == {k \in Nat : \E g : g \in Sol(k)}
<1>1. /\ \A x \in X : w[x] \in Nat
      /\ \A x \in X : x \notin stop => next[x] \in X /\ w[next[x]] < w[x]
  BY DEF Descends
<1>2. /\ \A x \in X : x \in stop => base[x] \in V
      /\ \A x \in X, v \in V : x \notin stop => G[x][v] \in V
  BY DEF Maps
<1>3. 0 \in S
  <2>1. Part(0) = {}
    BY <1>1
  <2>2. [x \in {} |-> base[x]] \in Sol(0)
    BY <2>1 DEF Solves
  <2>. QED
    BY <2>2
<1>4. ASSUME NEW k \in S PROVE k + 1 \in S
  <2>1. PICK g : g \in Sol(k)
    OBVIOUS
  <2>2. /\ g \in [Part(k) -> V] /\ k \in Nat
        /\ \A x \in Part(k) :
             g[x] = IF x \in stop THEN base[x] ELSE G[x][g[next[x]]]
    BY <2>1 DEF Solves
  <2> DEFINE f == [x \in Part(k + 1) |-> IF x \in stop THEN base[x]
                                         ELSE G[x][g[next[x]]]]
  <2>3. \A x \in Part(k + 1) : x \notin stop => next[x] \in Part(k)
    <3>1. SUFFICES ASSUME NEW x \in X, w[x] < k + 1, x \notin stop
                   PROVE  next[x] \in X /\ w[next[x]] < k
      OBVIOUS
    <3>2. next[x] \in X /\ w[next[x]] < w[x]
      BY <1>1, <3>1
    <3>3. w[x] \in Nat /\ w[next[x]] \in Nat
      BY <1>1, <3>2
    <3>. QED
      BY <2>2, <3>1, <3>2, <3>3
  <2>4. \A x \in Part(k) : x \in Part(k + 1)
    <3>1. SUFFICES ASSUME NEW x \in X, w[x] < k PROVE w[x] < k + 1
      OBVIOUS
    <3>2. w[x] \in Nat
      BY <1>1
    <3>. QED
      BY <2>2, <3>1, <3>2
  <2>5. \A x \in Part(k + 1) : x \in X
    OBVIOUS
  <2>6. \A x \in Part(k) : g[x] \in V
    BY <2>2
  <2> DEFINE P == Part(k)
             Q == Part(k + 1)
  <2>7. \A x \in Q : f[x] = IF x \in stop THEN base[x] ELSE G[x][g[next[x]]]
    OBVIOUS
  <2> HIDE DEF P, Q
  <2>8. f \in [Q -> V]
    <3>1. ASSUME NEW x \in Q
          PROVE  (IF x \in stop THEN base[x] ELSE G[x][g[next[x]]]) \in V
      <4>1. x \in X /\ (x \notin stop => g[next[x]] \in V)
        BY <2>3, <2>5, <2>6 DEF P, Q
      <4>. QED
        BY <1>2, <4>1
    <3>. QED
      BY <3>1 DEF Q
  <2>9. \A x \in P : f[x] = g[x]
    <3>1. \A x \in P : x \in Q
      BY <2>4 DEF P, Q
    <3>2. \A x \in P : g[x] = IF x \in stop THEN base[x] ELSE G[x][g[next[x]]]
      BY <2>2 DEF P
    <3> HIDE DEF f
    <3>. QED
      BY <2>7, <3>1, <3>2
  <2>10. \A x \in Q : x \notin stop => f[next[x]] = g[next[x]]
    <3> HIDE DEF f
    <3>. QED
      BY <2>3, <2>9 DEF P, Q
  <2>11. \A x \in Q : f[x] = IF x \in stop THEN base[x] ELSE G[x][f[next[x]]]
    <3> HIDE DEF f
    <3>. QED
      BY <2>7, <2>10
  <2>12. f \in Sol(k + 1)
    <3> HIDE DEF f
    <3>. QED
      BY <2>8, <2>11 DEF Solves, Q
  <2> HIDE DEF f, Sol
  <2>. QED
    BY <2>2, <2>12
<1>5. S = Nat
  <2>1. S \in SUBSET Nat
    OBVIOUS
  <2> HIDE DEF S
  <2>. QED
    BY <1>3, <1>4, <2>1, SetInduction
<1>6. ASSUME NEW j \in Nat, NEW k \in Nat, NEW g \in Sol(j), NEW f \in Sol(k)
      PROVE  \A x \in Part(j) \cap Part(k) : g[x] = f[x]
  <2> DEFINE Bad == {x \in Part(j) \cap Part(k) : g[x] # f[x]}
             W == {w[x] : x \in Bad}
  <2>1. SUFFICES ASSUME Bad # {} PROVE FALSE
    OBVIOUS
  <2>2. W \in SUBSET Nat /\ W # {}
    BY <1>1, <2>1
  <2>3. PICK m \in W : \A n \in W : m <= n
    BY <2>2, LeastExists
  <2>4. PICK x \in Bad : m = w[x]
    BY <2>3
  <2>5. /\ x \in X /\ w[x] \in Nat /\ w[x] < j /\ w[x] < k /\ g[x] # f[x]
        /\ x \in Part(j) /\ x \in Part(k)
    BY <1>1, <2>4
  <2>6. g[x] = IF x \in stop THEN base[x] ELSE G[x][g[next[x]]]
    BY <2>5 DEF Solves
  <2>7. f[x] = IF x \in stop THEN base[x] ELSE G[x][f[next[x]]]
    BY <2>5 DEF Solves
  <2> DEFINE y == next[x]
  <2>8. x \notin stop /\ g[y] # f[y]
    BY <2>5, <2>6, <2>7
  <2>9. y \in X /\ w[y] < w[x] /\ w[y] \in Nat
    BY <1>1, <2>5, <2>8
  <2>10. y \in Part(j) \cap Part(k)
    <3> HIDE DEF y
    <3>1. w[y] < j /\ w[y] < k
      BY <2>5, <2>9
    <3>. QED
      BY <2>9, <3>1
  <2>11. w[y] \in W
    <3> HIDE DEF y
    <3>1. y \in Bad
      BY <2>8, <2>10
    <3>. QED
      BY <3>1
  <2>12. m <= w[y] /\ m \in Nat
    <3> HIDE DEF W
    <3>. QED
      BY <2>2, <2>3, <2>11
  <2> HIDE DEF y
  <2>. QED
    BY <2>4, <2>9, <2>12
<1> DEFINE g(x) == CHOOSE g : g \in Sol(w[x] + 1)
           f == [x \in X |-> g(x)[x]]
<1>7. ASSUME NEW x \in X PROVE g(x) \in Sol(w[x] + 1) /\ x \in Part(w[x] + 1)
  <2>1. w[x] + 1 \in Nat /\ w[x] < w[x] + 1
    BY <1>1
  <2>2. \E h : h \in Sol(w[x] + 1)
    BY <1>5, <2>1
  <2> HIDE DEF Sol
  <2>. QED
    BY <2>1, <2>2
<1> HIDE DEF g
<1>8. ASSUME NEW x \in X
      PROVE  /\ g(x)[x] \in V
             /\ g(x)[x] = IF x \in stop THEN base[x] ELSE G[x][g(x)[next[x]]]
  BY <1>7 DEF Solves
<1>9. ASSUME NEW x \in X, x \notin stop
      PROVE  g(x)[next[x]] = g(next[x])[next[x]]
  <2> DEFINE y == next[x]
  <2>1. y \in X /\ w[y] < w[x] /\ w[y] \in Nat /\ w[x] \in Nat
    BY <1>1, <1>9
  <2> HIDE DEF y
  <2>2. y \in Part(w[x] + 1) \cap Part(w[y] + 1)
    BY <2>1
  <2>3. g(x) \in Sol(w[x] + 1) /\ g(y) \in Sol(w[y] + 1)
    BY <1>7, <2>1
  <2>4. w[x] + 1 \in Nat /\ w[y] + 1 \in Nat
    BY <2>1
  <2> HIDE DEF Sol, Part
  <2>5. g(x)[y] = g(y)[y]
    BY <1>6, <2>2, <2>3, <2>4
  <2>. QED
    BY <2>5 DEF y
<1>10. f \in [X -> V]
  BY <1>8
<1>11. \A x \in X : f[x] = IF x \in stop THEN base[x] ELSE G[x][f[next[x]]]
  <2>1. \A x \in X : f[x] = g(x)[x]
    OBVIOUS
  <2> HIDE DEF f
  <2>. QED
    BY <1>1, <1>8, <1>9, <2>1
<1> HIDE DEF f
<1>. QED
  BY <1>10, <1>11 DEF Solves

-----------------------------------------------------------------------------
(* The digits of a number, from the lowest and from the highest *)

Digit == 0..9

LowSeq == CHOOSE f : f = [u \in Nat |->
                            IF u = 0 THEN <<>> ELSE <<u % 10>> \o f[u \div 10]]
NumSeq == CHOOSE f : f = [u \in Nat |->
                            IF u < 10 THEN <<u>> ELSE Append(f[u \div 10], u % 10)]

(* The model's recursive functions are these.                              *)
LEMMA DigitsAre ==
  /\ \A v : LowDigits(v) = LowSeq[v]
  /\ \A x : Numeral(x) = IF x < 0 THEN <<Minus>> \o NumSeq[-x] ELSE NumSeq[x]
<1>1. \A v : LowDigits(v) = LowSeq[v]
  BY DEF LowDigits, LowSeq
<1>2. \A x : Numeral(x) = IF x < 0 THEN <<Minus>> \o NumSeq[-x] ELSE NumSeq[x]
  BY DEF Numeral, NumSeq
<1>. QED
  BY <1>1, <1>2

(* The digits from the lowest: none of 0, and of another number its last   *)
(* one followed by those of a tenth of it.                                 *)
LEMMA LowIs ==
  /\ LowSeq \in [Nat -> Seq(Digit)]
  /\ \A u \in Nat : LowSeq[u] = IF u = 0 THEN <<>>
                                ELSE <<u % 10>> \o LowSeq[u \div 10]
<1> DEFINE V == Seq(Digit)
           Rec(f) == [u \in Nat |->
                        IF u = 0 THEN <<>> ELSE <<u % 10>> \o f[u \div 10]]
           w == [u \in Nat |-> u]
           next == [u \in Nat |-> u \div 10]
           base == [u \in Nat |-> <<>>]
           G == [u \in Nat |-> [s \in V |-> <<u % 10>> \o s]]
<1>1. Descends(Nat, w, {0}, next)
  <2>1. ASSUME NEW u \in Nat, u # 0 PROVE u \div 10 \in Nat /\ u \div 10 < u
    BY <2>1, DivTen
  <2>. QED
    BY <2>1 DEF Descends
<1>2. Maps(Nat, V, {0}, base, G)
  <2>1. ASSUME NEW u \in Nat, NEW s \in V PROVE <<u % 10>> \o s \in V
    <3>1. u % 10 \in Digit
      BY DivTen DEF Digit
    <3>. QED
      BY <3>1
  <2>2. <<>> \in V
    OBVIOUS
  <2>. QED
    BY <2>1, <2>2 DEF Maps
<1>3. PICK f \in [Nat -> V] : Solves(Nat, {0}, next, base, G, f, f)
  <2> HIDE DEF V, w, next, base, G
  <2>. QED
    BY <1>1, <1>2, RecursionExists
<1>4. ASSUME NEW u \in Nat
      PROVE  f[u] = IF u = 0 THEN <<>> ELSE <<u % 10>> \o f[u \div 10]
  <2>1. f[u] = IF u \in {0} THEN base[u] ELSE G[u][f[next[u]]]
    BY <1>3 DEF Solves
  <2>2. next[u] = u \div 10 /\ base[u] = <<>> /\ u \div 10 \in Nat
    BY DivTen
  <2>3. f[u \div 10] \in V
    BY <2>2
  <2>4. G[u][f[u \div 10]] = <<u % 10>> \o f[u \div 10]
    BY <2>3
  <2> HIDE DEF V, next, base, G
  <2>. QED
    BY <2>1, <2>2, <2>4
<1>5. f = Rec(f)
  BY <1>4
<1>6. LowSeq = CHOOSE g : g = Rec(g)
  BY Zenon DEF LowSeq
<1> HIDE DEF Rec
<1>7. LowSeq = Rec(LowSeq)
  BY <1>5, <1>6, Zenon
<1>8. \A u \in Nat : LowSeq[u] = IF u = 0 THEN <<>>
                                 ELSE <<u % 10>> \o LowSeq[u \div 10]
  BY <1>7 DEF Rec
<1> DEFINE Bad == {u \in Nat : LowSeq[u] \notin V}
<1>9. Bad = {}
  <2>1. SUFFICES ASSUME Bad # {} PROVE FALSE
    OBVIOUS
  <2>2. PICK u \in Bad : \A n \in Bad : u <= n
    BY <2>1, LeastExists
  <2>3. u \in Nat /\ LowSeq[u] \notin V
    OBVIOUS
  <2>4. u # 0
    <3>1. LowSeq[0] = <<>>
      BY <1>8
    <3>2. <<>> \in V
      OBVIOUS
    <3>. QED
      BY <2>3, <3>1, <3>2, Zenon
  <2>5. u \div 10 \in Nat /\ u \div 10 < u /\ u % 10 \in Digit
    BY <2>3, <2>4, DivTen DEF Digit
  <2>6. LowSeq[u \div 10] \in V
    BY <2>2, <2>3, <2>5
  <2>7. LowSeq[u] = <<u % 10>> \o LowSeq[u \div 10]
    BY <1>8, <2>3, <2>4
  <2>. QED
    BY <2>3, <2>5, <2>6, <2>7
<1>10. \A u \in Nat : LowSeq[u] \in V
  BY <1>9
<1>11. LowSeq = [u \in Nat |-> LowSeq[u]]
  BY <1>7 DEF Rec
<1>. QED
  BY <1>8, <1>10, <1>11

(* The digits from the highest: a number below 10 is a digit, and another  *)
(* one has its last digit behind those of a tenth of it.                   *)
LEMMA NumIs ==
  /\ NumSeq \in [Nat -> Seq(Digit)]
  /\ \A u \in Nat : NumSeq[u] = IF u < 10 THEN <<u>>
                                ELSE Append(NumSeq[u \div 10], u % 10)
<1> DEFINE V == Seq(Digit)
           Rec(f) == [u \in Nat |->
                        IF u < 10 THEN <<u>> ELSE Append(f[u \div 10], u % 10)]
           w == [u \in Nat |-> u]
           next == [u \in Nat |-> u \div 10]
           base == [u \in Nat |-> <<u>>]
           G == [u \in Nat |-> [s \in V |-> Append(s, u % 10)]]
<1>1. Descends(Nat, w, Digit, next)
  <2>1. ASSUME NEW u \in Nat, u \notin Digit
        PROVE  u \div 10 \in Nat /\ u \div 10 < u
    BY <2>1, DivTen DEF Digit
  <2>. QED
    BY <2>1 DEF Descends
<1>2. Maps(Nat, V, Digit, base, G)
  <2>1. ASSUME NEW u \in Nat, NEW s \in V PROVE Append(s, u % 10) \in V
    <3>1. u % 10 \in Digit
      BY DivTen DEF Digit
    <3>. QED
      BY <3>1
  <2>2. \A u \in Digit : <<u>> \in V
    OBVIOUS
  <2>. QED
    BY <2>1, <2>2 DEF Maps
<1>3. PICK f \in [Nat -> V] : Solves(Nat, Digit, next, base, G, f, f)
  <2> HIDE DEF V, w, next, base, G
  <2>. QED
    BY <1>1, <1>2, RecursionExists
<1>4. ASSUME NEW u \in Nat
      PROVE  f[u] = IF u < 10 THEN <<u>> ELSE Append(f[u \div 10], u % 10)
  <2>1. f[u] = IF u \in Digit THEN base[u] ELSE G[u][f[next[u]]]
    BY <1>3 DEF Solves
  <2>2. next[u] = u \div 10 /\ base[u] = <<u>> /\ u \div 10 \in Nat
    BY DivTen
  <2>3. f[u \div 10] \in V
    BY <2>2
  <2>4. G[u][f[u \div 10]] = Append(f[u \div 10], u % 10)
    BY <2>3
  <2>5. u \in Digit <=> u < 10
    BY DEF Digit
  <2> HIDE DEF V, next, base, G
  <2>. QED
    BY <2>1, <2>2, <2>4, <2>5
<1>5. f = Rec(f)
  BY <1>4
<1>6. NumSeq = CHOOSE g : g = Rec(g)
  BY Zenon DEF NumSeq
<1> HIDE DEF Rec
<1>7. NumSeq = Rec(NumSeq)
  BY <1>5, <1>6, Zenon
<1>8. \A u \in Nat : NumSeq[u] = IF u < 10 THEN <<u>>
                                 ELSE Append(NumSeq[u \div 10], u % 10)
  BY <1>7 DEF Rec
<1> DEFINE Bad == {u \in Nat : NumSeq[u] \notin V}
<1>9. Bad = {}
  <2>1. SUFFICES ASSUME Bad # {} PROVE FALSE
    OBVIOUS
  <2>2. PICK u \in Bad : \A n \in Bad : u <= n
    BY <2>1, LeastExists
  <2>3. u \in Nat /\ NumSeq[u] \notin V
    OBVIOUS
  <2>4. ~(u < 10)
    <3>1. SUFFICES ASSUME u < 10 PROVE FALSE
      OBVIOUS
    <3>2. NumSeq[u] = <<u>>
      BY <1>8, <2>3, <3>1, Zenon
    <3>3. u \in Digit
      BY <2>3, <3>1 DEF Digit
    <3>4. <<u>> \in V
      BY <3>3
    <3>. QED
      BY <2>3, <3>2, <3>4, Zenon
  <2>5. u \div 10 \in Nat /\ u \div 10 < u /\ u % 10 \in Digit
    BY <2>3, <2>4, DivTen DEF Digit
  <2>6. NumSeq[u \div 10] \in V
    BY <2>2, <2>3, <2>5
  <2>7. NumSeq[u] = Append(NumSeq[u \div 10], u % 10)
    BY <1>8, <2>3, <2>4
  <2>. QED
    BY <2>3, <2>5, <2>6, <2>7
<1>10. \A u \in Nat : NumSeq[u] \in V
  BY <1>9
<1>11. NumSeq = [u \in Nat |-> NumSeq[u]]
  BY <1>7 DEF Rec
<1>. QED
  BY <1>8, <1>10, <1>11

(* There is at least one digit.                                            *)
LEMMA NumLen ==
  ASSUME NEW u \in Nat
  PROVE  /\ NumSeq[u] \in Seq(Digit) /\ Len(NumSeq[u]) \in Nat
         /\ Len(NumSeq[u]) >= 1
         /\ u >= 10 => Len(NumSeq[u]) = Len(NumSeq[u \div 10]) + 1
         /\ u < 10 => Len(NumSeq[u]) = 1
<1>1. NumSeq[u] \in Seq(Digit) /\ NumSeq[u \div 10] \in Seq(Digit)
  BY NumIs, DivTen
<1> DEFINE s == NumSeq[u]
           t == NumSeq[u \div 10]
           d == u % 10
<1>2. s = IF u < 10 THEN <<u>> ELSE Append(t, d)
  BY NumIs, Zenon
<1>3. s \in Seq(Digit) /\ t \in Seq(Digit)
  BY <1>1
<1> HIDE DEF s, t, d
<1>4. CASE u < 10
  <2>1. s = <<u>>
    BY <1>2, <1>4
  <2>2. Len(s) = 1
    BY <2>1
  <2>. QED
    BY <1>3, <1>4, <2>2 DEF s
<1>5. CASE ~(u < 10)
  <2>1. s = Append(t, d)
    BY <1>2, <1>5, Zenon
  <2>2. Len(s) = Len(t) + 1 /\ Len(t) \in Nat
    BY <1>3, <2>1
  <2>. QED
    BY <1>3, <1>5, <2>2 DEF s, t
<1>. QED
  BY <1>4, <1>5

(* Both have the same digits, in the opposite order.                       *)
Mirror(s, t) ==
  Len(s) = Len(t) /\ \A i \in 1..Len(t) : s[Len(t) + 1 - i] = t[i]
(* Division by ten gives the lowest digit first.                           *)
LEMMA LowMirrorsNum ==
  ASSUME NEW u \in Nat, u # 0
  PROVE  Mirror(LowSeq[u], NumSeq[u])
<1> DEFINE Bad == {n \in Nat : n # 0 /\ ~Mirror(LowSeq[n], NumSeq[n])}
<1>1. SUFFICES ASSUME Bad # {} PROVE FALSE
  OBVIOUS
<1>2. PICK n \in Bad : \A k \in Bad : n <= k
  BY <1>1, LeastExists
<1>3. n \in Nat /\ n # 0 /\ ~Mirror(LowSeq[n], NumSeq[n])
  OBVIOUS
<1> DEFINE q == n \div 10
           d == n % 10
<1>4. q \in Nat /\ q < n /\ d \in Digit /\ (n >= 10 => q # 0) /\ (n < 10 => d = n /\ q = 0)
  BY <1>3, DivTen DEF Digit
<1>5. LowSeq[n] = <<d>> \o LowSeq[q]
  BY <1>3, LowIs
<1>6. LowSeq[q] \in Seq(Digit) /\ NumSeq[q] \in Seq(Digit)
  BY <1>4, LowIs, NumIs
<1>7. CASE n < 10
  <2>1. LowSeq[q] = <<>> /\ NumSeq[n] = <<n>>
    BY <1>3, <1>4, <1>7, LowIs, NumIs
  <2>2. LowSeq[n] = <<n>>
    BY <1>4, <1>5, <1>7, <2>1
  <2>3. Mirror(LowSeq[n], NumSeq[n])
    BY <2>1, <2>2 DEF Mirror
  <2>. QED
    BY <1>3, <2>3
<1>8. CASE n >= 10
  <2>1. NumSeq[n] = Append(NumSeq[q], d)
    BY <1>3, <1>8, NumIs
  <2> HIDE DEF q, d
  <2>2. Mirror(LowSeq[q], NumSeq[q])
    BY <1>2, <1>3, <1>4, <1>8
  <2> DEFINE s == LowSeq[q]
             t == NumSeq[q]
  <2>3. s \in Seq(Digit) /\ t \in Seq(Digit) /\ Len(s) = Len(t)
        /\ \A i \in 1..Len(t) : s[Len(t) + 1 - i] = t[i]
    BY <1>6, <2>2 DEF Mirror
  <2>4. LowSeq[n] = <<d>> \o s /\ NumSeq[n] = Append(t, d)
    BY <1>5, <2>1
  <2> HIDE DEF s, t
  <2>5. Len(<<d>> \o s) = Len(s) + 1 /\ Len(Append(t, d)) = Len(t) + 1
    BY <2>3
  <2>6. ASSUME NEW i \in 1..(Len(t) + 1)
        PROVE  (<<d>> \o s)[Len(t) + 2 - i] = Append(t, d)[i]
    <3>1. CASE i = Len(t) + 1
      BY <2>3, <3>1
    <3>2. CASE i # Len(t) + 1
      <4>1. Len(t) \in Nat /\ i \in 1..Len(t) /\ Append(t, d)[i] = t[i]
        BY <2>3, <3>2
      <4>2. Len(t) + 2 - i \in 2..(Len(s) + 1)
        BY <2>3, <4>1
      <4>3. (<<d>> \o s)[Len(t) + 2 - i] = s[Len(t) + 2 - i - 1]
        BY <2>3, <4>1, <4>2
      <4>4. Len(t) + 2 - i - 1 = Len(t) + 1 - i
        BY <4>1
      <4>. QED
        BY <2>3, <4>1, <4>3, <4>4
    <3>. QED
      BY <3>1, <3>2
  <2>7. Mirror(<<d>> \o s, Append(t, d))
    <3>1. \A i \in Int : Len(t) + 1 + 1 - i = Len(t) + 2 - i
      <4>1. Len(t) \in Nat
        BY <2>3
      <4>. QED
        BY <4>1
    <3>. QED
      BY <2>3, <2>5, <2>6 DEF Mirror
  <2>. QED
    BY <1>3, <2>4, <2>7
<1>. QED
  BY <1>3, <1>7, <1>8

-----------------------------------------------------------------------------
(* Texts *)

Text == Digit \cup {Minus}
Abs(x) == IF x < 0 THEN -x ELSE x
Width(x) == Len(NumSeq[Abs(x)])

(* The text of a mirrored sequence, read backwards, is the other one.      *)
LEMMA ReversedIs ==
  ASSUME NEW s \in Seq(Digit), NEW t \in Seq(Digit), Mirror(s, t)
  PROVE  __str_reverse__(s) = t /\ strreverse(s) = t
<1>1. Len(s) = Len(t) /\ \A i \in 1..Len(t) : s[Len(t) + 1 - i] = t[i]
  BY DEF Mirror
<1>2. t = [i \in 1..Len(t) |-> t[i]]
  OBVIOUS
<1>3. [i \in 1..Len(s) |-> s[Len(s) + 1 - i]] = t
  BY <1>1, <1>2
<1>. QED
  BY <1>3, Zenon DEF __str_reverse__, strreverse

(* Division by ten, the digits turned round, gives the numeral.            *)
LEMMA LowTurned ==
  ASSUME NEW u \in Nat, u # 0
  PROVE  /\ LowSeq[u] \in Seq(Digit) /\ NumSeq[u] \in Seq(Digit)
         /\ Len(LowSeq[u]) = Len(NumSeq[u])
         /\ __str_reverse__(LowSeq[u]) = NumSeq[u]
<1>1. LowSeq[u] \in Seq(Digit) /\ NumSeq[u] \in Seq(Digit)
  BY LowIs, NumIs
<1>2. Mirror(LowSeq[u], NumSeq[u])
  BY LowMirrorsNum
<1>. QED
  BY <1>1, <1>2, ReversedIs DEF Mirror

(* With the sign behind them it comes out in front.                        *)
LEMMA LowSignTurned ==
  ASSUME NEW u \in Nat, u # 0
  PROVE  __str_reverse__(LowSeq[u] \o <<Minus>>) = <<Minus>> \o NumSeq[u]
<1> DEFINE s == LowSeq[u]
           t == NumSeq[u]
<1>1. s \in Seq(Digit) /\ t \in Seq(Digit) /\ Len(s) = Len(t)
      /\ \A i \in 1..Len(t) : s[Len(t) + 1 - i] = t[i]
  BY LowTurned, LowMirrorsNum DEF Mirror
<1>2. Minus \in Text
  BY DEF Text
<1> HIDE DEF s, t
<1> DEFINE a == s \o <<Minus>>
           b == <<Minus>> \o t
<1>3. /\ Len(a) = Len(t) + 1 /\ Len(b) = Len(t) + 1 /\ Len(t) \in Nat
      /\ \A i \in 1..Len(t) : a[i] = s[i] /\ b[i + 1] = t[i]
      /\ a[Len(t) + 1] = Minus /\ b[1] = Minus
      /\ b = [i \in 1..Len(b) |-> b[i]]
  <2>1. s \in Seq(Text) /\ t \in Seq(Text)
    BY <1>1 DEF Text
  <2>2. b \in Seq(Text)
    BY <1>2, <2>1
  <2>3. /\ Len(a) = Len(t) + 1 /\ Len(b) = Len(t) + 1 /\ Len(t) \in Nat
        /\ a[Len(t) + 1] = Minus /\ b[1] = Minus
    BY <1>1, <1>2, <2>1
  <2>4. \A i \in 1..Len(t) : a[i] = s[i] /\ b[i + 1] = t[i]
    BY <1>1, <1>2, <2>1
  <2>5. b = [i \in 1..Len(b) |-> b[i]]
    <3> HIDE DEF b
    <3>. QED
      BY <2>2
  <2>. QED
    BY <2>3, <2>4, <2>5
<1> HIDE DEF a, b
<1>4. ASSUME NEW i \in 1..Len(a) PROVE a[Len(a) + 1 - i] = b[i]
  <2>1. CASE i = 1
    <3>1. Len(a) + 1 - i = Len(t) + 1
      BY <1>3, <2>1
    <3>. QED
      BY <1>3, <2>1, <3>1
  <2>2. CASE i # 1
    <3>1. i - 1 \in 1..Len(t) /\ Len(a) + 1 - i = Len(t) + 1 - (i - 1)
      BY <1>3, <2>2
    <3>2. Len(t) + 1 - (i - 1) \in 1..Len(t)
      BY <1>3, <3>1
    <3>3. a[Len(a) + 1 - i] = s[Len(t) + 1 - (i - 1)] /\ b[(i - 1) + 1] = t[i - 1]
      BY <1>3, <3>1, <3>2
    <3>4. s[Len(t) + 1 - (i - 1)] = t[i - 1]
      BY <1>1, <3>1
    <3>5. (i - 1) + 1 = i
      BY <1>3
    <3>. QED
      BY <3>3, <3>4, <3>5
  <2>. QED
    BY <2>1, <2>2
<1>5. [i \in 1..Len(a) |-> a[Len(a) + 1 - i]] = b
  BY <1>3, <1>4
<1>6. __str_reverse__(a) = b
  BY <1>5, Zenon DEF __str_reverse__
<1>. QED
  BY <1>6 DEF a, b, s, t

(* The numbers of an intptr_t.                                             *)
LEMMA IntegerIs ==
  /\ INTEGER_MAX \in Nat /\ INTEGER_MIN \in Int /\ INTEGER_MIN < 0
  /\ INTEGER_MIN = -INTEGER_MAX - 1 /\ -INTEGER_MIN = INTEGER_MAX + 1
  /\ INTEGER_MIN # INTEGER_MAX /\ INTEGER_MIN \in Integer
  /\ INTEGER_MAX \in Integer /\ 0 \in Integer
  /\ \A x \in Integer : /\ x \in Int /\ INTEGER_MIN <= x /\ x <= INTEGER_MAX
                        /\ Abs(x) \in Nat /\ Abs(x) <= INTEGER_MAX + 1
                        /\ x # INTEGER_MIN => Abs(x) <= INTEGER_MAX
<1>1. INTEGER_MAX \in Nat /\ INTEGER_MIN = -INTEGER_MAX - 1
  BY ConstantsAssumption DEF INTEGER_MIN
<1>. QED
  BY <1>1 DEF Integer, Abs

(* A numeral is a '-' or not and the digits.                               *)
LEMMA NumeralIs ==
  ASSUME NEW x \in Int
  PROVE  /\ Abs(x) \in Nat /\ NumSeq[Abs(x)] \in Seq(Digit)
         /\ Width(x) \in Nat /\ Width(x) >= 1
         /\ x < 0 => Numeral(x) = <<Minus>> \o NumSeq[Abs(x)]
         /\ ~(x < 0) => Numeral(x) = NumSeq[Abs(x)]
         /\ Numeral(x) \in Seq(Text)
         /\ Len(Numeral(x)) = Width(x) + IF x < 0 THEN 1 ELSE 0
<1>1. Abs(x) \in Nat /\ (x < 0 => Abs(x) = -x) /\ (~(x < 0) => Abs(x) = x)
  BY DEF Abs
<1>2. /\ NumSeq[Abs(x)] \in Seq(Digit) /\ Width(x) \in Nat /\ Width(x) >= 1
      /\ Width(x) = Len(NumSeq[Abs(x)])
  BY <1>1, NumLen DEF Width
<1>3. /\ x < 0 => Numeral(x) = <<Minus>> \o NumSeq[Abs(x)]
      /\ ~(x < 0) => Numeral(x) = NumSeq[Abs(x)]
  BY <1>1, DigitsAre, Zenon
<1> DEFINE t == NumSeq[Abs(x)]
<1>4. t \in Seq(Text) /\ Len(t) = Width(x) /\ Minus \in Text
  BY <1>2 DEF Text
<1> HIDE DEF t
<1>5. <<Minus>> \o t \in Seq(Text) /\ Len(<<Minus>> \o t) = Width(x) + 1
  BY <1>2, <1>4
<1>6. CASE x < 0
  <2>1. Numeral(x) = <<Minus>> \o t
    BY <1>3, <1>6 DEF t
  <2>. QED
    BY <1>1, <1>2, <1>3, <1>5, <1>6, <2>1
<1>7. CASE ~(x < 0)
  <2>1. Numeral(x) = t
    BY <1>3, <1>7 DEF t
  <2>. QED
    BY <1>1, <1>2, <1>3, <1>4, <1>7, <2>1
<1>. QED
  BY <1>6, <1>7

(* What wtoa writes is the numeral, also for the smallest number.          *)
LEMMA WtoaTextIs ==
  /\ \A num \in Integer : num # INTEGER_MIN => WtoaText(num) = Numeral(num)
  /\ STR_INTEGER_MIN = Numeral(INTEGER_MIN)
<1>1. ASSUME NEW num \in Integer, num # INTEGER_MIN
      PROVE  WtoaText(num) = Numeral(num)
  <2>1. num \in Int /\ Abs(num) \in Nat /\ abs_value(num) = Abs(num)
        /\ (num # 0 => Abs(num) # 0) /\ (num = 0 => Abs(num) = 0)
    BY <1>1, IntegerIs DEF abs_value, Abs
  <2>2. CASE num = 0
    <3>1. WtoaText(num) = <<0>>
      BY <2>1, <2>2 DEF WtoaText
    <3>2. Numeral(num) = NumSeq[0]
      <4>1. ~(num < 0) /\ Abs(num) = 0
        BY <2>1, <2>2
      <4>2. Numeral(num) = NumSeq[Abs(num)]
        BY <2>1, <4>1, NumeralIs
      <4>. QED
        BY <4>1, <4>2
    <3>3. NumSeq[0] = <<0>>
      BY NumIs
    <3>. QED
      BY <3>1, <3>2, <3>3
  <2>3. CASE num < 0
    <3>1. WtoaText(num) = __str_reverse__(LowSeq[Abs(num)] \o <<Minus>>)
      <4>1. abs_value(num) # 0
        BY <2>1, <2>3
      <4>. QED
        BY <2>1, <2>3, <4>1, DigitsAre, Zenon DEF WtoaText
    <3>2. Numeral(num) = <<Minus>> \o NumSeq[Abs(num)]
      BY <2>1, <2>3, NumeralIs
    <3>3. Abs(num) # 0
      BY <2>1, <2>3
    <3>4. __str_reverse__(LowSeq[Abs(num)] \o <<Minus>>)
            = <<Minus>> \o NumSeq[Abs(num)]
      BY <2>1, <3>3, LowSignTurned, Zenon
    <3>. QED
      BY <3>1, <3>2, <3>4, Zenon
  <2>4. CASE ~(num < 0) /\ num # 0
    <3>1. WtoaText(num) = __str_reverse__(LowSeq[Abs(num)] \o <<>>)
      <4>1. abs_value(num) # 0
        BY <2>1, <2>4
      <4>. QED
        BY <2>1, <2>4, <4>1, DigitsAre, Zenon DEF WtoaText
    <3>2. LowSeq[Abs(num)] \o <<>> = LowSeq[Abs(num)]
      BY <2>1, LowIs
    <3>3. Numeral(num) = NumSeq[Abs(num)]
      BY <2>1, <2>4, NumeralIs
    <3>. QED
      BY <2>1, <2>4, <3>1, <3>2, <3>3, LowTurned
  <2>. QED
    BY <2>1, <2>2, <2>3, <2>4
<1>2. STR_INTEGER_MIN = Numeral(INTEGER_MIN)
  <2>1. -INTEGER_MIN \in Nat /\ -INTEGER_MIN # 0 /\ Abs(INTEGER_MIN) = -INTEGER_MIN
    BY IntegerIs DEF Abs
  <2>2. STR_INTEGER_MIN = <<Minus>> \o __str_reverse__(LowSeq[-INTEGER_MIN])
    BY DigitsAre DEF STR_INTEGER_MIN
  <2>3. Numeral(INTEGER_MIN) = <<Minus>> \o NumSeq[-INTEGER_MIN]
    BY <2>1, IntegerIs, NumeralIs
  <2>. QED
    BY <2>1, <2>2, <2>3, LowTurned
<1>. QED
  BY <1>1, <1>2

-----------------------------------------------------------------------------
(* The number of digits *)

Ranks == 0..(N_PLACES - 1)

(* The table: 9, 99, 999...                                                *)
LEMMA PlacesMaxIs ==
  /\ N_PLACES \in Nat /\ N_PLACES >= 1
  /\ places_max \in [Ranks -> Nat] /\ places_max[0] = 9
  /\ \A i \in Ranks : i # 0 => places_max[i] = 10 * places_max[i - 1] + 9
<1>1. N_PLACES \in Nat /\ N_PLACES >= 1
  BY ConstantsAssumption
<1> DEFINE Rec(f) == [i \in Ranks |-> IF i = 0 THEN 9 ELSE 10 * f[i - 1] + 9]
           w == [i \in Ranks |-> i]
           next == [i \in Ranks |-> i - 1]
           base == [i \in Ranks |-> 9]
           G == [i \in Ranks |-> [v \in Nat |-> 10 * v + 9]]
<1>2. Descends(Ranks, w, {0}, next)
  BY <1>1 DEF Descends, Ranks
<1>3. Maps(Ranks, Nat, {0}, base, G)
  BY DEF Maps
<1>4. PICK f \in [Ranks -> Nat] : Solves(Ranks, {0}, next, base, G, f, f)
  <2> HIDE DEF w, next, base, G
  <2>. QED
    BY <1>2, <1>3, RecursionExists
<1>5. ASSUME NEW i \in Ranks
      PROVE  f[i] = IF i = 0 THEN 9 ELSE 10 * f[i - 1] + 9
  <2>1. f[i] = IF i \in {0} THEN base[i] ELSE G[i][f[next[i]]]
    BY <1>4 DEF Solves
  <2>2. CASE i = 0
    BY <2>1, <2>2
  <2>3. CASE i # 0
    <3>1. i - 1 \in Ranks /\ next[i] = i - 1
      BY <1>1, <2>3 DEF Ranks
    <3>2. f[i - 1] \in Nat
      BY <3>1
    <3>3. G[i][f[i - 1]] = 10 * f[i - 1] + 9
      BY <3>2
    <3> HIDE DEF G, next, base
    <3>. QED
      BY <2>1, <2>3, <3>1, <3>3
  <2>. QED
    BY <2>2, <2>3
<1>6. f = Rec(f)
  BY <1>5
<1>7. places_max = CHOOSE g : g = Rec(g)
  BY Zenon DEF places_max, Ranks
<1> HIDE DEF Rec
<1>8. places_max = Rec(places_max)
  BY <1>6, <1>7, Zenon
<1>9. \A i \in Ranks :
        places_max[i] = IF i = 0 THEN 9 ELSE 10 * places_max[i - 1] + 9
  BY <1>8 DEF Rec
<1> DEFINE Bad == {i \in Ranks : places_max[i] \notin Nat}
<1>10. Bad = {}
  <2>1. SUFFICES ASSUME Bad # {} PROVE FALSE
    OBVIOUS
  <2>2. Bad \in SUBSET Nat
    BY DEF Ranks
  <2>3. PICK i \in Bad : \A n \in Bad : i <= n
    BY <2>1, <2>2, LeastExists
  <2>4. i \in Ranks /\ places_max[i] \notin Nat
    OBVIOUS
  <2>5. i # 0
    BY <1>9, <2>4
  <2>6. i - 1 \in Ranks /\ ~(i <= i - 1)
    BY <1>1, <2>4, <2>5 DEF Ranks
  <2>7. places_max[i - 1] \in Nat
    BY <2>3, <2>6
  <2>8. places_max[i] = 10 * places_max[i - 1] + 9
    BY <1>9, <2>4, <2>5
  <2>. QED
    BY <2>4, <2>7, <2>8
<1>11. places_max = [i \in Ranks |-> places_max[i]]
  BY <1>8 DEF Rec
<1>12. \A i \in Ranks : places_max[i] \in Nat
  BY <1>10
<1>13. 0 \in Ranks
  BY <1>1 DEF Ranks
<1>. QED
  BY <1>1, <1>9, <1>11, <1>12, <1>13

(* It ascends.                                                             *)
LEMMA PlacesAscend ==
  ASSUME NEW i \in Ranks, NEW j \in Ranks, i <= j
  PROVE  places_max[i] <= places_max[j]
<1> DEFINE Bad == {k \in Ranks : i <= k /\ places_max[k] < places_max[i]}
<1>1. i \in Nat /\ j \in Nat /\ N_PLACES \in Nat
  BY PlacesMaxIs DEF Ranks
<1>2. \A k \in Ranks : places_max[k] \in Nat
  BY PlacesMaxIs
<1>3. ASSUME j \in Bad PROVE FALSE
  <2>1. Bad \in SUBSET Nat /\ Bad # {}
    BY <1>3 DEF Ranks
  <2>2. PICK k \in Bad : \A n \in Bad : k <= n
    BY <2>1, LeastExists
  <2>3. k \in Ranks /\ i <= k /\ places_max[k] < places_max[i] /\ k \in Nat
    BY DEF Ranks
  <2>4. k # i
    BY <1>2, <2>3
  <2>5. k - 1 \in Ranks /\ i <= k - 1 /\ ~(k <= k - 1) /\ k # 0
    BY <1>1, <2>3, <2>4 DEF Ranks
  <2>6. places_max[k] = 10 * places_max[k - 1] + 9
    BY <2>3, <2>5, PlacesMaxIs
  <2>7. places_max[k - 1] < places_max[i]
    BY <1>2, <2>3, <2>5, <2>6
  <2>. QED
    BY <2>2, <2>5, <2>7
<1>. QED
  BY <1>2, <1>3

(* The numbers of at most e + 1 digits.                                    *)
UpTo(e) == IF e = 0 THEN 9 ELSE 10 * places_max[e - 1] + 9

(* The table gives the number of digits.                                   *)
LEMMA DigitCount ==
  ASSUME NEW v \in Nat, NEW e \in 0..N_PLACES,
         v <= UpTo(e), e # 0 => places_max[e - 1] < v
  PROVE  Len(NumSeq[v]) = e + 1
<1> DEFINE Hyp(u, k) == u <= UpTo(k) /\ (k # 0 => places_max[k - 1] < u)
           Bad == {k \in 0..N_PLACES :
                     \E u \in Nat : Hyp(u, k) /\ Len(NumSeq[u]) # k + 1}
<1>1. SUFFICES ASSUME Bad # {} PROVE FALSE
  OBVIOUS
<1>2. Bad \in SUBSET Nat
  OBVIOUS
<1>3. PICK k \in Bad : \A n \in Bad : k <= n
  BY <1>1, <1>2, LeastExists
<1>4. PICK u \in Nat : Hyp(u, k) /\ Len(NumSeq[u]) # k + 1
  BY <1>3
<1>5. k \in 0..N_PLACES /\ N_PLACES \in Nat /\ k \in Nat
  BY PlacesMaxIs
<1>6. CASE k = 0
  <2>1. u <= 9
    BY <1>4, <1>6 DEF UpTo
  <2>2. Len(NumSeq[u]) = 1
    BY <2>1, NumLen
  <2>. QED
    BY <1>4, <1>6, <2>2
<1>7. CASE k # 0
  <2> DEFINE p == places_max[k - 1]
             q == u \div 10
  <2>1. k - 1 \in Ranks /\ p \in Nat /\ k - 1 \in 0..N_PLACES
    BY <1>5, <1>7, PlacesMaxIs DEF Ranks
  <2>2. u <= 10 * p + 9 /\ p < u
    BY <1>4, <1>7 DEF UpTo
  <2>3. q \in Nat /\ u % 10 \in 0..9 /\ u = 10 * q + (u % 10)
    BY DivTen
  <2>4. p >= 9
    <3>1. 0 \in Ranks /\ 0 <= k - 1
      BY <1>5, <1>7, PlacesMaxIs DEF Ranks
    <3>2. places_max[0] = 9
      BY PlacesMaxIs
    <3>. QED
      BY <2>1, <3>1, <3>2, PlacesAscend
  <2> HIDE DEF q
  <2>5. q <= p /\ u >= 10
    <3> DEFINE r == u % 10
    <3>1. r \in 0..9 /\ u = 10 * q + r
      BY <2>3
    <3> HIDE DEF r, p
    <3>. QED
      BY <2>1, <2>2, <2>3, <2>4, <3>1
  <2>6. Hyp(q, k - 1)
    <3>1. CASE k - 1 = 0
      <4>1. p = 9
        BY <3>1, PlacesMaxIs
      <4>. QED
        BY <2>5, <3>1, <4>1 DEF UpTo
    <3>2. CASE k - 1 # 0
      <4> DEFINE o == places_max[(k - 1) - 1]
      <4>1. p = 10 * o + 9
        BY <2>1, <3>2, PlacesMaxIs
      <4>2. (k - 1) - 1 \in Ranks
        BY <1>5, <1>7, <3>2 DEF Ranks
      <4>3. o \in Nat
        BY <4>2, PlacesMaxIs
      <4> DEFINE r == u % 10
      <4>4. r \in 0..9 /\ u = 10 * q + r
        BY <2>3
      <4> HIDE DEF o, p, r
      <4>5. o < q /\ q <= 10 * o + 9
        BY <2>2, <2>3, <2>5, <4>1, <4>3, <4>4
      <4>. QED
        BY <3>2, <4>5 DEF UpTo, o
    <3>. QED
      BY <3>1, <3>2
  <2>7. k - 1 \notin Bad
    BY <1>3, <1>5
  <2>8. Len(NumSeq[q]) = (k - 1) + 1
    BY <2>1, <2>3, <2>6, <2>7
  <2>9. Len(NumSeq[u]) = Len(NumSeq[q]) + 1
    BY <2>5, NumLen DEF q
  <2>. QED
    BY <1>4, <1>5, <2>8, <2>9
<1>. QED
  BY <1>6, <1>7

-----------------------------------------------------------------------------
(* The binary search *)

Windows == (0..N_PLACES) \X (0..N_PLACES) \X Nat
Mid(w) == w[1] + (w[2] - w[1]) \div 2
Closed == {w \in Windows : w[1] >= w[2]}
Half(p, w) == IF p <= places_max[Mid(w)]
              THEN <<w[1], Mid(w), Mid(w) + 1>>
              ELSE <<Mid(w) + 1, w[2], Mid(w) + 2>>

Search(p) ==
  CHOOSE f : f = [w \in Windows |->
                    IF w[1] >= w[2] THEN w[3]
                    ELSE IF p <= places_max[Mid(w)]
                    THEN f[<<w[1], Mid(w), Mid(w) + 1>>]
                    ELSE f[<<Mid(w) + 1, w[2], Mid(w) + 2>>]]

(* SearchPlaces is this search of the whole table.                         *)
LEMMA SearchPlacesIs ==
  \A p : SearchPlaces(p) = Search(p)[<<0, N_PLACES, 0>>]
BY DEF SearchPlaces, Search, Windows, Mid

(* A window, its middle and its halves.                                    *)
LEMMA WindowIs ==
  ASSUME NEW w \in Windows
  PROVE  /\ w = <<w[1], w[2], w[3]>>
         /\ w[1] \in 0..N_PLACES /\ w[2] \in 0..N_PLACES /\ w[3] \in Nat
         /\ N_PLACES \in Nat
BY PlacesMaxIs DEF Windows

(* The middle is inside and a half is smaller.                             *)
LEMMA HalfIs ==
  ASSUME NEW p, NEW w \in Windows, w \notin Closed
  PROVE  /\ Mid(w) \in Ranks /\ w[1] <= Mid(w) /\ Mid(w) < w[2]
         /\ Half(p, w) \in Windows
         /\ w[1] < w[2]
         /\ Half(p, w)[1] <= Half(p, w)[2]
         /\ Half(p, w)[2] - Half(p, w)[1] < w[2] - w[1]
<1>1. /\ w[1] \in 0..N_PLACES /\ w[2] \in 0..N_PLACES /\ w[3] \in Nat
      /\ N_PLACES \in Nat /\ w[1] < w[2]
  BY WindowIs DEF Closed
<1> DEFINE d == w[2] - w[1]
           m == Mid(w)
<1>2. d \in Nat /\ d >= 1
  BY <1>1
<1>3. d \div 2 \in Nat /\ d \div 2 < d
  <2> HIDE DEF d
  <2>. QED
    BY <1>2
<1>4. m = w[1] + (d \div 2)
  BY DEF Mid
<1> DEFINE h == d \div 2
<1> HIDE DEF h, m
<1>5. h \in Nat /\ h < w[2] - w[1] /\ m = w[1] + h
  BY <1>3, <1>4 DEF h
<1>6. m \in Ranks /\ w[1] <= m /\ m < w[2] /\ m \in Nat
  BY <1>1, <1>5 DEF Ranks
<1> DEFINE a == <<w[1], m, m + 1>>
           b == <<m + 1, w[2], m + 2>>
<1>7. a \in Windows /\ b \in Windows
  BY <1>1, <1>6 DEF Windows
<1>8. a[1] <= a[2] /\ b[1] <= b[2] /\ a[2] - a[1] < w[2] - w[1] /\ b[2] - b[1] < w[2] - w[1]
  BY <1>1, <1>6
<1>9. Half(p, w) = a \/ Half(p, w) = b
  BY DEF Half, m
<1> HIDE DEF a, b
<1>. QED
  BY <1>1, <1>6, <1>7, <1>8, <1>9 DEF m

(* The search goes on in a half of its window.                             *)
LEMMA SearchIs ==
  ASSUME NEW p
  PROVE  \A w \in Windows :
           Search(p)[w] = IF w \in Closed THEN w[3] ELSE Search(p)[Half(p, w)]
<1> DEFINE Rec(f) == [w \in Windows |->
                        IF w[1] >= w[2] THEN w[3]
                        ELSE IF p <= places_max[Mid(w)]
                        THEN f[<<w[1], Mid(w), Mid(w) + 1>>]
                        ELSE f[<<Mid(w) + 1, w[2], Mid(w) + 2>>]]
           rank == [w \in Windows |-> IF w[1] < w[2] THEN w[2] - w[1] ELSE 0]
           next == [w \in Windows |-> Half(p, w)]
           base == [w \in Windows |-> w[3]]
           G == [w \in Windows |-> [v \in Nat |-> v]]
<1>1. Descends(Windows, rank, Closed, next)
  <2>1. ASSUME NEW w \in Windows PROVE rank[w] \in Nat
    BY WindowIs
  <2>2. ASSUME NEW w \in Windows, w \notin Closed
        PROVE  next[w] \in Windows /\ rank[next[w]] < rank[w]
    <3> DEFINE h == Half(p, w)
    <3>1. /\ h \in Windows /\ w[1] < w[2] /\ h[1] <= h[2]
          /\ h[2] - h[1] < w[2] - w[1]
      BY <2>2, HalfIs
    <3>2. next[w] = h
      OBVIOUS
    <3> HIDE DEF h
    <3>3. rank[w] = w[2] - w[1] /\ rank[h] = IF h[1] < h[2] THEN h[2] - h[1] ELSE 0
      BY <3>1
    <3>4. w[1] \in Nat /\ w[2] \in Nat /\ h[1] \in Nat /\ h[2] \in Nat
      BY <3>1, WindowIs
    <3>5. rank[h] < rank[w]
      <4> HIDE DEF rank
      <4>. QED
        BY <3>1, <3>3, <3>4
    <3>. QED
      BY <3>1, <3>2, <3>5
  <2>. QED
    BY <2>1, <2>2 DEF Descends
<1>2. Maps(Windows, Nat, Closed, base, G)
  BY WindowIs DEF Maps
<1>3. PICK f \in [Windows -> Nat] : Solves(Windows, Closed, next, base, G, f, f)
  <2> HIDE DEF rank, next, base, G
  <2>. QED
    BY <1>1, <1>2, RecursionExists
<1> DEFINE Eq(g, w) == g[w] = IF w \in Closed THEN w[3] ELSE g[Half(p, w)]
<1>4. ASSUME NEW w \in Windows PROVE Eq(f, w)
  <2>1. f[w] = IF w \in Closed THEN base[w] ELSE G[w][f[next[w]]]
    BY <1>3 DEF Solves
  <2>2. CASE w \in Closed
    BY <2>1, <2>2
  <2>3. CASE w \notin Closed
    <3>1. next[w] = Half(p, w) /\ Half(p, w) \in Windows
      BY <2>3, HalfIs
    <3>2. f[Half(p, w)] \in Nat
      BY <3>1
    <3>3. G[w][f[Half(p, w)]] = f[Half(p, w)]
      BY <3>2
    <3> HIDE DEF next, base, G
    <3>. QED
      BY <2>1, <2>3, <3>1, <3>3
  <2>. QED
    BY <2>2, <2>3
<1>5. \A g : \A w \in Windows : Eq(g, w) <=> g[w] = Rec(g)[w]
  <2> SUFFICES ASSUME NEW g, NEW w \in Windows
               PROVE  Eq(g, w) <=> g[w] = Rec(g)[w]
    OBVIOUS
  <2>1. w \in Closed <=> w[1] >= w[2]
    BY DEF Closed
  <2>2. Rec(g)[w] = IF w[1] >= w[2] THEN w[3]
                    ELSE IF p <= places_max[Mid(w)]
                    THEN g[<<w[1], Mid(w), Mid(w) + 1>>]
                    ELSE g[<<Mid(w) + 1, w[2], Mid(w) + 2>>]
    BY Zenon
  <2> HIDE DEF Rec
  <2>3. Rec(g)[w] = IF w \in Closed THEN w[3] ELSE g[Half(p, w)]
    BY <2>1, <2>2, Zenon DEF Half
  <2>. QED
    BY <2>3
<1>6. f = Rec(f)
  <2>1. \A w \in Windows : f[w] = Rec(f)[w]
    BY <1>4, <1>5, Zenon
  <2>2. DOMAIN Rec(f) = Windows /\ f = [w \in Windows |-> f[w]]
    BY Zenon
  <2>3. Rec(f) = [w \in Windows |-> Rec(f)[w]]
    BY Zenon
  <2> HIDE DEF Rec
  <2>. QED
    BY <2>1, <2>2, <2>3, Zenon
<1>7. Search(p) = CHOOSE g : g = Rec(g)
  BY Zenon DEF Search
<1> HIDE DEF Rec, Eq
<1>8. Search(p) = Rec(Search(p))
  BY <1>6, <1>7, Zenon
<1>9. \A w \in Windows : Eq(Search(p), w)
  BY <1>5, <1>8, Zenon
<1>. QED
  BY <1>9 DEF Eq

(* The entry of the table a number belongs to.                             *)
EntryOf(p, e) ==
  /\ e \in 0..N_PLACES
  /\ \A i \in Ranks : (i < e => places_max[i] < p) /\ (i >= e => p <= places_max[i])

(* Every number has one.                                                   *)
LEMMA EntryExists ==
  ASSUME NEW p \in Nat
  PROVE  \E e : EntryOf(p, e)
<1> DEFINE S == {i \in 0..N_PLACES : i = N_PLACES \/ p <= places_max[i]}
<1>1. N_PLACES \in Nat
  BY PlacesMaxIs
<1>2. S \in SUBSET Nat /\ S # {}
  BY <1>1
<1>3. PICK e \in S : \A n \in S : e <= n
  BY <1>2, LeastExists
<1>4. e \in 0..N_PLACES /\ (e = N_PLACES \/ p <= places_max[e])
  OBVIOUS
<1>5. ASSUME NEW i \in Ranks, i < e PROVE places_max[i] < p
  <2>1. i \notin S /\ i \in 0..N_PLACES
    BY <1>1, <1>3, <1>4, <1>5 DEF Ranks
  <2>2. ~(p <= places_max[i]) /\ places_max[i] \in Nat
    BY <2>1, PlacesMaxIs
  <2>. QED
    BY <2>2
<1>6. ASSUME NEW i \in Ranks, i >= e PROVE p <= places_max[i]
  <2>1. e # N_PLACES /\ e \in Ranks /\ p <= places_max[e]
    BY <1>1, <1>4, <1>6 DEF Ranks
  <2>2. places_max[e] <= places_max[i]
    BY <1>4, <1>6, <2>1, PlacesAscend DEF Ranks
  <2>3. places_max[e] \in Nat /\ places_max[i] \in Nat
    BY <2>1, PlacesMaxIs
  <2>. QED
    BY <2>1, <2>2, <2>3
<1> HIDE DEF S
<1>. QED
  BY <1>4, <1>5, <1>6 DEF EntryOf

(* The entry is in the window; a search that ends there returns the next.  *)
Around(w, e) ==
  /\ w[1] <= e /\ e <= w[2]
  /\ w[1] = w[2] => w[3] = w[1] + 1
(* That stays so in the half the search takes.                             *)
LEMMA HalfAround ==
  ASSUME NEW p \in Nat, NEW e, EntryOf(p, e), NEW w \in Windows, w \notin Closed,
         Around(w, e)
  PROVE  Around(Half(p, w), e)
<1> DEFINE m == Mid(w)
<1>1. /\ m \in Ranks /\ w[1] <= m /\ m < w[2] /\ places_max[m] \in Nat
      /\ w[1] \in Nat /\ w[2] \in Nat /\ e \in Nat /\ m \in Nat
      /\ w[1] <= e /\ e <= w[2]
  BY HalfIs, WindowIs, PlacesMaxIs DEF Around, EntryOf, Ranks
<1>2. (m < e => places_max[m] < p) /\ (m >= e => p <= places_max[m])
  BY <1>1 DEF EntryOf
<1>3. CASE p <= places_max[m]
  <2>1. Half(p, w) = <<w[1], m, m + 1>>
    BY <1>3 DEF Half
  <2>2. e <= m
    BY <1>1, <1>2, <1>3
  <2> HIDE DEF m
  <2>3. Around(<<w[1], m, m + 1>>, e)
    BY <1>1, <2>2 DEF Around
  <2>. QED
    BY <2>1, <2>3
<1>4. CASE ~(p <= places_max[m])
  <2>1. Half(p, w) = <<m + 1, w[2], m + 2>>
    BY <1>4 DEF Half
  <2>2. m + 1 <= e
    BY <1>1, <1>2, <1>4
  <2> HIDE DEF m
  <2>3. Around(<<m + 1, w[2], m + 2>>, e)
    BY <1>1, <2>2 DEF Around
  <2>. QED
    BY <2>1, <2>3
<1>. QED
  BY <1>3, <1>4

(* So it returns the entry's place, counted from one.                      *)
LEMMA SearchEnds ==
  ASSUME NEW p \in Nat, NEW e, EntryOf(p, e)
  PROVE  SearchPlaces(p) = e + 1
<1> DEFINE Good(w) == Around(w, e) => Search(p)[w] = e + 1
           Bad == {w \in Windows : ~Good(w)}
           Wide == {w[2] - w[1] : w \in Bad}
<1>1. ASSUME Bad # {} PROVE FALSE
  <2>1. ASSUME NEW w \in Bad
        PROVE  /\ w \in Windows /\ Around(w, e) /\ Search(p)[w] # e + 1
               /\ w[1] <= w[2] /\ w[2] - w[1] \in Nat
    <3>1. w \in Windows /\ Around(w, e) /\ Search(p)[w] # e + 1
      OBVIOUS
    <3>2. w[1] <= e /\ e <= w[2] /\ w[1] \in Nat /\ w[2] \in Nat /\ e \in Nat
      BY <3>1, WindowIs DEF Around, EntryOf
    <3>3. w[1] <= w[2] /\ w[2] - w[1] \in Nat
      BY <3>2
    <3>. QED
      BY <3>1, <3>3
  <2>2. Wide \in SUBSET Nat /\ Wide # {}
    <3> HIDE DEF Bad
    <3>. QED
      BY <1>1, <2>1
  <2>3. PICK k \in Wide : \A n \in Wide : k <= n
    BY <2>2, LeastExists
  <2>4. PICK w \in Bad : k = w[2] - w[1]
    BY <2>3
  <2>5. /\ w \in Windows /\ Around(w, e) /\ Search(p)[w] # e + 1
        /\ w[1] <= w[2] /\ w[2] - w[1] \in Nat
    BY <2>1
  <2>6. Search(p)[w] = IF w \in Closed THEN w[3] ELSE Search(p)[Half(p, w)]
    BY <2>5, SearchIs
  <2>7. CASE w \in Closed
    <3>1. w[1] = w[2] /\ w[3] = w[1] + 1 /\ w[1] <= e /\ e <= w[2]
          /\ w[1] \in Nat /\ e \in Nat
      BY <2>5, <2>7, WindowIs DEF Around, Closed, EntryOf
    <3>. QED
      BY <2>5, <2>6, <2>7, <3>1
  <2>8. CASE w \notin Closed
    <3> DEFINE h == Half(p, w)
    <3>1. h \in Windows /\ Around(h, e) /\ h[2] - h[1] < w[2] - w[1]
      BY <2>5, <2>8, HalfIs, HalfAround
    <3>2. Search(p)[h] # e + 1
      BY <2>5, <2>6, <2>8
    <3> HIDE DEF h
    <3>3. h \in Bad
      BY <3>1, <3>2
    <3>4. h[2] - h[1] \in Wide
      BY <3>3
    <3>5. h[2] - h[1] \in Nat
      BY <2>1, <3>3
    <3> HIDE DEF Wide, Bad
    <3>. QED
      BY <2>3, <2>4, <2>5, <3>1, <3>4, <3>5
  <2>. QED
    BY <2>7, <2>8
<1> DEFINE w0 == <<0, N_PLACES, 0>>
<1>2. w0 \in Windows /\ w0[1] = 0 /\ w0[2] = N_PLACES
  BY PlacesMaxIs DEF Windows
<1>3. Around(w0, e)
  BY <1>2, PlacesMaxIs DEF Around, EntryOf
<1> HIDE DEF w0
<1>4. Search(p)[w0] = e + 1
  BY <1>1, <1>2, <1>3
<1>. QED
  BY <1>4, SearchPlacesIs DEF w0

(* The search counts the digits, up to the absolute value of INTEGER_MIN.  *)
LEMMA SearchCounts ==
  ASSUME NEW p \in Nat, p <= INTEGER_MAX + 1
  PROVE  SearchPlaces(p) = Len(NumSeq[p])
<1>1. PICK e : EntryOf(p, e)
  BY EntryExists
<1>2. SearchPlaces(p) = e + 1
  BY <1>1, SearchEnds
<1> DEFINE top == places_max[N_PLACES - 1]
<1>3. /\ N_PLACES - 1 \in Ranks /\ top \in Nat /\ N_PLACES \in Nat /\ N_PLACES >= 1
      /\ INTEGER_MAX \in Nat /\ INTEGER_MAX < 10 * top + 9
  BY PlacesMaxIs, ConstantsAssumption DEF Ranks
<1>4. e \in 0..N_PLACES /\ e \in Nat
  BY <1>1, <1>3 DEF EntryOf
<1>5. e # 0 => places_max[e - 1] < p
  <2> SUFFICES ASSUME e # 0 PROVE places_max[e - 1] < p
    OBVIOUS
  <2>1. e - 1 \in Ranks /\ e - 1 < e
    BY <1>3, <1>4 DEF Ranks
  <2>. QED
    BY <1>1, <2>1 DEF EntryOf
<1>6. p <= UpTo(e)
  <2>1. CASE e = N_PLACES
    <3>1. UpTo(e) = 10 * top + 9
      BY <1>3, <2>1 DEF UpTo
    <3> HIDE DEF top
    <3>. QED
      BY <1>3, <3>1
  <2>2. CASE e # N_PLACES
    <3>1. e \in Ranks /\ e >= e
      BY <1>3, <1>4, <2>2 DEF Ranks
    <3>2. p <= places_max[e]
      BY <1>1, <3>1 DEF EntryOf
    <3>3. places_max[e] = UpTo(e)
      BY <3>1, PlacesMaxIs DEF UpTo
    <3>. QED
      BY <3>2, <3>3
  <2>. QED
    BY <2>1, <2>2
<1>. QED
  BY <1>2, <1>4, <1>5, <1>6, DigitCount

(* The largest number and the absolute value of the smallest one have the  *)
(* same number of digits: both are past the table.                         *)
LEMMA ExtremesAreAsLong ==
  Len(NumSeq[INTEGER_MAX]) = Len(NumSeq[INTEGER_MAX + 1])
<1> DEFINE top == places_max[N_PLACES - 1]
<1>1. /\ N_PLACES - 1 \in Ranks /\ top \in Nat /\ N_PLACES \in 0..N_PLACES
      /\ INTEGER_MAX \in Nat /\ top < INTEGER_MAX /\ INTEGER_MAX < 10 * top + 9
      /\ UpTo(N_PLACES) = 10 * top + 9
  BY PlacesMaxIs, ConstantsAssumption DEF Ranks, UpTo
<1> HIDE DEF top
<1>2. /\ INTEGER_MAX <= UpTo(N_PLACES) /\ INTEGER_MAX + 1 <= UpTo(N_PLACES)
      /\ top < INTEGER_MAX + 1 /\ INTEGER_MAX + 1 \in Nat
  BY <1>1
<1>3. \A v \in Nat : v <= UpTo(N_PLACES) /\ top < v =>
                       Len(NumSeq[v]) = N_PLACES + 1
  BY <1>1, DigitCount DEF top
<1>. QED
  BY <1>1, <1>2, <1>3

(* count_places is exact for every intptr_t.                               *)
LEMMA CountPlacesIs ==
  ASSUME NEW x \in Integer
  PROVE  count_places(x) = Len(Numeral(x))
<1>1. x \in Int /\ Abs(x) \in Nat /\ Abs(x) <= INTEGER_MAX + 1 /\ INTEGER_MAX \in Nat
  BY IntegerIs
<1>2. INTEGER_MAX >= 1
  <2>1. N_PLACES - 1 \in Ranks /\ places_max[N_PLACES - 1] \in Nat
    BY PlacesMaxIs DEF Ranks
  <2>. QED
    BY <2>1, ConstantsAssumption
<1> DEFINE positive == abs_value(IF x = INTEGER_MIN THEN x + 1 ELSE x)
           sign == IF x < 0 THEN 1 ELSE 0
<1>3. SearchPlaces(positive) = Width(x)
  <2>1. CASE x = INTEGER_MIN
    <3>1. positive = INTEGER_MAX
      BY <1>2, <2>1, IntegerIs DEF abs_value
    <3>2. Abs(x) = INTEGER_MAX + 1
      BY <2>1, IntegerIs DEF Abs
    <3>3. SearchPlaces(INTEGER_MAX) = Len(NumSeq[INTEGER_MAX])
      BY <1>1, SearchCounts
    <3>. QED
      BY <3>1, <3>2, <3>3, ExtremesAreAsLong DEF Width
  <2>2. CASE x # INTEGER_MIN
    <3>1. positive = Abs(x)
      BY <1>1, <2>2 DEF abs_value, Abs
    <3>. QED
      BY <1>1, <3>1, SearchCounts DEF Width
  <2>. QED
    BY <2>1, <2>2
<1>4. count_places(x) = SearchPlaces(positive) + sign
  BY DEF count_places
<1>5. Len(Numeral(x)) = Width(x) + sign
  BY <1>1, NumeralIs
<1>. QED
  BY <1>3, <1>4, <1>5

-----------------------------------------------------------------------------
(* The buffer *)

Memory == [Bytes -> Chars]

(* The characters of a text.                                               *)
LEMMA CharsAre ==
  /\ Minus \in Chars /\ Nul \in Chars /\ Chars \subseteq Int
  /\ Digit \subseteq Chars /\ Text \subseteq Chars
  /\ Minus \notin Digit /\ Nul \notin Text
BY DEF Minus, Nul, Other, Chars, Digit, Text

(* A text stored from byte i on is there, and nothing else has changed.    *)
LEMMA StoredIs ==
  ASSUME NEW m \in Memory, NEW i \in Nat, NEW s \in Seq(Chars)
  PROVE  /\ StoreText(m, i, s) \in Memory
         /\ \A b \in Bytes : b < i \/ b >= i + Len(s) =>
                               StoreText(m, i, s)[b] = m[b]
         /\ \A k \in 1..Len(s) : i + k - 1 \in Bytes =>
                                   StoreText(m, i, s)[i + k - 1] = s[k]
<1> DEFINE f == [b \in Bytes |-> IF b - i \in 0..(Len(s) - 1)
                                 THEN s[b - i + 1] ELSE m[b]]
<1>1. Len(s) \in Nat /\ \A k \in 1..Len(s) : s[k] \in Chars
  OBVIOUS
<1>2. \A b \in Bytes : b \in Nat /\ m[b] \in Chars
  BY ConstantsAssumption DEF Bytes, Memory
<1>3. ASSUME NEW b \in Bytes
      PROVE  /\ f[b] \in Chars
             /\ b < i \/ b >= i + Len(s) => f[b] = m[b]
  BY <1>1, <1>2
<1>4. ASSUME NEW k \in 1..Len(s), i + k - 1 \in Bytes
      PROVE  f[i + k - 1] = s[k]
  <2>1. (i + k - 1) - i = k - 1 /\ (k - 1) + 1 = k /\ k - 1 \in 0..(Len(s) - 1)
    BY <1>1
  <2>. QED
    BY <1>4, <2>1
<1>5. f \in Memory
  <2> SUFFICES \A b \in Bytes : (IF b - i \in 0..(Len(s) - 1)
                                 THEN s[b - i + 1] ELSE m[b]) \in Chars
    BY DEF Memory
  <2>. QED
    BY <1>1, <1>2
<1>6. StoreText(m, i, s) = f
  BY DEF StoreText
<1> HIDE DEF f
<1>. QED
  BY <1>3, <1>4, <1>5, <1>6

(* A memory holds the characters of a text.                                *)
HoldsIn(m, s) ==
  Len(s) <= Capacity + 1 /\ \A k \in 1..Len(s) : m[k - 1] = s[k]

(* Then its first bytes are the text.                                      *)
LEMMA HoldsIs ==
  ASSUME NEW m, NEW s, s \in Seq(Chars), HoldsIn(m, s)
  PROVE  Len(s) <= Capacity + 1 /\ [k \in 1..Len(s) |-> m[k - 1]] = s
<1>1. s = [k \in 1..Len(s) |-> s[k]]
  OBVIOUS
<1>2. \A k \in 1..Len(s) : m[k - 1] = s[k]
  BY DEF HoldsIn
<1>3. [k \in 1..Len(s) |-> m[k - 1]] = [k \in 1..Len(s) |-> s[k]]
  BY <1>2, Zenon
<1>. QED
  BY <1>1, <1>3, Zenon DEF HoldsIn

-----------------------------------------------------------------------------
(* wtoa *)

(* The arguments wtoa is called with.                                      *)
WtoaCall(num, places) ==
  \/ places = count_places(num)
  \/ num \in Demo /\ places = count_places(INTEGER_MAX)

(* There is room for the numeral and the NUL; INTEGER_MIN has no NUL.      *)
LEMMA WtoaRoom ==
  ASSUME NEW num \in Integer, NEW places, WtoaCall(num, places)
  PROVE  /\ places \in Nat
         /\ num # INTEGER_MIN => Len(Numeral(num)) <= places
         /\ num = INTEGER_MIN => Len(Numeral(num)) <= places + 1
<1>1. /\ INTEGER_MAX \in Integer /\ num \in Int /\ INTEGER_MAX \in Int
      /\ INTEGER_MIN < 0 /\ INTEGER_MIN \in Int /\ 0 \in Int /\ INTEGER_MAX \in Nat
      /\ -INTEGER_MIN = INTEGER_MAX + 1
  BY IntegerIs
<1>2. /\ Len(Numeral(num)) \in Nat /\ Len(Numeral(INTEGER_MAX)) \in Nat
      /\ count_places(num) = Len(Numeral(num))
      /\ count_places(INTEGER_MAX) = Len(Numeral(INTEGER_MAX))
  <2>1. Numeral(num) \in Seq(Text) /\ Numeral(INTEGER_MAX) \in Seq(Text)
    BY <1>1, NumeralIs
  <2>2. Len(Numeral(num)) \in Nat /\ Len(Numeral(INTEGER_MAX)) \in Nat
    BY <2>1
  <2>. QED
    BY <1>1, <2>2, CountPlacesIs
<1>3. CASE places = count_places(num)
  BY <1>2, <1>3
<1>4. CASE num \in Demo /\ places = count_places(INTEGER_MAX)
  <2>1. Len(Numeral(INTEGER_MAX)) = Width(INTEGER_MAX) /\ Width(INTEGER_MAX) >= 1
    <3>1. Width(INTEGER_MAX) \in Nat /\ Width(INTEGER_MAX) >= 1
          /\ Len(Numeral(INTEGER_MAX))
               = Width(INTEGER_MAX) + IF INTEGER_MAX < 0 THEN 1 ELSE 0
      BY <1>1, NumeralIs
    <3>. QED
      BY <1>1, <3>1
  <2>2. CASE num = INTEGER_MAX
    BY <1>1, <1>2, <1>4, <2>2
  <2>3. CASE num = INTEGER_MIN
    <3>1. Abs(INTEGER_MIN) = INTEGER_MAX + 1 /\ Abs(INTEGER_MAX) = INTEGER_MAX
      BY <1>1 DEF Abs
    <3>2. Width(INTEGER_MIN) = Width(INTEGER_MAX)
      BY <3>1, ExtremesAreAsLong DEF Width
    <3>3. Len(Numeral(INTEGER_MIN)) = Width(INTEGER_MIN) + 1
      <4>1. Len(Numeral(INTEGER_MIN))
              = Width(INTEGER_MIN) + IF INTEGER_MIN < 0 THEN 1 ELSE 0
        BY <1>1, NumeralIs
      <4>. QED
        BY <1>1, <4>1
    <3>. QED
      BY <1>2, <1>4, <2>1, <2>3, <3>2, <3>3
  <2>4. CASE num = 0
    <3>1. Len(Numeral(0)) = 1
      <4>1. Abs(0) = 0 /\ ~(0 < 0)
        BY DEF Abs
      <4>2. Numeral(0) = NumSeq[Abs(0)]
        BY <1>1, <4>1, NumeralIs
      <4>3. Len(NumSeq[0]) = 1
        BY NumLen
      <4>. QED
        BY <4>1, <4>2, <4>3
    <3>. QED
      BY <1>1, <1>2, <1>4, <2>1, <2>4, <3>1
  <2>. QED
    BY <1>4, <2>2, <2>3, <2>4 DEF Demo
<1>. QED
  BY <1>3, <1>4 DEF WtoaCall

(* What a call of wtoa that returns a text has stored.                     *)
WtoaStored(num) ==
  IF num = INTEGER_MIN THEN Numeral(num) ELSE Append(Numeral(num), Nul)
(* It fits into the len bytes, and nothing else is stored.                 *)
LEMMA WtoaStores ==
  ASSUME NEW num \in Integer, NEW places, NEW len \in 1..Capacity,
         WtoaCall(num, places), wtoa(num, places, len)
  PROVE  /\ call' = [fn |-> "wtoa", num |-> num, n |-> len, ret |-> call'.ret]
         /\ call'.ret \in BOOLEAN
         /\ ~call'.ret => mem' = mem
         /\ call'.ret => mem' = StoreText(mem, 0, WtoaStored(num))
         /\ call'.ret => Len(WtoaStored(num)) <= len
         /\ WtoaStored(num) \in Seq(Chars)
         /\ UNCHANGED value
<1> DEFINE s == IF num = INTEGER_MIN THEN STR_INTEGER_MIN
                ELSE Append(WtoaText(num), Nul)
           fits == WtoaFits(places, len)
<1>1. s = WtoaStored(num)
  BY WtoaTextIs, Zenon DEF WtoaStored
<1>2. /\ mem' = IF fits THEN StoreText(mem, 0, s) ELSE mem
      /\ call' = [fn |-> "wtoa", num |-> num, n |-> len, ret |-> fits]
      /\ UNCHANGED value
  BY Zenon DEF wtoa
<1>3. fits \in BOOLEAN /\ (fits <=> places <= len - 1)
  BY DEF WtoaFits
<1>4. num \in Int /\ Capacity \in Nat
  BY IntegerIs, ConstantsAssumption
<1> DEFINE t == Numeral(num)
<1>5. t \in Seq(Chars)
  <2>1. t \in Seq(Text)
    BY <1>4, NumeralIs
  <2>2. Text \subseteq Chars
    BY CharsAre
  <2> HIDE DEF t
  <2>. QED
    BY <2>1, <2>2
<1>6. /\ places \in Nat
      /\ num # INTEGER_MIN => Len(t) <= places
      /\ num = INTEGER_MIN => Len(t) <= places + 1
  BY WtoaRoom
<1> HIDE DEF t
<1>7. Append(t, Nul) \in Seq(Chars) /\ Len(Append(t, Nul)) = Len(t) + 1 /\ Len(t) \in Nat
  BY <1>5, CharsAre
<1>8. WtoaStored(num) = IF num = INTEGER_MIN THEN t ELSE Append(t, Nul)
  BY DEF WtoaStored, t
<1>9. WtoaStored(num) \in Seq(Chars)
  BY <1>5, <1>7, <1>8, Zenon
<1>10. fits => Len(WtoaStored(num)) <= len
  <2>1. CASE num = INTEGER_MIN
    BY <1>3, <1>6, <1>7, <1>8, <2>1
  <2>2. CASE num # INTEGER_MIN
    BY <1>3, <1>6, <1>7, <1>8, <2>2
  <2>. QED
    BY <2>1, <2>2
<1> HIDE DEF fits, s
<1>11. call'.ret = fits
  BY <1>2, Zenon
<1>12. call' = [fn |-> "wtoa", num |-> num, n |-> len, ret |-> call'.ret]
  BY <1>2, <1>11, Zenon
<1>. QED
  BY <1>1, <1>2, <1>3, <1>9, <1>10, <1>11, <1>12, Zenon

-----------------------------------------------------------------------------
(* itostr *)

SignLen(num) == IF num < 0 THEN 1 ELSE 0
Kept(num, n) == IF Width(num) < n - 1 THEN Width(num) ELSE n - 1
Signed(m, num) == IF num < 0 THEN Store(m, 0, Minus) ELSE m
Signs == -9..9

(* The lowest digits, read backwards, are the end of the numeral.          *)
LEMMA TailTurned ==
  ASSUME NEW s \in Seq(Digit), NEW t \in Seq(Digit), Mirror(s, t),
         NEW k \in 1..Len(t)
  PROVE  strreverse(SubSeq(s, 1, k)) = SubSeq(t, Len(t) - k + 1, Len(t))
<1>1. Len(s) = Len(t) /\ \A i \in 1..Len(t) : s[Len(t) + 1 - i] = t[i]
  BY DEF Mirror
<1>2. Len(t) \in Nat /\ k \in Nat /\ Len(t) - k + 1 \in 1..Len(t)
  OBVIOUS
<1> DEFINE a == SubSeq(s, 1, k)
           from == Len(t) - k + 1
           b == SubSeq(t, from, Len(t))
<1>3. a \in Seq(Digit) /\ Len(a) = k /\ \A i \in 1..k : a[i] = s[i]
  BY <1>1, <1>2
<1>4. b \in Seq(Digit) /\ Len(b) = k /\ \A i \in 1..k : b[i] = t[from + i - 1]
  <2>1. b \in Seq(Digit)
    BY <1>2
  <2>2. Len(b) = k
    BY <1>2
  <2>3. \A i \in 1..k : b[i] = t[from + i - 1]
    BY <1>2
  <2>. QED
    BY <2>1, <2>2, <2>3
<1> HIDE DEF a, b
<1>5. ASSUME NEW i \in 1..k PROVE a[Len(a) + 1 - i] = b[i]
  <2>1. k + 1 - i \in 1..k /\ from + i - 1 \in 1..Len(t)
        /\ Len(t) + 1 - (from + i - 1) = k + 1 - i
    BY <1>2
  <2>2. a[k + 1 - i] = s[k + 1 - i] /\ b[i] = t[from + i - 1]
    BY <1>3, <1>4, <2>1
  <2>3. s[Len(t) + 1 - (from + i - 1)] = t[from + i - 1]
    BY <1>1, <2>1
  <2> HIDE DEF from
  <2>. QED
    BY <1>3, <2>1, <2>2, <2>3
<1>6. strreverse(a) = [i \in 1..k |-> a[Len(a) + 1 - i]]
  BY <1>3 DEF strreverse
<1>7. b = [i \in 1..k |-> b[i]]
  BY <1>4
<1>8. strreverse(a) = b
  BY <1>5, <1>6, <1>7
<1>. QED
  BY <1>8 DEF a, b

(* The remainders of num are as many as its digits; of a number that is    *)
(* not negative they are its digits.                                       *)
LEMMA RemaindersAre ==
  ASSUME NEW num \in Integer, num # 0,
         NEW v \in IF num < 0 THEN Negated(num) ELSE {num}
  PROVE  /\ Remainders(v) \in Seq(Signs) /\ Len(Remainders(v)) = Width(num)
         /\ num # INTEGER_MIN => Remainders(v) = LowSeq[Abs(num)]
<1>1. /\ num \in Int /\ Abs(num) \in Nat /\ Abs(num) # 0 /\ INTEGER_MIN \in Int
      /\ INTEGER_MIN < 0
      /\ (num < 0 => Abs(num) = -num) /\ (~(num < 0) => Abs(num) = num)
  BY IntegerIs DEF Abs
<1> DEFINE low == LowSeq[Abs(num)]
<1>2. low \in Seq(Digit) /\ Len(low) = Width(num)
  BY <1>1, LowTurned DEF Width
<1>3. low \in Seq(Signs)
  <2>1. \A d \in Digit : d \in Signs
    BY DEF Digit, Signs
  <2> HIDE DEF low
  <2>. QED
    BY <1>2, <2>1
<1>4. CASE v = Abs(num)
  <2>1. ~(v < 0)
    BY <1>1, <1>4
  <2>2. Remainders(v) = low
    BY <1>4, <2>1, DigitsAre, Zenon DEF Remainders
  <2>. QED
    BY <1>2, <1>3, <2>2
<1>5. CASE v # Abs(num)
  <2>1. num = INTEGER_MIN /\ v = INTEGER_MIN
    BY <1>1, <1>5 DEF Negated
  <2>2. v < 0 /\ -v = Abs(num)
    BY <1>1, <2>1
  <2>3. Remainders(v) = [i \in 1..Len(low) |-> -low[i]]
    BY <2>2, DigitsAre DEF Remainders
  <2> HIDE DEF low
  <2>4. [i \in 1..Len(low) |-> -low[i]] \in Seq(Signs)
    <3>1. \A i \in 1..Len(low) : -low[i] \in Signs
      <4>1. \A d \in Digit : -d \in Signs
        BY DEF Digit, Signs
      <4>2. \A i \in 1..Len(low) : low[i] \in Digit
        BY <1>2
      <4>. QED
        BY <4>1, <4>2
    <3>2. Len(low) \in Nat
      BY <1>2
    <3>. QED
      BY <3>1, <3>2
  <2>5. Len([i \in 1..Len(low) |-> -low[i]]) = Len(low)
    BY <1>2
  <2>. QED
    BY <1>2, <2>1, <2>3, <2>4, <2>5
<1>. QED
  BY <1>4, <1>5

(* The text itostr stores: as many digits as fit, the lowest.              *)
ItostrText(num, n, s) ==
  /\ s \in Seq(Signs) /\ Len(s) = Kept(num, n)
  /\ num # INTEGER_MIN =>
       s = SubSeq(NumSeq[Abs(num)], Width(num) - Kept(num, n) + 1, Width(num))
(* A call with room for more than the NUL stores one.                      *)
LEMMA ItostrStores ==
  ASSUME NEW num \in Integer, NEW n \in 1..Capacity, n > 1, itostr(num, n)
  PROVE  \E s : /\ ItostrText(num, n, s)
                /\ mem' = StoreText(Signed(mem, num), SignLen(num), Append(s, Nul))
<1> DEFINE start == IF num < 0 THEN 1 ELSE 0
           all(v) == Remainders(v)
           k(v) == IF Len(all(v)) < DigitRoom(n) THEN Len(all(v)) ELSE DigitRoom(n)
           s(v) == IF num = 0 THEN <<0>> ELSE strreverse(SubSeq(all(v), 1, k(v)))
           m == IF num < 0 THEN Store(mem, 0, Minus) ELSE mem
<1>1. num \in Int /\ Abs(num) \in Nat /\ n \in Nat /\ n - 1 >= 1 /\ ~(n - 1 < 1)
  BY IntegerIs, ConstantsAssumption
<1>2. PICK v \in IF num < 0 THEN Negated(num) ELSE {num} :
        mem' = IF n - 1 < 1 THEN mem ELSE StoreText(m, start, Append(s(v), Nul))
  BY Zenon DEF itostr
<1>3. mem' = StoreText(Signed(mem, num), SignLen(num), Append(s(v), Nul))
  BY <1>1, <1>2, Zenon DEF Signed, SignLen
<1>4. Width(num) \in Nat /\ Width(num) >= 1 /\ NumSeq[Abs(num)] \in Seq(Digit)
      /\ Width(num) = Len(NumSeq[Abs(num)])
  BY <1>1, NumeralIs DEF Width
<1>5. Kept(num, n) \in 1..Width(num)
  BY <1>1, <1>4 DEF Kept
<1>6. ItostrText(num, n, s(v))
  <2>1. CASE num = 0
    <3>1. Abs(num) = 0 /\ NumSeq[0] = <<0>>
      BY <2>1, NumIs DEF Abs
    <3>2. Width(num) = 1
      BY <3>1 DEF Width
    <3>3. Kept(num, n) = 1
      BY <1>5, <3>2
    <3>4. s(v) = <<0>>
      BY <2>1
    <3>5. <<0>> \in Seq(Signs) /\ Len(<<0>>) = 1 /\ SubSeq(<<0>>, 1 - 1 + 1, 1) = <<0>>
      <4>1. <<0>> \in Seq(Signs) /\ Len(<<0>>) = 1
        BY DEF Signs
      <4>2. SubSeq(<<0>>, 1, 1) = <<0>>
        BY <4>1, SubSeqFull
      <4>3. 1 - 1 + 1 = 1
        OBVIOUS
      <4>. QED
        BY <4>1, <4>2, <4>3, Zenon
    <3> HIDE DEF s
    <3>. QED
      BY <3>1, <3>2, <3>3, <3>4, <3>5 DEF ItostrText
  <2>2. CASE num # 0
    <3> DEFINE r == Remainders(v)
               c == Kept(num, n)
    <3>1. /\ r \in Seq(Signs) /\ Len(r) = Width(num)
          /\ num # INTEGER_MIN => r = LowSeq[Abs(num)]
      BY <2>2, RemaindersAre
    <3>2. k(v) = c
      BY <3>1 DEF Kept, DigitRoom
    <3>3. s(v) = strreverse(SubSeq(r, 1, c))
      BY <2>2, <3>2, Zenon
    <3> HIDE DEF s, r, c, k
    <3>4. SubSeq(r, 1, c) \in Seq(Signs) /\ Len(SubSeq(r, 1, c)) = c
      BY <1>4, <1>5, <3>1 DEF c
    <3> DEFINE q == SubSeq(r, 1, c)
    <3>5. strreverse(q) \in Seq(Signs) /\ Len(strreverse(q)) = c
      <4>1. q \in Seq(Signs) /\ Len(q) = c /\ c \in Nat
        BY <1>5, <3>4 DEF c
      <4> HIDE DEF q
      <4>2. \A i \in 1..Len(q) : q[Len(q) + 1 - i] \in Signs
        BY <4>1
      <4>3. [i \in 1..Len(q) |-> q[Len(q) + 1 - i]] \in Seq(Signs)
        BY <4>1, <4>2
      <4>4. Len([i \in 1..Len(q) |-> q[Len(q) + 1 - i]]) = c
        BY <4>1
      <4>. QED
        BY <4>3, <4>4, Zenon DEF strreverse
    <3>6. num # INTEGER_MIN =>
            strreverse(q) = SubSeq(NumSeq[Abs(num)], Width(num) - c + 1, Width(num))
      <4> SUFFICES ASSUME num # INTEGER_MIN
                   PROVE  strreverse(q)
                            = SubSeq(NumSeq[Abs(num)], Width(num) - c + 1, Width(num))
        OBVIOUS
      <4>1. Abs(num) # 0 /\ r = LowSeq[Abs(num)]
        BY <1>1, <2>2, <3>1 DEF Abs
      <4>2. LowSeq[Abs(num)] \in Seq(Digit)
        BY <1>1, LowIs
      <4>3. Mirror(LowSeq[Abs(num)], NumSeq[Abs(num)])
        BY <1>1, <4>1, LowMirrorsNum
      <4> DEFINE t == NumSeq[Abs(num)]
      <4>4. c \in 1..Len(t) /\ Len(t) = Width(num) /\ t \in Seq(Digit)
        BY <1>4, <1>5 DEF c
      <4>5. strreverse(SubSeq(LowSeq[Abs(num)], 1, c)) = SubSeq(t, Len(t) - c + 1, Len(t))
        BY <4>2, <4>3, <4>4, TailTurned
      <4> HIDE DEF t
      <4>. QED
        BY <4>1, <4>4, <4>5 DEF t
    <3>. QED
      BY <3>3, <3>5, <3>6 DEF ItostrText, c
  <2>. QED
    BY <2>1, <2>2
<1>. QED
  BY <1>3, <1>6

-----------------------------------------------------------------------------
(* strtoi *)

Reading(m, n) ==
  CHOOSE f : f = [i \in 0..n |-> IF i <= Sign(m) THEN 0
                                 ELSE Wrap(f[i - 1] * 10 + m[i - 1])]
Digital(m, n) == \A i \in Sign(m)..(n - 1) : m[i] \in 0..9

(* What a call of strtoi does.                                             *)
LEMMA StrtoiIs ==
  ASSUME NEW n, strtoi(n)
  PROVE  /\ value' = IF ~Digital(mem, n) THEN value
                     ELSE IF Sign(mem) = 1 THEN Wrap(0 - Reading(mem, n)[n])
                     ELSE Reading(mem, n)[n]
         /\ call' = [fn |-> "strtoi", num |-> 0, n |-> n, ret |-> Digital(mem, n)]
         /\ UNCHANGED mem
BY DEF strtoi, Reading, Digital

(* The number read so far.                                                 *)
LEMMA ReadingIs ==
  ASSUME NEW m \in Memory, NEW n \in 0..Capacity
  PROVE  /\ Reading(m, n) \in [0..n -> Integer]
         /\ \A i \in 0..n : Reading(m, n)[i]
                              = IF i <= Sign(m) THEN 0
                                ELSE Wrap(Reading(m, n)[i - 1] * 10 + m[i - 1])
<1> DEFINE Upto == 0..n
           Rec(f) == [i \in Upto |-> IF i <= Sign(m) THEN 0
                                     ELSE Wrap(f[i - 1] * 10 + m[i - 1])]
           w == [i \in Upto |-> i]
           stop == {i \in Upto : i <= Sign(m)}
           next == [i \in Upto |-> i - 1]
           base == [i \in Upto |-> 0]
           G == [i \in Upto |-> [v \in Integer |-> Wrap(v * 10 + m[i - 1])]]
<1>1. n \in Nat /\ Sign(m) \in 0..1 /\ Capacity \in Nat
  BY ConstantsAssumption DEF Sign
<1>2. ASSUME NEW i \in Upto, ~(i <= Sign(m))
      PROVE  i - 1 \in Upto /\ i \in Nat /\ i - 1 < i /\ m[i - 1] \in Int
  <2>1. i - 1 \in Upto /\ i - 1 \in Bytes /\ i \in Nat /\ i - 1 < i
    BY <1>1, <1>2 DEF Bytes
  <2>2. m[i - 1] \in Chars
    BY <2>1 DEF Memory
  <2>. QED
    BY <2>1, <2>2, CharsAre
<1>3. Descends(Upto, w, stop, next)
  BY <1>1, <1>2 DEF Descends
<1>4. Maps(Upto, Integer, stop, base, G)
  <2>1. ASSUME NEW i \in Upto, NEW v \in Integer, ~(i <= Sign(m))
        PROVE  Wrap(v * 10 + m[i - 1]) \in Integer
    <3>1. v \in Int /\ m[i - 1] \in Int
      BY <1>2, <2>1, IntegerIs
    <3>2. v * 10 + m[i - 1] \in Int
      BY <3>1
    <3>. QED
      BY <3>2, WrapIs
  <2>2. 0 \in Integer
    BY IntegerIs
  <2>. QED
    BY <2>1, <2>2, Zenon DEF Maps
<1>5. PICK f \in [Upto -> Integer] : Solves(Upto, stop, next, base, G, f, f)
  <2> HIDE DEF Upto, w, stop, next, base, G
  <2>. QED
    BY <1>3, <1>4, RecursionExists
<1>6. ASSUME NEW i \in Upto
      PROVE  f[i] = IF i <= Sign(m) THEN 0 ELSE Wrap(f[i - 1] * 10 + m[i - 1])
  <2>1. f[i] = IF i \in stop THEN base[i] ELSE G[i][f[next[i]]]
    BY <1>5 DEF Solves
  <2>2. CASE i <= Sign(m)
    BY <2>1, <2>2
  <2>3. CASE ~(i <= Sign(m))
    <3>1. i - 1 \in Upto /\ next[i] = i - 1
      BY <1>2, <2>3
    <3>2. f[i - 1] \in Integer
      BY <3>1
    <3>3. G[i][f[i - 1]] = Wrap(f[i - 1] * 10 + m[i - 1])
      BY <3>2
    <3>4. i \notin stop
      BY <2>3
    <3> HIDE DEF G, next, base, stop
    <3>. QED
      BY <2>1, <2>3, <3>1, <3>3, <3>4
  <2>. QED
    BY <2>2, <2>3
<1>7. f = Rec(f)
  BY <1>6
<1>8. Reading(m, n) = CHOOSE g : g = Rec(g)
  BY Zenon DEF Reading
<1> HIDE DEF Rec
<1>9. Reading(m, n) = Rec(Reading(m, n))
  BY <1>7, <1>8, Zenon
<1> DEFINE r == Reading(m, n)
<1>10. \A i \in Upto : r[i] = IF i <= Sign(m) THEN 0
                             ELSE Wrap(r[i - 1] * 10 + m[i - 1])
  <2> HIDE DEF r
  <2>1. r = Rec(r)
    BY <1>9 DEF r
  <2>. QED
    BY <2>1 DEF Rec
<1> HIDE DEF r
<1> DEFINE Bad == {i \in Upto : r[i] \notin Integer}
<1>11. ASSUME Bad # {} PROVE FALSE
  <2>1. Bad \in SUBSET Nat
    BY <1>1
  <2>2. PICK i \in Bad : \A k \in Bad : i <= k
    BY <1>11, <2>1, LeastExists
  <2>3. i \in Upto /\ r[i] \notin Integer
    OBVIOUS
  <2>4. ~(i <= Sign(m))
    BY <1>10, <2>3, IntegerIs
  <2>5. i - 1 \in Upto /\ ~(i <= i - 1) /\ m[i - 1] \in Int
    BY <1>2, <2>3, <2>4
  <2>6. r[i - 1] \in Integer
    BY <2>2, <2>5
  <2>7. r[i - 1] * 10 + m[i - 1] \in Int
    <3>1. r[i - 1] \in Int
      BY <2>6, IntegerIs
    <3>. QED
      BY <2>5, <3>1
  <2>8. r[i] = Wrap(r[i - 1] * 10 + m[i - 1])
    BY <1>10, <2>3, <2>4
  <2>. QED
    BY <2>3, <2>7, <2>8, WrapIs
<1>12. r = [i \in Upto |-> r[i]]
  BY <1>9 DEF Rec, r
<1>13. r \in [Upto -> Integer]
  BY <1>11, <1>12
<1>. QED
  BY <1>10, <1>13 DEF r

(* The digits of u stand behind the sign.                                  *)
DigitsAt(m, u) ==
  \A i \in 1..Len(NumSeq[u]) : m[(Sign(m) + i) - 1] = NumSeq[u][i]

(* Then u is read, but for the first number past the largest one, which    *)
(* becomes the smallest.                                                   *)
LEMMA NumberIsRead ==
  ASSUME NEW m \in Memory, NEW n \in 0..Capacity, NEW u \in Nat,
         u <= INTEGER_MAX + 1, Sign(m) + Len(NumSeq[u]) <= n, DigitsAt(m, u)
  PROVE  Reading(m, n)[Sign(m) + Len(NumSeq[u])] = Wrap(u)
<1> DEFINE start == Sign(m)
           r == Reading(m, n)
           Hyp(k) == /\ k <= INTEGER_MAX + 1 /\ start + Len(NumSeq[k]) <= n
                     /\ DigitsAt(m, k)
           Bad == {k \in Nat : Hyp(k) /\ r[start + Len(NumSeq[k])] # Wrap(k)}
<1>1. SUFFICES ASSUME Bad # {} PROVE FALSE
  OBVIOUS
<1>2. PICK k \in Bad : \A j \in Bad : k <= j
  BY <1>1, LeastExists
<1>3. k \in Nat /\ Hyp(k) /\ r[start + Len(NumSeq[k])] # Wrap(k)
  OBVIOUS
<1>4. start \in 0..1 /\ n \in Nat /\ INTEGER_MAX \in Nat
  BY IntegerIs, ConstantsAssumption DEF Sign
<1>5. Len(NumSeq[k]) \in Nat /\ Len(NumSeq[k]) >= 1 /\ NumSeq[k] \in Seq(Digit)
  BY <1>3, NumLen
<1> HIDE DEF Hyp, Bad
<1> DEFINE len == Len(NumSeq[k])
<1>6. start + len \in 0..n /\ ~(start + len <= start) /\ len \in Nat /\ len >= 1
  <2>1. start + len <= n
    BY <1>3 DEF Hyp
  <2> HIDE DEF start, len
  <2>2. len \in Nat /\ len >= 1
    BY <1>5 DEF len
  <2>. QED
    BY <1>4, <2>1, <2>2
<1>7. r[start + len] = Wrap(r[(start + len) - 1] * 10 + m[(start + len) - 1])
  BY <1>6, ReadingIs
<1>8. m[(start + len) - 1] = NumSeq[k][len]
  <2>1. \A i \in 1..len : m[(start + i) - 1] = NumSeq[k][i]
    BY <1>3 DEF Hyp, DigitsAt
  <2>2. len \in 1..len
    BY <1>6
  <2>. QED
    BY <2>1, <2>2, Zenon
<1>9. CASE k < 10
  <2>1. NumSeq[k] = <<k>>
    BY <1>3, <1>9, NumIs
  <2>2. len = 1 /\ NumSeq[k][len] = k
    BY <2>1
  <2>3. (start + len) - 1 = start /\ start \in 0..n
    BY <1>4, <1>6, <2>2
  <2>4. r[start] = 0
    BY <1>4, <2>3, ReadingIs
  <2>5. r[start + len] = Wrap(0 * 10 + k)
    BY <1>7, <1>8, <2>2, <2>3, <2>4
  <2>6. 0 * 10 + k = k
    BY <1>3
  <2>. QED
    BY <1>3, <2>5, <2>6
<1>10. CASE k >= 10
  <2> DEFINE q == k \div 10
             d == k % 10
  <2>1. /\ q \in Nat /\ d \in 0..9 /\ k = 10 * q + d /\ q < k
    BY <1>3, <1>10, DivTen
  <2>2. NumSeq[k] = Append(NumSeq[q], d) /\ NumSeq[q] \in Seq(Digit)
    <3>1. ~(k < 10)
      BY <1>3, <1>10
    <3>2. NumSeq[k] = Append(NumSeq[k \div 10], k % 10)
      BY <1>3, <3>1, NumIs, Zenon
    <3>3. NumSeq[q] \in Seq(Digit)
      BY <2>1, NumIs, Zenon
    <3>. QED
      BY <3>2, <3>3
  <2> HIDE DEF q, d
  <2> DEFINE l == Len(NumSeq[q])
  <2>3. len = l + 1 /\ NumSeq[k][len] = d /\ l \in Nat
        /\ \A i \in 1..l : NumSeq[k][i] = NumSeq[q][i]
    BY <2>1, <2>2
  <2>4. Hyp(q)
    <3>1. k <= INTEGER_MAX + 1 /\ start + len <= n
          /\ \A i \in 1..len : m[(start + i) - 1] = NumSeq[k][i]
      BY <1>3 DEF Hyp, DigitsAt
    <3> HIDE DEF start, len
    <3>2. q <= INTEGER_MAX + 1 /\ start + l <= n
      <4> HIDE DEF l
      <4>. QED
        BY <1>3, <1>4, <2>1, <2>3, <3>1
    <3>3. \A i \in 1..l : m[(start + i) - 1] = NumSeq[q][i]
      <4>1. \A i \in 1..l : i \in 1..len
        <5> HIDE DEF l
        <5>. QED
          BY <2>3
      <4>. QED
        BY <2>3, <3>1, <4>1
    <3>. QED
      BY <3>2, <3>3 DEF Hyp, DigitsAt, start
  <2>5. r[start + l] = Wrap(q)
    <3>1. q \notin Bad
      BY <1>2, <1>3, <2>1
    <3>. QED
      BY <2>1, <2>4, <3>1 DEF Bad
  <2>6. q \in Integer
    <3>1. k <= INTEGER_MAX + 1
      BY <1>3 DEF Hyp
    <3>2. q <= INTEGER_MAX
      BY <1>4, <1>10, <2>1, <3>1
    <3>. QED
      BY <1>4, <2>1, <3>2, IntegerIs DEF Integer
  <2>7. Wrap(q) = q
    BY <2>6, WrapIs
  <2>8. (start + len) - 1 = start + l
    <3> HIDE DEF start, len, l
    <3>. QED
      BY <1>4, <2>3
  <2>9. r[start + len] = Wrap(q * 10 + d)
    BY <1>7, <1>8, <2>3, <2>5, <2>7, <2>8
  <2>10. q * 10 + d = k
    BY <2>1
  <2>. QED
    BY <1>3, <2>9, <2>10
<1>. QED
  BY <1>3, <1>9, <1>10

-----------------------------------------------------------------------------
(* The calls *)

(* The arguments are of the types of the code.                             *)
LEMMA ArgumentsAre ==
  /\ Nums \subseteq Integer /\ Capacity \in Nat /\ Bytes = 0..Capacity
  /\ \A n \in 1..Capacity : n \in Nat /\ n >= 1 /\ n \in 0..Capacity /\ n \in Bytes
BY ConstantsAssumption DEF Nums, Bytes

LastOf(fn, num, n) ==
  /\ call'.fn = fn /\ call'.num = num /\ call'.n = n /\ call'.ret \in BOOLEAN

(* A call of wtoa.                                                         *)
LEMMA WtoaStep ==
  ASSUME TypeOK, NEW num \in Nums, NEW places, NEW len \in 1..Capacity,
         WtoaCall(num, places), wtoa(num, places, len)
  PROVE  /\ LastOf("wtoa", num, len)
         /\ mem' \in Memory /\ value' = value
         /\ WtoaExact' /\ WtoaInBounds
<1> DEFINE s == WtoaStored(num)
<1>1. num \in Integer /\ num \in Int /\ len \in Nat /\ Capacity \in Nat /\ len <= Capacity
      /\ mem \in Memory
  BY ArgumentsAre, IntegerIs DEF TypeOK, Memory
<1>2. /\ call' = [fn |-> "wtoa", num |-> num, n |-> len, ret |-> call'.ret]
      /\ call'.ret \in BOOLEAN
      /\ ~call'.ret => mem' = mem
      /\ call'.ret => mem' = StoreText(mem, 0, s)
      /\ call'.ret => Len(s) <= len
      /\ s \in Seq(Chars)
      /\ value' = value
  BY <1>1, WtoaStores
<1>3. LastOf("wtoa", num, len)
  <2> DEFINE r == call'.ret
  <2> HIDE DEF r
  <2>1. call' = [fn |-> "wtoa", num |-> num, n |-> len, ret |-> r]
    BY <1>2, Zenon DEF r
  <2>2. call'.fn = "wtoa" /\ call'.num = num /\ call'.n = len
    BY <2>1, Zenon
  <2>. QED
    BY <1>2, <2>2, Zenon DEF LastOf
<1> HIDE DEF s
<1> DEFINE m == StoreText(mem, 0, s)
<1>4. /\ m \in Memory
      /\ \A b \in Bytes : b < 0 \/ b >= 0 + Len(s) => m[b] = mem[b]
      /\ \A k \in 1..Len(s) : 0 + k - 1 \in Bytes => m[0 + k - 1] = s[k]
  <2>1. 0 \in Nat
    OBVIOUS
  <2>. QED
    BY <1>1, <1>2, <2>1, StoredIs, Zenon
<1> HIDE DEF m
<1>5. mem' \in Memory
  BY <1>1, <1>2, <1>4, Zenon DEF m
<1>6. call'.ret => HoldsIn(mem', s)
  <2>1. SUFFICES ASSUME call'.ret PROVE HoldsIn(mem', s)
    OBVIOUS
  <2>2. mem' = m /\ Len(s) <= len /\ Len(s) \in Nat
    BY <1>2, <2>1 DEF m
  <2>3. ASSUME NEW k \in 1..Len(s) PROVE m[k - 1] = s[k]
    <3>1. 0 + k - 1 = k - 1 /\ k - 1 \in Bytes
      BY <1>1, <2>2, ArgumentsAre
    <3>. QED
      BY <1>4, <3>1
  <2>4. Len(s) <= Capacity + 1
    BY <1>1, <2>2
  <2>. QED
    BY <2>2, <2>3, <2>4 DEF HoldsIn
<1>7. call'.ret => /\ Len(s) <= Capacity + 1
                   /\ [k \in 1..Len(s) |-> mem'[k - 1]] = s
  BY <1>2, <1>6, HoldsIs, Zenon
<1>8. WtoaExact'
  <2>1. call'.num = num
    BY <1>3 DEF LastOf
  <2>2. s = IF num = INTEGER_MIN THEN Numeral(num) ELSE Append(Numeral(num), Nul)
    BY DEF s, WtoaStored
  <2>3. CASE num = INTEGER_MIN
    BY <1>7, <2>1, <2>2, <2>3, Zenon DEF WtoaExact, Holds, Bytes0
  <2>4. CASE num # INTEGER_MIN
    BY <1>7, <2>1, <2>2, <2>4, Zenon DEF WtoaExact, HoldsString, Holds, Bytes0
  <2>. QED
    BY <2>3, <2>4
<1>9. WtoaInBounds
  <2>1. SUFFICES ASSUME NEW b \in Bytes, b >= len PROVE mem'[b] = mem[b]
    BY <1>3 DEF WtoaInBounds, Unchanged, LastOf
  <2>2. CASE call'.ret
    <3>1. mem' = m /\ Len(s) <= len /\ Len(s) \in Nat
      BY <1>2, <2>2 DEF m
    <3>2. b >= 0 + Len(s)
      BY <1>1, <2>1, <3>1, ArgumentsAre
    <3>. QED
      BY <1>4, <3>1, <3>2
  <2>3. CASE ~call'.ret
    BY <1>2, <2>3
  <2>. QED
    BY <2>2, <2>3
<1>. QED
  BY <1>2, <1>3, <1>5, <1>8, <1>9

(* A text with its sign and its NUL.                                       *)
SignText(num) == IF num < 0 THEN <<Minus>> ELSE <<>>
(* Its characters are the '-', those of s and the NUL.                     *)
LEMMA SignedTextIs ==
  ASSUME NEW num \in Int, NEW s \in Seq(Chars)
  PROVE  /\ Append(SignText(num) \o s, Nul) \in Seq(Chars)
         /\ Len(Append(SignText(num) \o s, Nul)) = SignLen(num) + Len(s) + 1
         /\ \A k \in 1..(SignLen(num) + Len(s) + 1) :
              Append(SignText(num) \o s, Nul)[k]
                = IF k <= SignLen(num) THEN Minus ELSE Append(s, Nul)[k - SignLen(num)]
<1>1. Minus \in Chars /\ Nul \in Chars /\ Len(s) \in Nat
  BY CharsAre
<1>2. CASE num < 0
  <2>1. SignText(num) = <<Minus>> /\ SignLen(num) = 1
    BY <1>2 DEF SignText, SignLen
  <2> DEFINE t == <<Minus>> \o s
  <2>2. t \in Seq(Chars) /\ Len(t) = Len(s) + 1 /\ t[1] = Minus
    BY <1>1
  <2>3. \A k \in 1..Len(s) : t[k + 1] = s[k]
    BY <1>1
  <2> HIDE DEF t
  <2>4. Append(t, Nul) \in Seq(Chars) /\ Len(Append(t, Nul)) = Len(s) + 2
    BY <1>1, <2>2
  <2>5. ASSUME NEW k \in 1..(Len(s) + 2)
        PROVE  Append(t, Nul)[k] = IF k <= 1 THEN Minus ELSE Append(s, Nul)[k - 1]
    <3>1. CASE k = 1
      BY <1>1, <2>2, <3>1
    <3>2. CASE k = Len(s) + 2
      BY <1>1, <2>2, <3>2
    <3>3. CASE k # 1 /\ k # Len(s) + 2
      <4>1. k - 1 \in 1..Len(s) /\ (k - 1) + 1 = k /\ k \in 1..Len(t) /\ ~(k <= 1)
        BY <1>1, <2>2, <3>3
      <4>2. Append(t, Nul)[k] = t[k] /\ Append(s, Nul)[k - 1] = s[k - 1]
        BY <1>1, <2>2, <4>1
      <4>3. t[(k - 1) + 1] = s[k - 1]
        BY <2>3, <4>1
      <4>. QED
        BY <4>1, <4>2, <4>3
    <3>. QED
      BY <3>1, <3>2, <3>3
  <2>6. 1 + Len(s) + 1 = Len(s) + 2
    BY <1>1
  <2>. QED
    BY <2>1, <2>4, <2>5, <2>6 DEF t
<1>3. CASE ~(num < 0)
  <2>1. SignText(num) = <<>> /\ SignLen(num) = 0
    BY <1>3 DEF SignText, SignLen
  <2>2. <<>> \o s = s
    OBVIOUS
  <2>3. Append(s, Nul) \in Seq(Chars) /\ Len(Append(s, Nul)) = Len(s) + 1
    BY <1>1
  <2>4. \A k \in 1..(Len(s) + 1) : ~(k <= 0) /\ k - 0 = k
    BY <1>1
  <2>5. 0 + Len(s) + 1 = Len(s) + 1
    BY <1>1
  <2>. QED
    BY <2>1, <2>2, <2>3, <2>4, <2>5
<1>. QED
  BY <1>2, <1>3

(* The memory behind such a text.                                          *)
LEMMA ItostrMemory ==
  ASSUME NEW m \in Memory, NEW num \in Int, NEW s \in Seq(Signs),
         SignLen(num) + Len(s) <= Capacity
  PROVE  LET m2 == StoreText(Signed(m, num), SignLen(num), Append(s, Nul))
         IN /\ m2 \in Memory
            /\ HoldsIn(m2, Append(SignText(num) \o s, Nul))
            /\ m2[SignLen(num) + Len(s)] = Nul
            /\ \A b \in Bytes : b > SignLen(num) + Len(s) => m2[b] = m[b]
<1> DEFINE m1 == Signed(m, num)
           a == Append(s, Nul)
           l == SignLen(num)
           m2 == StoreText(m1, l, a)
           t == Append(SignText(num) \o s, Nul)
<1>1. l \in 0..1 /\ Capacity \in Nat /\ Minus \in Chars /\ Nul \in Chars
  BY ArgumentsAre, CharsAre DEF SignLen
<1>2. s \in Seq(Chars) /\ Len(s) \in Nat
  <2>1. \A d \in Signs : d \in Chars
    BY DEF Signs, Chars
  <2>. QED
    BY <2>1
<1>3. m1 \in Memory /\ \A b \in Bytes : b >= 1 => m1[b] = m[b]
  <2>1. CASE num < 0
    <3>1. m1 = [m EXCEPT ![0] = Minus]
      BY <2>1 DEF Signed, Store
    <3>2. m \in [Bytes -> Chars] /\ \A b \in Bytes : b >= 1 => b # 0
      BY ArgumentsAre DEF Memory
    <3> HIDE DEF m1
    <3>3. m1 \in [Bytes -> Chars]
      BY <1>1, <3>1, <3>2, Zenon
    <3>. QED
      BY <3>1, <3>2, <3>3 DEF Memory
  <2>2. CASE ~(num < 0)
    BY <2>2 DEF Signed
  <2>. QED
    BY <2>1, <2>2
<1>4. l = 1 => m1[0] = Minus
  <2>1. 0 \in Bytes
    BY <1>1, ArgumentsAre
  <2>. QED
    BY <2>1 DEF SignLen, Signed, Store, Memory
<1>5. a \in Seq(Chars) /\ Len(a) = Len(s) + 1 /\ a[Len(s) + 1] = Nul
  BY <1>1, <1>2
<1> HIDE DEF m1, a, l
<1>6. /\ m2 \in Memory
      /\ \A b \in Bytes : b < l \/ b >= l + Len(a) => m2[b] = m1[b]
      /\ \A k \in 1..Len(a) : l + k - 1 \in Bytes => m2[l + k - 1] = a[k]
  <2>1. l \in Nat
    BY <1>1
  <2>. QED
    BY <1>3, <1>5, <2>1, StoredIs, Zenon
<1> HIDE DEF m2
<1>7. l + Len(s) <= Capacity
  BY DEF l
<1>8. ASSUME NEW b \in Bytes, b > l + Len(s) PROVE m2[b] = m[b]
  <2>1. b >= l + Len(a) /\ b >= 1
    BY <1>1, <1>2, <1>5, <1>8, ArgumentsAre
  <2>. QED
    BY <1>3, <1>6, <2>1
<1>9. ASSUME NEW k \in 1..Len(a) PROVE m2[l + k - 1] = a[k]
  <2>1. l + k - 1 \in Bytes
    BY <1>1, <1>2, <1>5, <1>7, ArgumentsAre
  <2>. QED
    BY <1>6, <2>1
<1>10. m2[l + Len(s)] = Nul
  <2>1. Len(s) + 1 \in 1..Len(a) /\ l + (Len(s) + 1) - 1 = l + Len(s)
    BY <1>1, <1>2, <1>5
  <2>. QED
    BY <1>5, <1>9, <2>1
<1>11. /\ Len(t) = l + Len(s) + 1
       /\ \A k \in 1..(l + Len(s) + 1) : t[k] = IF k <= l THEN Minus ELSE a[k - l]
  BY <1>2, SignedTextIs DEF l, a
<1> HIDE DEF t
<1>12. HoldsIn(m2, t)
  <2>1. Len(t) <= Capacity + 1
    BY <1>1, <1>2, <1>7, <1>11
  <2>2. ASSUME NEW k \in 1..Len(t) PROVE m2[k - 1] = t[k]
    <3>1. CASE k <= l
      <4>1. k = 1 /\ l = 1 /\ k - 1 = 0 /\ 0 \in Bytes
        BY <1>1, <3>1, ArgumentsAre
      <4>2. m2[0] = m1[0]
        BY <1>6, <4>1
      <4>. QED
        BY <1>4, <1>11, <3>1, <4>1, <4>2
    <3>2. CASE ~(k <= l)
      <4>1. k - l \in 1..Len(a) /\ l + (k - l) - 1 = k - 1
        BY <1>1, <1>2, <1>5, <1>11, <3>2
      <4>2. m2[l + (k - l) - 1] = a[k - l]
        BY <1>9, <4>1
      <4>. QED
        BY <1>11, <3>2, <4>1, <4>2
    <3>. QED
      BY <3>1, <3>2
  <2>. QED
    BY <2>1, <2>2 DEF HoldsIn
<1>. QED
  BY <1>6, <1>8, <1>10, <1>12 DEF m2, m1, a, l, t

(* The shortened numeral: the sign and the lowest digits.                  *)
LEMMA ShortenedIs ==
  ASSUME NEW num \in Integer, NEW n
  PROVE  Shortened(num, n)
           = SignText(num) \o SubSeq(NumSeq[Abs(num)],
                                     Width(num) - Kept(num, n) + 1, Width(num))
<1>1. num \in Int /\ Abs(num) \in Nat /\ Abs(num) \in Int /\ ~(Abs(num) < 0)
      /\ Abs(Abs(num)) = Abs(num)
  BY IntegerIs DEF Abs
<1>2. (IF num < 0 THEN -num ELSE num) = Abs(num)
  BY DEF Abs
<1>3. Numeral(Abs(num)) = NumSeq[Abs(num)]
  BY <1>1, DigitsAre, Zenon
<1>. QED
  BY <1>2, <1>3, Zenon DEF Shortened, SignText, Kept, Width

(* A call of itostr.                                                       *)
LEMMA ItostrStep ==
  ASSUME TypeOK, NEW num \in Nums, NEW n \in 1..Capacity, itostr(num, n)
  PROVE  /\ LastOf("itostr", num, n)
         /\ mem' \in Memory /\ value' = value
         /\ ItostrExact' /\ ItostrInBounds
<1>1. num \in Integer /\ num \in Int /\ n \in Nat /\ n >= 1 /\ Capacity \in Nat
      /\ n <= Capacity /\ mem \in Memory
  BY ArgumentsAre, IntegerIs DEF TypeOK, Memory
<1>2. /\ call' = [fn |-> "itostr", num |-> num, n |-> n, ret |-> n - 1 >= 1]
      /\ value' = value
  BY DEF itostr
<1>3. /\ LastOf("itostr", num, n) /\ (call'.ret <=> n > 1)
      /\ call'.fn = "itostr" /\ call'.num = num /\ call'.n = n
  <2>1. (n - 1 >= 1) \in BOOLEAN /\ (n - 1 >= 1 <=> n > 1)
    BY <1>1
  <2>2. /\ call'.fn = "itostr" /\ call'.num = num /\ call'.n = n
        /\ call'.ret = (n - 1 >= 1)
    BY <1>2, Zenon
  <2>. QED
    BY <2>1, <2>2, Zenon DEF LastOf
<1>4. CASE n <= 1
  <2>1. mem' = mem
    <3>1. n - 1 < 1
      BY <1>1, <1>4
    <3>. QED
      BY <3>1, Zenon DEF itostr
  <2>2. ~call'.ret
    BY <1>1, <1>3, <1>4
  <2>3. ItostrExact'
    BY <2>2 DEF ItostrExact
  <2>4. ItostrInBounds
    BY <2>1 DEF ItostrInBounds, Unchanged
  <2>. QED
    BY <1>1, <1>2, <1>3, <2>1, <2>3, <2>4
<1>5. CASE n > 1
  <2>1. PICK s : /\ ItostrText(num, n, s)
                 /\ mem' = StoreText(Signed(mem, num), SignLen(num), Append(s, Nul))
    BY <1>1, <1>5, ItostrStores
  <2> DEFINE c == Kept(num, n)
             l == SignLen(num)
             t == Append(SignText(num) \o s, Nul)
  <2>2. s \in Seq(Signs) /\ Len(s) = c
    BY <2>1 DEF ItostrText
  <2>3. /\ Width(num) \in Nat /\ Width(num) >= 1
        /\ c = IF Width(num) < n - 1 THEN Width(num) ELSE n - 1
        /\ l = IF num < 0 THEN 1 ELSE 0
    BY <1>1, NumeralIs DEF Kept, SignLen
  <2> HIDE DEF c, l
  <2>4. c \in Nat /\ l \in 0..1 /\ l + c <= n
    BY <1>1, <1>5, <2>3
  <2>5. l + c <= Capacity
    BY <1>1, <2>4
  <2>6. SignLen(num) + Len(s) <= Capacity /\ SignLen(num) + Len(s) = l + c
    BY <2>2, <2>5 DEF l
  <2> DEFINE m2 == StoreText(Signed(mem, num), SignLen(num), Append(s, Nul))
  <2>7. /\ m2 \in Memory /\ HoldsIn(m2, t) /\ m2[SignLen(num) + Len(s)] = Nul
        /\ \A b \in Bytes : b > SignLen(num) + Len(s) => m2[b] = mem[b]
    BY <1>1, <2>2, <2>6, ItostrMemory
  <2>8. m2 = mem'
    BY <2>1
  <2> HIDE DEF m2
  <2>9. /\ mem' \in Memory /\ HoldsIn(mem', t) /\ mem'[l + c] = Nul
        /\ \A b \in Bytes : b > l + c => mem'[b] = mem[b]
    BY <2>6, <2>7, <2>8
  <2>10. t \in Seq(Chars)
    <3>1. \A d \in Signs : d \in Chars
      BY DEF Signs, Chars
    <3>2. s \in Seq(Chars)
      BY <2>2, <3>1
    <3>. QED
      BY <1>1, <3>2, SignedTextIs
  <2>11. Len(t) <= Capacity + 1 /\ [k \in 1..Len(t) |-> mem'[k - 1]] = t
    <3> HIDE DEF t
    <3>. QED
      BY <2>9, <2>10, HoldsIs
  <2>12. ItostrExact'
    <3>1. SUFFICES ASSUME num # INTEGER_MIN
                   PROVE  /\ Len(Append(Shortened(num, n), Nul)) <= Capacity + 1
                          /\ [k \in 1..Len(Append(Shortened(num, n), Nul)) |-> mem'[k - 1]]
                               = Append(Shortened(num, n), Nul)
      BY <1>3, Zenon DEF ItostrExact, HoldsString, Holds, Bytes0
    <3>2. s = SubSeq(NumSeq[Abs(num)], Width(num) - Kept(num, n) + 1, Width(num))
      BY <2>1, <3>1 DEF ItostrText
    <3>3. Append(Shortened(num, n), Nul) = t
      BY <1>1, <3>2, ShortenedIs
    <3> HIDE DEF t
    <3>. QED
      BY <2>11, <3>3
  <2>13. ItostrInBounds
    <3>1. SUFFICES ASSUME NEW b \in Bytes, b >= n
                   PROVE  \/ mem'[b] = mem[b]
                          \/ /\ b = n /\ mem'[b] = Nul
                             /\ num < 0 /\ Len(Numeral(num)) >= n
      BY <1>3 DEF ItostrInBounds, Unchanged
    <3>2. b \in Nat
      BY <1>1, ArgumentsAre
    <3>3. CASE b > l + c
      BY <2>9, <3>3
    <3>4. CASE ~(b > l + c)
      <4>1. b = n /\ l + c = n /\ l = 1 /\ c = n - 1
        BY <1>1, <2>3, <2>4, <3>1, <3>2, <3>4
      <4>2. num < 0 /\ Width(num) >= n - 1
        BY <1>1, <2>3, <4>1
      <4>3. Len(Numeral(num)) = Width(num) + 1
        <5>1. Len(Numeral(num)) = Width(num) + IF num < 0 THEN 1 ELSE 0
          BY <1>1, NumeralIs
        <5>. QED
          BY <4>2, <5>1
      <4>4. Len(Numeral(num)) >= n
        BY <1>1, <2>3, <4>2, <4>3
      <4>. QED
        BY <2>9, <4>1, <4>2, <4>4
    <3>. QED
      BY <3>3, <3>4
  <2>. QED
    BY <1>2, <1>3, <2>9, <2>12, <2>13
<1>. QED
  BY <1>1, <1>4, <1>5

(* A text that is the numeral of x is read as x.                           *)
LEMMA NumeralIsRead ==
  ASSUME NEW m \in Memory, NEW n \in 1..Capacity, NEW x \in Integer,
         [i \in 1..n |-> m[i - 1]] = Numeral(x)
  PROVE  /\ Digital(m, n)
         /\ x = IF Sign(m) = 1 THEN Wrap(0 - Reading(m, n)[n])
                ELSE Reading(m, n)[n]
<1> DEFINE u == Abs(x)
           t == NumSeq[u]
<1>1. /\ x \in Int /\ u \in Nat /\ u <= INTEGER_MAX + 1 /\ INTEGER_MAX \in Nat
      /\ n \in Nat /\ n >= 1 /\ n \in 0..Capacity
      /\ (x # INTEGER_MIN => u <= INTEGER_MAX)
  BY IntegerIs, ArgumentsAre
<1>2. /\ t \in Seq(Digit) /\ Len(t) \in Nat /\ Len(t) >= 1
      /\ x < 0 => Numeral(x) = <<Minus>> \o t
      /\ ~(x < 0) => Numeral(x) = t
      /\ Numeral(x) \in Seq(Text)
  BY <1>1, NumeralIs DEF Width
<1> HIDE DEF t
<1>3. /\ Len(Numeral(x)) = n
      /\ \A i \in 1..n : m[i - 1] = Numeral(x)[i]
  <2> DEFINE f == [i \in 1..n |-> m[i - 1]]
  <2>1. f = Numeral(x)
    OBVIOUS
  <2>2. Len(f) = n /\ \A i \in 1..n : f[i] = m[i - 1]
    BY <1>1
  <2> HIDE DEF f
  <2>. QED
    BY <2>1, <2>2
<1>4. /\ Sign(m) = IF x < 0 THEN 1 ELSE 0
      /\ Sign(m) + Len(t) = n
      /\ \A i \in 1..Len(t) : m[(Sign(m) + i) - 1] = t[i]
  <2>1. CASE x < 0
    <3>1. /\ Len(<<Minus>> \o t) = Len(t) + 1 /\ (<<Minus>> \o t)[1] = Minus
          /\ \A i \in 1..Len(t) : (<<Minus>> \o t)[i + 1] = t[i]
      BY <1>2
    <3>2. n = Len(t) + 1 /\ m[1 - 1] = Minus
      BY <1>1, <1>2, <1>3, <2>1, <3>1
    <3>3. Sign(m) = 1
      BY <3>2 DEF Sign
    <3>4. ASSUME NEW i \in 1..Len(t) PROVE m[(Sign(m) + i) - 1] = t[i]
      <4>1. i + 1 \in 1..n /\ (Sign(m) + i) - 1 = (i + 1) - 1
        BY <1>2, <3>2, <3>3
      <4>2. m[(i + 1) - 1] = Numeral(x)[i + 1]
        BY <1>3, <4>1
      <4>3. Numeral(x)[i + 1] = t[i]
        BY <1>2, <2>1, <3>1
      <4>. QED
        BY <4>1, <4>2, <4>3
    <3>. QED
      BY <1>2, <2>1, <3>2, <3>3, <3>4
  <2>2. CASE ~(x < 0)
    <3>1. n = Len(t) /\ m[1 - 1] = t[1] /\ t[1] \in Digit
      BY <1>1, <1>2, <1>3, <2>2
    <3>2. Sign(m) = 0
      BY <3>1, CharsAre DEF Sign
    <3>3. ASSUME NEW i \in 1..Len(t) PROVE m[(Sign(m) + i) - 1] = t[i]
      <4>1. (Sign(m) + i) - 1 = i - 1
        BY <1>2, <3>2
      <4>. QED
        BY <1>2, <1>3, <2>2, <3>1, <4>1
    <3>. QED
      <4>1. Sign(m) + Len(t) = n
        BY <1>2, <3>1, <3>2
      <4>2. Sign(m) = IF x < 0 THEN 1 ELSE 0
        BY <2>2, <3>2
      <4>. QED
        BY <3>3, <4>1, <4>2, Zenon
  <2>. QED
    BY <2>1, <2>2
<1>5. Digital(m, n)
  <2>1. ASSUME NEW j \in Sign(m)..(n - 1) PROVE m[j] \in Digit
    <3> DEFINE i == j - Sign(m) + 1
    <3>1. i \in 1..Len(t) /\ (Sign(m) + i) - 1 = j
      BY <1>1, <1>2, <1>4
    <3>2. t[i] \in Digit
      BY <1>2, <3>1
    <3> HIDE DEF i
    <3>. QED
      BY <1>4, <3>1, <3>2
  <2>. QED
    BY <2>1 DEF Digital, Digit
<1>6. DigitsAt(m, u)
  BY <1>4 DEF DigitsAt, t
<1>7. Reading(m, n)[n] = Wrap(u)
  <2>1. Sign(m) + Len(NumSeq[u]) <= n /\ Sign(m) + Len(NumSeq[u]) = n
    <3>1. Sign(m) + Len(NumSeq[u]) = n
      BY <1>4, Zenon DEF t
    <3>. QED
      BY <1>1, <3>1
  <2> HIDE DEF u
  <2>2. Reading(m, n)[Sign(m) + Len(NumSeq[u])] = Wrap(u)
    BY <1>1, <1>6, <2>1, NumberIsRead
  <2>. QED
    BY <2>1, <2>2
<1>8. CASE x = INTEGER_MIN
  <2>1. u = INTEGER_MAX + 1 /\ Sign(m) = 1 /\ 0 - INTEGER_MIN = INTEGER_MAX + 1
    BY <1>1, <1>4, <1>8, IntegerIs DEF Abs
  <2>2. Reading(m, n)[n] = INTEGER_MIN
    BY <1>7, <2>1, WrapIs
  <2>3. Wrap(0 - Reading(m, n)[n]) = INTEGER_MIN
    BY <2>1, <2>2, WrapIs
  <2>. QED
    BY <1>5, <1>8, <2>1, <2>3
<1>9. CASE x # INTEGER_MIN
  <2>1. u \in Integer /\ (x < 0 => u = 0 - x /\ 0 - u = x) /\ (~(x < 0) => u = x)
    BY <1>1, <1>9, IntegerIs DEF Abs, Integer
  <2>2. Reading(m, n)[n] = u
    BY <1>7, <2>1, WrapIs
  <2>3. CASE x < 0
    <3>1. Wrap(0 - u) = x
      BY <2>1, <2>3, WrapIs
    <3>2. Sign(m) = 1
      BY <1>4, <2>3
    <3>. QED
      BY <1>5, <2>2, <3>1, <3>2
  <2>4. CASE ~(x < 0)
    <3>1. Sign(m) = 0
      BY <1>4, <2>4
    <3>. QED
      BY <1>5, <2>1, <2>2, <2>4, <3>1
  <2>. QED
    BY <2>3, <2>4
<1>. QED
  BY <1>8, <1>9

(* A call of strtoi.                                                       *)
LEMMA StrtoiStep ==
  ASSUME TypeOK, NEW n \in 1..Capacity, strtoi(n)
  PROVE  /\ LastOf("strtoi", 0, n)
         /\ mem' = mem /\ value' \in Integer
         /\ ReadsBack'
<1>1. n \in Nat /\ n \in 0..Capacity /\ n \in 0..n /\ mem \in Memory /\ value \in Integer
  BY ArgumentsAre DEF TypeOK, Memory
<1> DEFINE r == Reading(mem, n)[n]
<1>2. /\ value' = IF ~Digital(mem, n) THEN value
                  ELSE IF Sign(mem) = 1 THEN Wrap(0 - r) ELSE r
      /\ call' = [fn |-> "strtoi", num |-> 0, n |-> n, ret |-> Digital(mem, n)]
      /\ mem' = mem
  BY StrtoiIs
<1>3. LastOf("strtoi", 0, n) /\ (call'.ret <=> Digital(mem, n))
  <2>1. Digital(mem, n) \in BOOLEAN
    BY DEF Digital
  <2>2. /\ call'.fn = "strtoi" /\ call'.num = 0 /\ call'.n = n
        /\ call'.ret = Digital(mem, n)
    BY <1>2, Zenon
  <2>. QED
    BY <2>1, <2>2, Zenon DEF LastOf
<1>4. value' \in Integer
  <2>1. r \in Integer
    BY <1>1, ReadingIs
  <2>2. 0 - r \in Int
    <3> HIDE DEF r
    <3>1. r \in Int
      BY <2>1, IntegerIs
    <3>. QED
      BY <3>1
  <2>3. Wrap(0 - r) \in Integer
    BY <2>2, WrapIs
  <2> HIDE DEF r
  <2>. QED
    BY <1>1, <1>2, <2>1, <2>3
<1>5. ReadsBack'
  <2>1. SUFFICES ASSUME NEW x \in Integer, [i \in 1..n |-> mem[i - 1]] = Numeral(x)
                 PROVE  call'.ret /\ value' = x
    BY <1>2, <1>3, Zenon DEF ReadsBack, Bytes0, LastOf
  <2>2. Digital(mem, n) /\ x = IF Sign(mem) = 1 THEN Wrap(0 - r) ELSE r
    BY <1>1, <2>1, NumeralIsRead
  <2>. QED
    BY <1>2, <1>3, <2>2
<1>. QED
  BY <1>2, <1>3, <1>4, <1>5

-----------------------------------------------------------------------------
(* The theorems *)

(* What holds after every call.                                            *)
IInv == TextExact /\ ReadsBack

(* Types are enough for count_places.                                      *)
LEMMA PlacesFollow ==
  ASSUME TypeOK
  PROVE  PlacesExact
BY CountPlacesIs DEF TypeOK, PlacesExact

(* The next call is one of the three.                                      *)
LEMMA NextIs ==
  ASSUME Next
  PROVE  \/ \E num \in Nums, len \in 1..Capacity : \E places :
              WtoaCall(num, places) /\ wtoa(num, places, len)
         \/ \E num \in Nums, n \in 1..Capacity : itostr(num, n)
         \/ \E n \in 1..Capacity : strtoi(n)
<1>1. CASE Wtoa
  <2>1. PICK num \in Nums, len \in 1..Capacity :
          \/ wtoa(num, count_places(num), len)
          \/ num \in Demo /\ wtoa(num, count_places(INTEGER_MAX), len)
    BY <1>1, Zenon DEF Wtoa
  <2>2. \/ WtoaCall(num, count_places(num)) /\ wtoa(num, count_places(num), len)
        \/ /\ WtoaCall(num, count_places(INTEGER_MAX))
           /\ wtoa(num, count_places(INTEGER_MAX), len)
    BY <2>1, Zenon DEF WtoaCall
  <2>. QED
    BY <2>2, Zenon
<1>2. CASE Itostr
  BY <1>2, Zenon DEF Itostr
<1>3. CASE Strtoi
  BY <1>3, Zenon DEF Strtoi
<1>. QED
  BY <1>1, <1>2, <1>3 DEF Next

(* The types after a call.                                                 *)
LEMMA TypesNext ==
  ASSUME NEW num \in Integer, NEW n \in 1..Capacity, NEW fn, LastOf(fn, num, n),
         mem' \in Memory, value' \in Integer
  PROVE  TypeOK'
<1>1. call'.num \in Integer /\ call'.n \in 0..Capacity /\ call'.ret \in BOOLEAN
  BY ArgumentsAre DEF LastOf
<1>. QED
  BY <1>1 DEF TypeOK, Memory

(* Every call keeps the types and leaves what it promises.                 *)
LEMMA StepKeeps ==
  ASSUME TypeOK, Next
  PROVE  TypeOK' /\ WtoaExact' /\ ItostrExact' /\ ReadsBack'
         /\ WtoaInBounds /\ ItostrInBounds
<1>1. value \in Integer /\ mem \in Memory /\ 0 \in Integer /\ Nums \subseteq Integer
  BY ArgumentsAre, IntegerIs DEF TypeOK, Memory
<1>2. ASSUME NEW num \in Nums, NEW len \in 1..Capacity, NEW places,
             WtoaCall(num, places), wtoa(num, places, len)
      PROVE  TypeOK' /\ WtoaExact' /\ ItostrExact' /\ ReadsBack'
             /\ WtoaInBounds /\ ItostrInBounds
  <2>1. /\ LastOf("wtoa", num, len) /\ mem' \in Memory /\ value' = value
        /\ WtoaExact' /\ WtoaInBounds
    BY <1>2, WtoaStep
  <2>2. TypeOK'
    BY <1>1, <2>1, TypesNext
  <2>3. call'.fn = "wtoa"
    BY <2>1 DEF LastOf
  <2>4. ItostrExact' /\ ReadsBack' /\ ItostrInBounds
    BY <2>3 DEF ItostrExact, ReadsBack, ItostrInBounds
  <2>. QED
    BY <2>1, <2>2, <2>4
<1>3. ASSUME NEW num \in Nums, NEW n \in 1..Capacity, itostr(num, n)
      PROVE  TypeOK' /\ WtoaExact' /\ ItostrExact' /\ ReadsBack'
             /\ WtoaInBounds /\ ItostrInBounds
  <2>1. /\ LastOf("itostr", num, n) /\ mem' \in Memory /\ value' = value
        /\ ItostrExact' /\ ItostrInBounds
    BY <1>3, ItostrStep
  <2>2. TypeOK'
    BY <1>1, <2>1, TypesNext
  <2>3. call'.fn = "itostr"
    BY <2>1 DEF LastOf
  <2>4. WtoaExact' /\ ReadsBack' /\ WtoaInBounds
    BY <2>3 DEF WtoaExact, ReadsBack, WtoaInBounds
  <2>. QED
    BY <2>1, <2>2, <2>4
<1>4. ASSUME NEW n \in 1..Capacity, strtoi(n)
      PROVE  TypeOK' /\ WtoaExact' /\ ItostrExact' /\ ReadsBack'
             /\ WtoaInBounds /\ ItostrInBounds
  <2>1. /\ LastOf("strtoi", 0, n) /\ mem' = mem /\ value' \in Integer
        /\ ReadsBack'
    BY <1>4, StrtoiStep
  <2>2. TypeOK'
    BY <1>1, <2>1, TypesNext
  <2>3. call'.fn = "strtoi"
    BY <2>1 DEF LastOf
  <2>4. WtoaExact' /\ ItostrExact' /\ WtoaInBounds /\ ItostrInBounds
    BY <2>3 DEF WtoaExact, ItostrExact, WtoaInBounds, ItostrInBounds
  <2>. QED
    BY <2>1, <2>2, <2>4
<1>. QED
  BY <1>2, <1>3, <1>4, NextIs, Zenon

(* What every call promises holds from the start.                          *)
LEMMA InitIInv ==
  ASSUME Init
  PROVE  IInv
<1>1. mem = [i \in Bytes |-> Other] /\ value = 0
      /\ call = [fn |-> "malloc", num |-> 0, n |-> 0, ret |-> TRUE]
  BY DEF Init
<1>2. call.fn = "malloc" /\ call.num = 0 /\ call.n = 0 /\ call.ret = TRUE
  BY <1>1
<1>3. Other \in Chars /\ 0 \in Integer /\ 0 \in 0..Capacity
  BY ArgumentsAre, IntegerIs DEF Chars
<1>4. TypeOK
  BY <1>1, <1>2, <1>3 DEF TypeOK
<1>5. WtoaExact /\ ItostrExact /\ ReadsBack
  BY <1>2 DEF WtoaExact, ItostrExact, ReadsBack
<1>. QED
  BY <1>4, <1>5, PlacesFollow DEF IInv, TextExact

(* And after every step.                                                   *)
LEMMA NextIInv ==
  ASSUME IInv, [Next]_vars
  PROVE  IInv' /\ ((WtoaInBounds /\ ItostrInBounds) \/ UNCHANGED vars)
<1>1. CASE Next
  <2>1. TypeOK' /\ WtoaExact' /\ ItostrExact' /\ ReadsBack'
        /\ WtoaInBounds /\ ItostrInBounds
    BY <1>1, StepKeeps DEF IInv, TextExact
  <2>2. TypeOK' => PlacesExact'
    BY CountPlacesIs DEF TypeOK, PlacesExact
  <2>. QED
    BY <2>1, <2>2 DEF IInv, TextExact
<1>2. CASE UNCHANGED vars
  <2>1. mem' = mem /\ value' = value /\ call' = call
    BY <1>2 DEF vars
  <2>2. TypeOK' /\ PlacesExact'
    BY <2>1 DEF IInv, TextExact, TypeOK, PlacesExact
  <2>3. WtoaExact' /\ ItostrExact' /\ ReadsBack'
    BY <2>1 DEF IInv, TextExact, WtoaExact, ItostrExact, ReadsBack, HoldsString,
                Holds, Bytes0
  <2>. QED
    BY <1>2, <2>2, <2>3 DEF IInv, TextExact
<1>. QED
  BY <1>1, <1>2

(* Every call does what it promises, in every run.                         *)
THEOREM CallsSound == Spec => []IInv
<1>1. Init => IInv
  BY InitIInv
<1>2. IInv /\ [Next]_vars => IInv'
  BY NextIInv
<1>. QED
  BY <1>1, <1>2, PTL DEF Spec

(* After every call of wtoa or itostr that returns a text, the numeral of  *)
(* the number is in the buffer, and count_places is its length.            *)
THEOREM TextsCorrect == Spec => []TextExact
<1>1. IInv => TextExact
  BY DEF IInv
<1>. QED
  BY <1>1, CallsSound, PTL

(* strtoi returns the number of every numeral it reads.                    *)
THEOREM ReadingCorrect == Spec => []ReadsBack
<1>1. IInv => ReadsBack
  BY DEF IInv
<1>. QED
  BY <1>1, CallsSound, PTL

(* No call writes behind the room it was given, but for the NUL of itostr. *)
THEOREM StaysInBounds == Spec => InBounds
<1>1. IInv /\ [Next]_vars => [WtoaInBounds /\ ItostrInBounds]_vars
  BY NextIInv
<1>. QED
  BY <1>1, CallsSound, PTL DEF Spec, InBounds
=============================================================================
