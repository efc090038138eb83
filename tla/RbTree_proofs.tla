--------------------------- MODULE RbTree_proofs ---------------------------
(***************************************************************************)
(* Theorems about RbTree, for every finite set of keys.                    *)
(*                                                                         *)
(* No induction is over subtrees.  A node n of a tree with nodes C has an  *)
(* interval lo[n] .. hi[n] of the keys that may be below it (TreeShape),   *)
(* and h[n] black nodes on each way down from it (Heights).  A step of the *)
(* code is first shown to be a rotation, a change of colours, a link, a    *)
(* removal or a renaming (Rotated, Recoloured, Linked, Removed, Renamed),  *)
(* and each of these to keep such lo, hi and h.  Steady, Inserting and     *)
(* Erasing say how far the balance is right while no loop or one of the    *)
(* two is running.                                                         *)
(***************************************************************************)
EXTENDS RbTree, FiniteSetTheorems, WellFoundedInduction, TLAPS

-----------------------------------------------------------------------------
(* Numbers *)

(* A set of natural numbers that is not empty has a least one.             *)
LEMMA LeastExists ==
  ASSUME NEW S \in SUBSET Nat, S # {}
  PROVE  \E m \in S : \A n \in S : m <= n
<1> DEFINE R == OpToRel(<, Nat)
<1>1. IsWellFoundedOn(R, Nat)
  BY NatLessThanWellFounded
<1>2. \A x, y \in Nat : x < y => <<x, y>> \in R
  BY DEF OpToRel
<1> HIDE DEF R
<1>3. PICK m \in S : \A n \in S : ~(<<n, m>> \in R)
  BY <1>1, WFMin
<1>4. ASSUME NEW n \in S PROVE m <= n
  <2>1. ~(n < m)
    BY <1>2, <1>3
  <2>. QED
    BY <2>1
<1>. QED
  BY <1>4

-----------------------------------------------------------------------------
(* Loops that follow one pointer after another.                            *)

(* Where a loop may come that starts at n: the least set that has n and    *)
(* with every element at which the loop does not stop the next one.        *)
Follow(X, stop, next, n) ==
  {m \in X : \A S \in SUBSET X :
     n \in S /\ (\A x \in S : x \notin stop => next[x] \in S) => m \in S}

(* At a place where the loop stops it has come nowhere else.               *)
LEMMA FollowStop ==
  ASSUME NEW X, NEW stop, NEW next, NEW n \in X, n \in stop
  PROVE  Follow(X, stop, next, n) = {n}
<1>1. {n} \in SUBSET X
  OBVIOUS
<1>2. \A x \in {n} : x \notin stop => next[x] \in {n}
  OBVIOUS
<1>. QED
  BY <1>1, <1>2 DEF Follow

(* Elsewhere it has come to where the next step takes it, and to n.        *)
LEMMA FollowStep ==
  ASSUME NEW X, NEW stop, NEW next, NEW n \in X, n \notin stop,
         \A x \in X : x \notin stop => next[x] \in X
  PROVE  Follow(X, stop, next, n) = {n} \cup Follow(X, stop, next, next[n])
<1> DEFINE F(m) == Follow(X, stop, next, m)
           Closed(S) == \A x \in S : x \notin stop => next[x] \in S
<1>1. next[n] \in X
  OBVIOUS
<1>2. \A m \in X : m \in F(m) /\ F(m) \in SUBSET X /\ Closed(F(m))
  BY DEF Follow
<1>3. \A m \in X, S \in SUBSET X : m \in S /\ Closed(S) => F(m) \subseteq S
  BY DEF Follow
<1> HIDE DEF F
<1>4. F(n) \subseteq {n} \cup F(next[n])
  <2>1. Closed({n} \cup F(next[n]))
    BY <1>1, <1>2
  <2>2. {n} \cup F(next[n]) \in SUBSET X
    BY <1>1, <1>2
  <2> HIDE DEF Closed
  <2>. QED
    BY <1>3, <2>1, <2>2
<1>5. next[n] \in F(n)
  BY <1>2
<1>6. F(next[n]) \subseteq F(n)
  <2> HIDE DEF Closed
  <2>. QED
    BY <1>1, <1>2, <1>3, <1>5
<1>7. n \in F(n)
  BY <1>2
<1>. QED
  BY <1>4, <1>6, <1>7 DEF F

(* What the loop returns is what base says of the place where it stops.    *)
Returns(X, stop, next, base, f) ==
  f = [x \in X |-> IF x \in stop THEN base[x] ELSE f[next[x]]]

(* This recursive definition has a solution.                               *)
LEMMA FollowExists ==
  ASSUME NEW X, NEW stop, NEW next, NEW base,
         \A x \in X : x \notin stop => next[x] \in X
  PROVE  \E f : Returns(X, stop, next, base, f)
<1> DEFINE F(m) == Follow(X, stop, next, m)
           E(m) == CHOOSE e : e \in F(m) \cap stop
           f == [x \in X |-> base[E(x)]]
<1>1. ASSUME NEW x \in X, x \in stop PROVE f[x] = base[x]
  <2>1. F(x) \cap stop = {x}
    BY <1>1, FollowStop
  <2>2. E(x) = x
    <3> HIDE DEF F
    <3>. QED
      BY <2>1
  <2>. QED
    BY <2>2
<1>2. ASSUME NEW x \in X, x \notin stop PROVE f[x] = f[next[x]]
  <2>1. F(x) = {x} \cup F(next[x])
    BY <1>2, FollowStep
  <2> HIDE DEF F
  <2>2. F(x) \cap stop = F(next[x]) \cap stop
    BY <1>2, <2>1
  <2>3. E(x) = E(next[x])
    BY <2>2
  <2>4. next[x] \in X
    BY <1>2
  <2>. QED
    BY <2>3, <2>4
<1> HIDE DEF E
<1>3. f = [x \in X |-> f[x]]
  OBVIOUS
<1> HIDE DEF f
<1>4. f = [x \in X |-> IF x \in stop THEN base[x] ELSE f[next[x]]]
  BY <1>1, <1>2, <1>3
<1>. QED
  BY <1>4 DEF Returns

(* What it returns is what belongs to a place where it stops, in every set *)
(* Q it does not leave, when a number decreases with every step.           *)
LEMMA FollowEnds ==
  ASSUME NEW X, NEW stop, NEW next, NEW base, NEW f, NEW Q \in SUBSET X,
         NEW w,
         Returns(X, stop, next, base, f),
         \A x \in Q : w[x] \in Nat,
         \A x \in Q : x \notin stop => next[x] \in Q /\ w[next[x]] < w[x],
         NEW n \in Q
  PROVE  \E e \in Q : e \in stop /\ f[n] = base[e]
<1> DEFINE W == {w[x] : x \in {y \in Q : f[y] = f[n]}}
<1>1. W \in SUBSET Nat /\ W # {}
  OBVIOUS
<1>2. PICK m \in W : \A k \in W : m <= k
  BY <1>1, LeastExists
<1>3. PICK x \in Q : f[x] = f[n] /\ w[x] = m
  BY <1>2
<1>4. x \in X
  OBVIOUS
<1>5. x \in stop
  <2>1. SUFFICES ASSUME x \notin stop PROVE FALSE
    OBVIOUS
  <2>2. f[x] = f[next[x]]
    BY <1>4, <2>1, Zenon DEF Returns
  <2>3. next[x] \in Q /\ w[next[x]] < w[x]
    BY <2>1
  <2>4. w[next[x]] \in W
    BY <1>3, <2>2, <2>3
  <2>5. m <= w[next[x]]
    BY <1>2, <2>4
  <2>6. w[next[x]] \in Nat /\ w[x] \in Nat
    BY <2>3
  <2> HIDE DEF W
  <2>. QED
    BY <1>3, <2>3, <2>5, <2>6
<1>6. f[x] = base[x]
  BY <1>4, <1>5, Zenon DEF Returns
<1>. QED
  BY <1>3, <1>5, <1>6

-----------------------------------------------------------------------------
(* The shape of the tree.  C is the set of its nodes.  Every node n has a  *)
(* range, from lo[n] to hi[n], in which it and all nodes below it are: the *)
(* root has the whole range, and a child the part of its parent's range on *)
(* its side of the parent.  All this is local to a node and its children.  *)

Links(r, ch, par, C) ==
  /\ C \in SUBSET Keys /\ r \in C \cup {NULL} /\ (C # {} => r # NULL)
  /\ ch \in [Keys -> [Sides -> Pointer]] /\ par \in [Keys -> Pointer]
  /\ r # NULL => par[r] = NULL
  /\ \A n \in C, d \in Sides :
       ch[n][d] # NULL => ch[n][d] \in C /\ par[ch[n][d]] = n
  /\ \A n \in C : n # r => par[n] \in C /\ \E d \in Sides : ch[par[n]][d] = n
  /\ \A n \in Keys \ C : par[n] = NULL /\ \A d \in Sides : ch[n][d] = NULL

Ranges(r, ch, C, lo, hi, M) ==
  /\ M \in Nat /\ lo \in [Keys -> 0..M] /\ hi \in [Keys -> 0..M]
  /\ \A k \in Keys : k < M
  /\ r # NULL => lo[r] = 0 /\ hi[r] = M
  /\ \A n \in C : lo[n] < n /\ n < hi[n]
  /\ \A n \in C : lo[n] \in C \cup {0} /\ hi[n] \in C \cup {M}
  /\ \A n \in C : ch[n]["left"] # NULL =>
       lo[ch[n]["left"]] = lo[n] /\ hi[ch[n]["left"]] = n
  /\ \A n \in C : ch[n]["right"] # NULL =>
       lo[ch[n]["right"]] = n /\ hi[ch[n]["right"]] = hi[n]

Shape(r, ch, par, C, lo, hi, M) ==
  Links(r, ch, par, C) /\ Ranges(r, ch, C, lo, hi, M)

Within(lo, hi, n, m) == lo[n] < m /\ m < hi[n]
Side(m, n) == IF m < n THEN "left" ELSE "right"

(* Keys are positive numbers.                                              *)
LEMMA KeysNat == Keys \subseteq Nat \ {0} /\ NULL \notin Keys
BY KeysAssumption DEF NULL

(* The range of a child is part of that of its parent, on its side, and    *)
(* less of a number.                                                       *)
LEMMA ChildRange ==
  ASSUME NEW r, NEW ch, NEW par, NEW C, NEW lo, NEW hi, NEW M,
         Shape(r, ch, par, C, lo, hi, M),
         NEW n \in C, NEW d \in Sides, ch[n][d] # NULL
  PROVE  LET c == ch[n][d]
         IN /\ c \in C /\ par[c] = n /\ c # n
            /\ d = Side(c, n)
            /\ lo[n] <= lo[c] /\ hi[c] <= hi[n]
            /\ d = "left" => lo[c] = lo[n] /\ hi[c] = n
            /\ d = "right" => lo[c] = n /\ hi[c] = hi[n]
            /\ hi[c] - lo[c] < hi[n] - lo[n]
<1> DEFINE c == ch[n][d]
<1>1. c \in C /\ par[c] = n /\ C \subseteq Keys
  BY DEF Shape, Links
<1>2. lo[n] < n /\ n < hi[n] /\ lo[c] < c /\ c < hi[c]
  BY <1>1 DEF Shape, Ranges
<1>3. lo[n] \in Nat /\ hi[n] \in Nat /\ lo[c] \in Nat /\ hi[c] \in Nat
  BY <1>1 DEF Shape, Ranges
<1>4. n \in Nat /\ c \in Nat
  BY <1>1, KeysNat
<1>5. CASE d = "left"
  <2>1. lo[c] = lo[n] /\ hi[c] = n
    BY <1>5 DEF Shape, Ranges
  <2>. QED
    BY <1>1, <1>2, <1>3, <1>4, <1>5, <2>1 DEF Side
<1>6. CASE d = "right"
  <2>1. lo[c] = n /\ hi[c] = hi[n]
    BY <1>6 DEF Shape, Ranges
  <2>. QED
    BY <1>1, <1>2, <1>3, <1>4, <1>6, <2>1 DEF Side
<1>. QED
  BY <1>5, <1>6 DEF Sides

(* The nodes from m up to the root.                                        *)
Above(r, par, C, m) == Follow(C, {r}, par, m)

(* The parent of a node has the larger range.                              *)
LEMMA ParentRange ==
  ASSUME NEW r, NEW ch, NEW par, NEW C, NEW lo, NEW hi, NEW M,
         Shape(r, ch, par, C, lo, hi, M),
         NEW n \in C, n # r
  PROVE  LET p == par[n]
         IN /\ p \in C
            /\ lo[p] <= lo[n] /\ hi[n] <= hi[p]
            /\ hi[n] - lo[n] < hi[p] - lo[p]
            /\ ch[p][Side(n, p)] = n /\ p # n
<1>1. PICK d \in Sides : par[n] \in C /\ ch[par[n]][d] = n
  BY DEF Shape, Links
<1>2. n # NULL
  BY KeysNat DEF Shape, Links
<1>. QED
  BY <1>1, <1>2, ChildRange

(* The way up ends at the root, and ranges on it get larger.               *)
LEMMA WayUp ==
  ASSUME NEW r, NEW ch, NEW par, NEW C, NEW lo, NEW hi, NEW M,
         Shape(r, ch, par, C, lo, hi, M),
         NEW m \in C
  PROVE  LET U == Above(r, par, C, m)
         IN /\ U \subseteq C /\ m \in U /\ r \in U
            /\ \A n \in U : lo[n] <= lo[m] /\ hi[m] <= hi[n]
            /\ \A n \in U : n # m => \E d \in Sides : ch[n][d] \in U
<1> DEFINE U == Above(r, par, C, m)
           Closed(S) == \A x \in S : x \notin {r} => par[x] \in S
<1>0. /\ \A x \in C : lo[x] \in Nat /\ hi[x] \in Nat /\ hi[x] <= M /\ lo[x] < hi[x]
      /\ M \in Nat
  <2>1. \A x \in C : x \in Keys
    BY DEF Shape, Links
  <2>2. \A x \in C : lo[x] \in 0..M /\ hi[x] \in 0..M
    BY <2>1 DEF Shape, Ranges
  <2>3. \A x \in C : lo[x] < x /\ x < hi[x] /\ x \in Nat
    BY <2>1, KeysNat DEF Shape, Ranges
  <2>4. M \in Nat
    BY DEF Shape, Ranges
  <2>. QED
    BY <2>2, <2>3, <2>4
<1>1. \A x \in C : x # r => par[x] \in C
  BY DEF Shape, Links
<1>2. U \subseteq C /\ m \in U /\ Closed(U)
  BY <1>1 DEF Above, Follow
<1>3. \A S \in SUBSET C : m \in S /\ Closed(S) => U \subseteq S
  BY DEF Above, Follow
<1> HIDE DEF U
<1>4. r \in U
  <2> DEFINE W == {M - (hi[x] - lo[x]) : x \in U}
  <2>1. W \in SUBSET Nat /\ W # {}
    BY <1>0, <1>2
  <2>2. PICK v \in W : \A k \in W : v <= k
    BY <2>1, LeastExists
  <2>3. PICK x \in U : v = M - (hi[x] - lo[x])
    BY <2>2
  <2>4. SUFFICES ASSUME x # r PROVE FALSE
    BY <2>3
  <2>5. par[x] \in U /\ x \in C
    BY <1>2, <2>4
  <2>6. hi[x] - lo[x] < hi[par[x]] - lo[par[x]]
    BY <2>4, <2>5, ParentRange
  <2>7. M - (hi[par[x]] - lo[par[x]]) \in W
    BY <2>5
  <2>8. v <= M - (hi[par[x]] - lo[par[x]])
    BY <2>2, <2>7
  <2>9. par[x] \in C
    BY <1>2, <2>5
  <2> HIDE DEF W
  <2>. QED
    BY <1>0, <2>3, <2>5, <2>6, <2>8, <2>9
<1>5. \A n \in U : lo[n] <= lo[m] /\ hi[m] <= hi[n]
  <2> DEFINE S == {n \in C : lo[n] <= lo[m] /\ hi[m] <= hi[n]}
  <2>1. m \in S
    BY <1>0
  <2>2. ASSUME NEW x \in S, x # r PROVE par[x] \in S
    <3>1. par[x] \in C /\ lo[par[x]] <= lo[x] /\ hi[x] <= hi[par[x]]
      BY <2>2, ParentRange
    <3>. QED
      BY <1>0, <3>1
  <2>3. Closed(S)
    BY <2>2
  <2>. QED
    BY <1>3, <2>1, <2>3
<1>6. \A n \in U : n # m => \E d \in Sides : ch[n][d] \in U
  <2> DEFINE S == {n \in U : n = m \/ \E d \in Sides : ch[n][d] \in U}
  <2>1. m \in S
    BY <1>2
  <2>2. ASSUME NEW x \in S, x # r PROVE par[x] \in S
    <3>1. x \in U /\ x \in C /\ par[x] \in U
      BY <1>2, <2>2
    <3>2. \E d \in Sides : ch[par[x]][d] = x
      BY <2>2, <3>1 DEF Shape, Links
    <3>. QED
      BY <3>1, <3>2
  <2>3. Closed(S) /\ S \in SUBSET C
    BY <1>2, <2>2
  <2>. QED
    BY <1>3, <2>1, <2>3
<1>. QED
  BY <1>2, <1>4, <1>5, <1>6 DEF U

(* A node whose range has m in it is m, or has a child whose range has m   *)
(* in it, on the side of m; and its range has that of m in it.             *)
LEMMA Toward ==
  ASSUME NEW r, NEW ch, NEW par, NEW C, NEW lo, NEW hi, NEW M,
         Shape(r, ch, par, C, lo, hi, M),
         NEW m \in C, NEW n \in C, n # m, Within(lo, hi, n, m)
  PROVE  LET c == ch[n][Side(m, n)]
         IN /\ c # NULL /\ c \in C /\ Within(lo, hi, c, m)
            /\ lo[n] <= lo[m] /\ hi[m] <= hi[n]
            /\ n \in Above(r, par, C, m)
<1> DEFINE U(x) == Above(r, par, C, x)
<1>0. C \subseteq Keys /\ C \subseteq Nat /\ NULL \notin C
  BY KeysNat DEF Shape, Links
<1>a. \A x \in C : lo[x] \in Nat /\ hi[x] \in Nat /\ lo[x] < x /\ x < hi[x]
  BY <1>0 DEF Shape, Ranges
<1>1. /\ U(m) \subseteq C /\ m \in U(m) /\ r \in U(m)
      /\ \A x \in U(m) : lo[x] <= lo[m] /\ hi[m] <= hi[x]
      /\ \A x \in U(m) : x # m => \E d \in Sides : ch[x][d] \in U(m)
  BY WayUp
<1>2. /\ U(n) \subseteq C /\ n \in U(n) /\ r \in U(n)
      /\ \A x \in U(n) : lo[x] <= lo[n] /\ hi[n] <= hi[x]
      /\ \A x \in U(n) : x # n => \E d \in Sides : ch[x][d] \in U(n)
  BY WayUp
<1> HIDE DEF U
<1>3. \A x \in U(m) : Within(lo, hi, x, m)
  BY <1>0, <1>a, <1>1 DEF Within
<1>4. ASSUME NEW x \in U(n) PROVE Within(lo, hi, x, m)
  <2>1. /\ lo[x] <= lo[n] /\ hi[n] <= hi[x] /\ x \in C
    BY <1>2
  <2>2. /\ lo[x] \in Nat /\ hi[x] \in Nat /\ lo[n] \in Nat /\ hi[n] \in Nat
        /\ m \in Nat
    BY <1>0, <1>a, <2>1
  <2>. QED
    BY <2>1, <2>2 DEF Within
<1>5. ASSUME NEW x \in C, NEW d \in Sides, ch[x][d] \in C,
             Within(lo, hi, ch[x][d], m)
      PROVE  d = Side(m, x) /\ x # m
  <2>1. /\ d = "left" => hi[ch[x][d]] = x
        /\ d = "right" => lo[ch[x][d]] = x
    BY <1>0, <1>5, ChildRange
  <2>2. /\ lo[ch[x][d]] < m /\ m < hi[ch[x][d]] /\ m \in Nat /\ x \in Nat
        /\ lo[ch[x][d]] \in Nat /\ hi[ch[x][d]] \in Nat
    BY <1>0, <1>a, <1>5 DEF Within
  <2>. QED
    BY <2>1, <2>2 DEF Side, Sides
<1>6. n \in U(m)
  <2> DEFINE W == {hi[x] - lo[x] : x \in U(n) \cap U(m)}
  <2>0. ASSUME NEW x \in U(n) \cap U(m) PROVE hi[x] - lo[x] \in Nat
    <3>1. x \in C /\ x \in Nat
      BY <1>0, <1>1
    <3>2. lo[x] \in Nat /\ hi[x] \in Nat /\ lo[x] < x /\ x < hi[x]
      BY <1>a, <3>1
    <3>. QED
      BY <3>1, <3>2
  <2>1. W \in SUBSET Nat /\ W # {}
    BY <1>1, <1>2, <2>0
  <2>2. PICK v \in W : \A k \in W : v <= k
    BY <2>1, LeastExists
  <2>3. PICK a \in U(n) \cap U(m) : v = hi[a] - lo[a]
    BY <2>2
  <2>4. SUFFICES ASSUME a # n PROVE FALSE
    BY <2>3
  <2>5. PICK d \in Sides : ch[a][d] \in U(n)
    BY <1>2, <2>4
  <2>6. d = Side(m, a) /\ a # m
    BY <1>1, <1>2, <1>4, <1>5, <2>5
  <2>7. PICK e \in Sides : ch[a][e] \in U(m)
    BY <1>1, <2>6
  <2>8. e = Side(m, a)
    BY <1>1, <1>3, <1>5, <2>7
  <2>9. ch[a][d] \in U(n) \cap U(m) /\ ch[a][d] \in C /\ a \in C
    BY <1>1, <2>5, <2>6, <2>7, <2>8
  <2>10. hi[ch[a][d]] - lo[ch[a][d]] < hi[a] - lo[a]
    BY <1>0, <2>9, ChildRange
  <2>11. hi[ch[a][d]] - lo[ch[a][d]] \in W
    BY <2>9
  <2>12. v <= hi[ch[a][d]] - lo[ch[a][d]]
    BY <2>2, <2>11
  <2> HIDE DEF W
  <2>. QED
    BY <1>a, <2>3, <2>9, <2>10, <2>12
<1>7. PICK d \in Sides : ch[n][d] \in U(m)
  BY <1>1, <1>6
<1>8. ch[n][d] \in C /\ Within(lo, hi, ch[n][d], m) /\ ch[n][d] # NULL
  BY <1>0, <1>1, <1>3, <1>7
<1>9. d = Side(m, n)
  BY <1>5, <1>8
<1>10. lo[n] <= lo[m] /\ hi[m] <= hi[n]
  BY <1>1, <1>6
<1>11. n \in Above(r, par, C, m)
  BY <1>6 DEF U
<1>. QED
  BY <1>8, <1>9, <1>10, <1>11

(* The recursive set of the nodes below n: the equation it satisfies.      *)
LEMMA SubtreeEquation ==
  ASSUME NEW tr \in Tree, NEW n
  PROVE  \E f :
           /\ f = [S \in SUBSET Keys |->
                     IF Children(tr, S) \subseteq S THEN S
                     ELSE f[S \cup Children(tr, S)]]
           /\ Subtree(tr, n) = f[{n} \ {NULL}]
<1> DEFINE X == SUBSET Keys
           stop == {S \in X : Children(tr, S) \subseteq S}
           next == [S \in X |-> S \cup Children(tr, S)]
           base == [S \in X |-> S]
           Rec(f) == [S \in SUBSET Keys |->
                        IF Children(tr, S) \subseteq S THEN S
                        ELSE f[S \cup Children(tr, S)]]
<1>1. ASSUME NEW S \in X PROVE S \cup Children(tr, S) \in X
  <2>1. \A m \in S, d \in Sides : tr.child[m][d] \in Keys \cup {NULL}
    BY DEF Tree, Pointer
  <2>. QED
    BY <2>1 DEF Children
<1>2. \A S \in X : S \notin stop => next[S] \in X
  BY <1>1
<1>3. PICK f : Returns(X, stop, next, base, f)
  <2> HIDE DEF X, stop, next, base
  <2>. QED
    BY <1>2, FollowExists
<1>4. \A S \in X : (IF S \in stop THEN base[S] ELSE f[next[S]])
                     = IF Children(tr, S) \subseteq S THEN S
                       ELSE f[S \cup Children(tr, S)]
  OBVIOUS
<1>5. f = Rec(f)
  <2> HIDE DEF stop, next, base
  <2>. QED
    BY <1>3, <1>4 DEF Returns
<1> DEFINE g == CHOOSE h : h = Rec(h)
<1>6. g = Rec(g)
  <2> HIDE DEF Rec
  <2>. QED
    BY <1>5, Zenon
<1>7. Subtree(tr, n) = g[{n} \ {NULL}]
  BY Zenon DEF Subtree
<1> HIDE DEF g
<1>. QED
  BY <1>6, <1>7, Zenon

TreeShape(tr, C, lo, hi, M) ==
  tr \in Tree /\ Shape(tr.root, tr.child, tr.parent, C, lo, hi, M)

(* The nodes below n are those in its range.                               *)
LEMMA SubtreeIs ==
  ASSUME NEW tr, NEW C, NEW lo, NEW hi, NEW M, TreeShape(tr, C, lo, hi, M),
         NEW n \in C
  PROVE  Subtree(tr, n) = {m \in C : Within(lo, hi, n, m)}
<1> DEFINE D == {m \in C : Within(lo, hi, n, m)}
           ch == tr.child
<1>0. /\ C \subseteq Keys /\ C \subseteq Nat /\ NULL \notin C /\ tr \in Tree
      /\ Shape(tr.root, ch, tr.parent, C, lo, hi, M)
  BY KeysNat DEF TreeShape, Shape, Links
<1>a. \A x \in C : lo[x] \in Nat /\ hi[x] \in Nat /\ lo[x] < x /\ x < hi[x]
  BY <1>0 DEF Shape, Ranges
<1>1. PICK f :
        /\ f = [S \in SUBSET Keys |->
                  IF Children(tr, S) \subseteq S THEN S
                  ELSE f[S \cup Children(tr, S)]]
        /\ Subtree(tr, n) = f[{n} \ {NULL}]
  BY <1>0, SubtreeEquation
<1> DEFINE X == SUBSET Keys
           stop == {S \in X : Children(tr, S) \subseteq S}
           next == [S \in X |-> S \cup Children(tr, S)]
           base == [S \in X |-> S]
           Q == {S \in X : n \in S /\ S \subseteq D}
           w == [S \in X |-> Cardinality(Keys \ S)]
<1>2. Returns(X, stop, next, base, f)
  <2>1. \A S \in X : (IF S \in stop THEN base[S] ELSE f[next[S]])
                     = IF Children(tr, S) \subseteq S THEN S
                       ELSE f[S \cup Children(tr, S)]
    OBVIOUS
  <2> HIDE DEF stop, next, base
  <2>. QED
    BY <1>1, <2>1 DEF Returns
<1>3. ASSUME NEW S \in Q PROVE Children(tr, S) \subseteq D
  <2> SUFFICES ASSUME NEW m \in S, NEW d \in Sides, ch[m][d] # NULL
               PROVE  ch[m][d] \in D
    BY DEF Children
  <2>1. m \in C /\ Within(lo, hi, n, m)
    OBVIOUS
  <2>2. ch[m][d] \in C /\ lo[m] <= lo[ch[m][d]] /\ hi[ch[m][d]] <= hi[m]
    BY <1>0, <2>1, ChildRange
  <2>3. lo[n] <= lo[m] /\ hi[m] <= hi[n]
    <3>1. CASE m = n
      BY <1>a, <3>1
    <3>2. CASE m # n
      BY <1>0, <2>1, <3>2, Toward
    <3>. QED
      BY <3>1, <3>2
  <2>4. ASSUME NEW c \in C, lo[m] <= lo[c], hi[c] <= hi[m]
        PROVE  Within(lo, hi, n, c)
    <3>1. /\ lo[c] \in Nat /\ hi[c] \in Nat /\ lo[c] < c /\ c < hi[c]
          /\ lo[m] \in Nat /\ hi[m] \in Nat /\ lo[n] \in Nat /\ hi[n] \in Nat
          /\ c \in Nat
      BY <1>0, <1>a, <2>1
    <3>. QED
      BY <2>3, <2>4, <3>1 DEF Within
  <2>. QED
    BY <2>2, <2>4
<1>4. ASSUME NEW S \in Q, S \notin stop
      PROVE  next[S] \in Q /\ w[next[S]] < w[S]
  <2>1. S \cup Children(tr, S) \in Q /\ next[S] = S \cup Children(tr, S)
    BY <1>0, <1>3
  <2>2. PICK c \in Children(tr, S) : c \notin S
    BY <1>4
  <2>3. c \in Keys
    BY <1>0, <1>3, <2>2
  <2>4. Keys \ (S \cup Children(tr, S)) \subseteq (Keys \ S) \ {c}
    BY <2>2
  <2>5. IsFiniteSet(Keys \ S) /\ IsFiniteSet((Keys \ S) \ {c})
    BY KeysAssumption, FS_Difference
  <2>6. Cardinality((Keys \ S) \ {c}) = Cardinality(Keys \ S) - 1
    BY <2>2, <2>3, <2>5, FS_RemoveElement
  <2>7. Cardinality(Keys \ (S \cup Children(tr, S)))
          <= Cardinality((Keys \ S) \ {c})
    BY <2>4, <2>5, FS_Subset
  <2>8. /\ Cardinality(Keys \ S) \in Nat
        /\ Cardinality(Keys \ (S \cup Children(tr, S))) \in Nat
    <3>1. IsFiniteSet(Keys \ (S \cup Children(tr, S)))
      BY KeysAssumption, FS_Difference
    <3>. QED
      BY <2>5, <3>1, FS_CardinalityType
  <2>9. /\ w[S] = Cardinality(Keys \ S)
        /\ w[next[S]] = Cardinality(Keys \ (S \cup Children(tr, S)))
    BY <2>1
  <2>. QED
    BY <2>1, <2>6, <2>7, <2>8, <2>9
<1>5. \A S \in Q : w[S] \in Nat
  <2>1. ASSUME NEW S \in Q PROVE Cardinality(Keys \ S) \in Nat
    BY KeysAssumption, FS_Difference, FS_CardinalityType
  <2>. QED
    BY <2>1
<1>6. {n} \ {NULL} = {n} /\ {n} \in Q
  BY <1>0, <1>a DEF Within
<1>7. PICK e \in Q : e \in stop /\ f[{n}] = base[e]
  <2>1. Q \in SUBSET X
    OBVIOUS
  <2> HIDE DEF X, Q, stop, next, base, w
  <2>. QED
    BY <1>2, <1>4, <1>5, <1>6, <2>1, FollowEnds
<1>8. Subtree(tr, n) = e /\ e \subseteq D /\ n \in e /\ Children(tr, e) \subseteq e
  BY <1>1, <1>6, <1>7
<1>9. ASSUME NEW m \in D PROVE m \in e
  <2> DEFINE W == {hi[x] - lo[x] : x \in {y \in e : Within(lo, hi, y, m)}}
  <2>0. ASSUME NEW x \in e PROVE hi[x] - lo[x] \in Nat
    <3>1. lo[x] \in Nat /\ hi[x] \in Nat /\ lo[x] < x /\ x < hi[x] /\ x \in Nat
      BY <1>0, <1>a, <1>8
    <3>. QED
      BY <3>1
  <2>1. W \in SUBSET Nat /\ W # {}
    BY <1>8, <2>0
  <2>2. PICK v \in W : \A k \in W : v <= k
    BY <2>1, LeastExists
  <2>3. PICK x \in e : Within(lo, hi, x, m) /\ v = hi[x] - lo[x]
    BY <2>2
  <2>4. SUFFICES ASSUME x # m PROVE FALSE
    BY <2>3
  <2>5. x \in C /\ m \in C
    BY <1>8
  <2> DEFINE c == ch[x][Side(m, x)]
  <2>6. c # NULL /\ Within(lo, hi, c, m)
    BY <1>0, <2>3, <2>4, <2>5, Toward
  <2>7. Side(m, x) \in Sides
    BY DEF Side, Sides
  <2>8. hi[c] - lo[c] < hi[x] - lo[x]
    BY <1>0, <2>5, <2>6, <2>7, ChildRange
  <2>9. c \in e
    BY <1>8, <2>6, <2>7 DEF Children
  <2>10. hi[c] - lo[c] \in W
    BY <2>6, <2>9
  <2>11. v <= hi[c] - lo[c] /\ hi[c] - lo[c] \in Nat /\ hi[x] - lo[x] \in Nat
    BY <2>0, <2>2, <2>9, <2>10
  <2> HIDE DEF W, c
  <2>. QED
    BY <2>3, <2>8, <2>11
<1>. QED
  BY <1>8, <1>9

(* Nothing is below a missing child.                                       *)
LEMMA SubtreeNull ==
  ASSUME NEW tr \in Tree
  PROVE  Subtree(tr, NULL) = {}
<1>1. PICK f :
        /\ f = [S \in SUBSET Keys |->
                  IF Children(tr, S) \subseteq S THEN S
                  ELSE f[S \cup Children(tr, S)]]
        /\ Subtree(tr, NULL) = f[{NULL} \ {NULL}]
  BY SubtreeEquation
<1>2. Children(tr, {}) = {} /\ {NULL} \ {NULL} = {}
  BY DEF Children
<1>3. {} \in SUBSET Keys /\ Children(tr, {}) \subseteq {}
  BY <1>2
<1>4. f[{}] = {}
  BY <1>1, <1>3, Zenon
<1>. QED
  BY <1>1, <1>2, <1>4

(* The nodes of the tree are those below its root.                         *)
LEMMA ContentsIs ==
  ASSUME NEW tr, NEW C, NEW lo, NEW hi, NEW M, TreeShape(tr, C, lo, hi, M)
  PROVE  Subtree(tr, tr.root) = C
<1>1. CASE tr.root = NULL
  <2>1. C = {} /\ tr \in Tree
    BY <1>1 DEF TreeShape, Shape, Links
  <2>. QED
    BY <1>1, <2>1, SubtreeNull
<1>2. CASE tr.root # NULL
  <2>1. /\ tr.root \in C /\ lo[tr.root] = 0 /\ hi[tr.root] = M /\ C \subseteq Keys
        /\ \A k \in Keys : k < M
    BY <1>2 DEF TreeShape, Shape, Links, Ranges
  <2>2. \A m \in C : Within(lo, hi, tr.root, m)
    BY <2>1, KeysNat DEF Within
  <2>. QED
    BY <2>1, <2>2, SubtreeIs
<1>. QED
  BY <1>1, <1>2

-----------------------------------------------------------------------------
(* The loops that walk through the tree.                                   *)

(* The search for k comes to k, or to a free link on its side of a node in *)
(* whose range k is.                                                       *)
LEMMA DescendIs ==
  ASSUME NEW tr, NEW C, NEW lo, NEW hi, NEW M, TreeShape(tr, C, lo, hi, M),
         NEW k \in Keys
  PROVE  LET p == Descend(tr, k)[1]
             d == Descend(tr, k)[2]
         IN /\ tr.root = NULL => Descend(tr, k) = <<NULL, "left">>
            /\ tr.root # NULL =>
                 /\ p \in C /\ d = Side(k, p) /\ Within(lo, hi, p, k)
                 /\ p = k \/ tr.child[p][d] = NULL
            /\ p = k <=> k \in C
<1> DEFINE ch == tr.child
           X == Keys
           stop == {x \in Keys : x = k \/ ch[x][Side(k, x)] = NULL}
           next == [x \in Keys |-> ch[x][Side(k, x)]]
           base == [x \in Keys |-> <<x, Side(k, x)>>]
           Rec(f) == [n \in Keys |->
                        LET d == IF k < n THEN "left" ELSE "right"
                        IN IF n = k \/ tr.child[n][d] = NULL THEN <<n, d>>
                           ELSE f[tr.child[n][d]]]
           g == CHOOSE f : f = Rec(f)
<1>0. /\ C \subseteq Keys /\ C \subseteq Nat /\ NULL \notin C /\ tr \in Tree
      /\ Shape(tr.root, ch, tr.parent, C, lo, hi, M)
  BY KeysNat DEF TreeShape, Shape, Links
<1>1. \A x \in X : x \notin stop => next[x] \in X
  BY <1>0 DEF Tree, Pointer, Sides, Side
<1>2. PICK f0 : Returns(X, stop, next, base, f0)
  <2> HIDE DEF X, stop, next, base
  <2>. QED
    BY <1>1, FollowExists
<1>3. ASSUME NEW f
      PROVE  Rec(f) = [x \in X |-> IF x \in stop THEN base[x] ELSE f[next[x]]]
  BY DEF Side
<1>4. f0 = Rec(f0)
  <2> HIDE DEF Rec, X, stop, next, base
  <2>. QED
    BY <1>2, <1>3 DEF Returns
<1>5. g = Rec(g)
  <2> HIDE DEF Rec
  <2>. QED
    BY <1>4, Zenon
<1>6. Descend(tr, k) = IF tr.root = NULL THEN <<NULL, "left">> ELSE g[tr.root]
  BY Zenon DEF Descend
<1> HIDE DEF g
<1>7. Returns(X, stop, next, base, g)
  <2> HIDE DEF Rec, X, stop, next, base
  <2>. QED
    BY <1>3, <1>5 DEF Returns
<1>8. CASE tr.root = NULL
  <2>1. C = {} /\ k # NULL
    BY <1>0, <1>8, KeysNat DEF Shape, Links
  <2>. QED
    BY <1>6, <1>8, <2>1
<1>9. CASE tr.root # NULL
  <2> DEFINE Q == {x \in C : Within(lo, hi, x, k)}
             w == [x \in C |-> hi[x] - lo[x]]
  <2>1. tr.root \in Q
    <3>1. /\ tr.root \in C /\ lo[tr.root] = 0 /\ hi[tr.root] = M /\ k < M
      BY <1>0, <1>9 DEF Shape, Links, Ranges
    <3>. QED
      BY <3>1, KeysNat DEF Within
  <2>2. ASSUME NEW x \in C PROVE w[x] \in Nat
    <3>1. lo[x] \in Nat /\ hi[x] \in Nat /\ lo[x] < x /\ x < hi[x] /\ x \in Nat
      BY <1>0 DEF Shape, Ranges
    <3>. QED
      BY <3>1
  <2>3. ASSUME NEW x \in Q, x \notin stop
        PROVE  next[x] \in Q /\ w[next[x]] < w[x]
    <3> DEFINE c == ch[x][Side(k, x)]
    <3>1. x \in C /\ Within(lo, hi, x, k) /\ x # k /\ c # NULL
      BY <1>0, <2>3
    <3>2. Side(k, x) \in Sides
      BY DEF Side, Sides
    <3>3. /\ c \in C /\ hi[c] - lo[c] < hi[x] - lo[x]
          /\ Side(k, x) = "left" => lo[c] = lo[x] /\ hi[c] = x
          /\ Side(k, x) = "right" => lo[c] = x /\ hi[c] = hi[x]
      BY <1>0, <3>1, <3>2, ChildRange
    <3>4. k \in Nat /\ x \in Nat
      BY <1>0, KeysNat
    <3>5. Within(lo, hi, c, k)
      <4>1. lo[x] < k /\ k < hi[x]
        BY <3>1 DEF Within
      <4>. QED
        BY <3>1, <3>3, <3>4, <4>1 DEF Within, Side
    <3>6. next[x] = c
      BY <1>0, <3>1
    <3>. QED
      BY <3>1, <3>3, <3>5, <3>6
  <2>4. PICK e \in Q : e \in stop /\ g[tr.root] = base[e]
    <3>1. Q \in SUBSET X /\ \A x \in Q : w[x] \in Nat
      BY <1>0, <2>2
    <3> HIDE DEF X, Q, stop, next, base, w
    <3>. QED
      BY <1>7, <2>1, <2>3, <3>1, FollowEnds
  <2>5. Descend(tr, k) = <<e, Side(k, e)>>
    BY <1>0, <1>6, <1>9, <2>4
  <2>6. e \in C /\ Within(lo, hi, e, k) /\ (e = k \/ ch[e][Side(k, e)] = NULL)
    BY <2>4
  <2>7. k \in C => e = k
    BY <1>0, <2>6, Toward
  <2>. QED
    BY <1>9, <2>5, <2>6, <2>7
<1>. QED
  BY <1>8, <1>9

(* The way down one side ends at the outermost node below n, whose range   *)
(* ends where that of n does.                                              *)
LEMMA ExtremeIs ==
  ASSUME NEW tr, NEW C, NEW lo, NEW hi, NEW M, TreeShape(tr, C, lo, hi, M),
         NEW n \in C, NEW d \in Sides
  PROVE  LET e == Extreme(tr, n, d)
         IN /\ e \in C /\ tr.child[e][d] = NULL /\ Within(lo, hi, n, e)
            /\ d = "left" =>
                 lo[e] = lo[n] /\ \A m \in C : Within(lo, hi, n, m) => e <= m
            /\ d = "right" =>
                 hi[e] = hi[n] /\ \A m \in C : Within(lo, hi, n, m) => m <= e
<1> DEFINE ch == tr.child
           X == Keys
           stop == {x \in Keys : ch[x][d] = NULL}
           next == [x \in Keys |-> ch[x][d]]
           base == [x \in Keys |-> x]
           Rec(f) == [m \in Keys |-> IF tr.child[m][d] = NULL THEN m
                                     ELSE f[tr.child[m][d]]]
           g == CHOOSE f : f = Rec(f)
<1>0. /\ C \subseteq Keys /\ C \subseteq Nat /\ NULL \notin C /\ tr \in Tree
      /\ Shape(tr.root, ch, tr.parent, C, lo, hi, M)
  BY KeysNat DEF TreeShape, Shape, Links
<1>a. \A x \in C : lo[x] \in Nat /\ hi[x] \in Nat /\ lo[x] < x /\ x < hi[x]
  BY <1>0 DEF Shape, Ranges
<1>1. \A x \in X : x \notin stop => next[x] \in X
  BY <1>0 DEF Tree, Pointer
<1>2. PICK f0 : Returns(X, stop, next, base, f0)
  <2> HIDE DEF X, stop, next, base
  <2>. QED
    BY <1>1, FollowExists
<1>3. ASSUME NEW f
      PROVE  Rec(f) = [x \in X |-> IF x \in stop THEN base[x] ELSE f[next[x]]]
  OBVIOUS
<1>4. f0 = Rec(f0)
  <2> HIDE DEF Rec, X, stop, next, base
  <2>. QED
    BY <1>2, <1>3 DEF Returns
<1>5. g = Rec(g)
  <2> HIDE DEF Rec
  <2>. QED
    BY <1>4, Zenon
<1>6. Extreme(tr, n, d) = IF n = NULL THEN NULL ELSE g[n]
  BY Zenon DEF Extreme
<1> HIDE DEF g
<1>7. Returns(X, stop, next, base, g)
  <2> HIDE DEF Rec, X, stop, next, base
  <2>. QED
    BY <1>3, <1>5 DEF Returns
<1> DEFINE Q == {x \in C : /\ lo[n] <= lo[x] /\ hi[x] <= hi[n]
                           /\ d = "left" => lo[x] = lo[n]
                           /\ d = "right" => hi[x] = hi[n]}
           w == [x \in C |-> hi[x] - lo[x]]
<1>8. n \in Q
  BY <1>a
<1>9. ASSUME NEW x \in C PROVE w[x] \in Nat
  <2>1. lo[x] \in Nat /\ hi[x] \in Nat /\ lo[x] < x /\ x < hi[x] /\ x \in Nat
    BY <1>0, <1>a
  <2>. QED
    BY <2>1
<1>10. ASSUME NEW x \in Q, x \notin stop
       PROVE  next[x] \in Q /\ w[next[x]] < w[x]
  <2> DEFINE c == ch[x][d]
  <2>1. x \in C /\ c # NULL /\ next[x] = c
    BY <1>0, <1>10
  <2>2. /\ c \in C /\ lo[x] <= lo[c] /\ hi[c] <= hi[x]
        /\ d = "left" => lo[c] = lo[x]
        /\ d = "right" => hi[c] = hi[x]
        /\ hi[c] - lo[c] < hi[x] - lo[x]
    BY <1>0, <2>1, ChildRange
  <2>3. /\ lo[n] \in Nat /\ hi[n] \in Nat /\ lo[x] \in Nat /\ hi[x] \in Nat
        /\ lo[c] \in Nat /\ hi[c] \in Nat
    BY <1>a, <2>1, <2>2
  <2>4. c \in Q
    <3> HIDE DEF c
    <3>. QED
      BY <2>2, <2>3
  <2>. QED
    BY <2>1, <2>2, <2>4
<1>11. PICK e \in Q : e \in stop /\ g[n] = base[e]
  <2>1. Q \in SUBSET X /\ \A x \in Q : w[x] \in Nat
    BY <1>0, <1>9
  <2> HIDE DEF X, Q, stop, next, base, w
  <2>. QED
    BY <1>7, <1>8, <1>10, <2>1, FollowEnds
<1>12. Extreme(tr, n, d) = e /\ e \in C /\ ch[e][d] = NULL
  BY <1>0, <1>6, <1>11
<1>13. /\ lo[n] <= lo[e] /\ hi[e] <= hi[n]
       /\ d = "left" => lo[e] = lo[n]
       /\ d = "right" => hi[e] = hi[n]
       /\ lo[n] \in Nat /\ hi[n] \in Nat /\ lo[e] \in Nat /\ hi[e] \in Nat
       /\ lo[e] < e /\ e < hi[e] /\ e \in Nat
  BY <1>0, <1>a, <1>11
<1>14. Within(lo, hi, n, e)
  BY <1>13 DEF Within
<1>15. ASSUME NEW m \in C, Within(lo, hi, n, m), m # e, Side(m, e) = d
       PROVE  FALSE
  <2>1. lo[n] < m /\ m < hi[n] /\ m \in Nat
    BY <1>0, <1>15 DEF Within
  <2>2. Within(lo, hi, e, m)
    BY <1>13, <1>15, <2>1 DEF Within, Side, Sides
  <2>. QED
    BY <1>0, <1>12, <1>15, <2>2, Toward
<1>16. \A m \in C : Within(lo, hi, n, m) =>
         (d = "left" => e <= m) /\ (d = "right" => m <= e)
  <2> SUFFICES ASSUME NEW m \in C, Within(lo, hi, n, m)
               PROVE  (d = "left" => e <= m) /\ (d = "right" => m <= e)
    OBVIOUS
  <2>1. m \in Nat /\ e \in Nat
    BY <1>0, <1>13
  <2>2. m = e \/ Side(m, e) # d
    BY <1>15
  <2>. QED
    BY <2>1, <2>2 DEF Side, Sides
<1>. QED
  BY <1>12, <1>13, <1>14, <1>16

(* m is beyond n in direction d.                                           *)
Beyond(d, n, m) == IF d = "right" THEN n < m ELSE m < n

(* Without a child on side d the next node in that direction is where the  *)
(* range of n ends, and there is none when the range ends with the keys.   *)
LEMMA ClimbIs ==
  ASSUME NEW tr, NEW C, NEW lo, NEW hi, NEW M, TreeShape(tr, C, lo, hi, M),
         NEW n \in C, NEW d \in Sides, tr.child[n][d] = NULL
  PROVE  Neighbour(tr, n, d)
           = IF d = "right" THEN IF hi[n] = M THEN NULL ELSE hi[n]
             ELSE IF lo[n] = 0 THEN NULL ELSE lo[n]
<1> DEFINE ch == tr.child
           par == tr.parent
           X == Keys
           stop == {x \in Keys : ~(par[x] # NULL /\ ch[par[x]][d] = x)}
           next == [x \in Keys |-> par[x]]
           base == [x \in Keys |-> par[x]]
           Rec(f) == [m \in Keys |->
                        LET p == tr.parent[m]
                        IN IF p # NULL /\ tr.child[p][d] = m THEN f[p] ELSE p]
           g == CHOOSE f : f = Rec(f)
<1>0. /\ C \subseteq Keys /\ C \subseteq Nat /\ NULL \notin C /\ tr \in Tree
      /\ Shape(tr.root, ch, par, C, lo, hi, M)
  BY KeysNat DEF TreeShape, Shape, Links
<1>a. /\ \A x \in C : lo[x] \in Nat /\ hi[x] \in Nat /\ lo[x] < x /\ x < hi[x]
      /\ \A x \in C : hi[x] <= M
      /\ M \in Nat /\ M \notin Keys
  BY <1>0, KeysNat DEF Shape, Ranges
<1>1. \A x \in X : x \notin stop => next[x] \in X
  BY <1>0 DEF Tree, Pointer
<1>2. PICK f0 : Returns(X, stop, next, base, f0)
  <2> HIDE DEF X, stop, next, base
  <2>. QED
    BY <1>1, FollowExists
<1>3. ASSUME NEW f
      PROVE  Rec(f) = [x \in X |-> IF x \in stop THEN base[x] ELSE f[next[x]]]
  OBVIOUS
<1>4. f0 = Rec(f0)
  <2> HIDE DEF Rec, X, stop, next, base
  <2>. QED
    BY <1>2, <1>3 DEF Returns
<1>5. g = Rec(g)
  <2> HIDE DEF Rec
  <2>. QED
    BY <1>4, Zenon
<1>6. Neighbour(tr, n, d) = g[n]
  <2>1. Neighbour(tr, n, d)
          = IF tr.child[n][d] # NULL
            THEN Extreme(tr, tr.child[n][d], Opposite(d)) ELSE g[n]
    BY Zenon DEF Neighbour
  <2>. QED
    BY <2>1
<1> HIDE DEF g
<1>7. Returns(X, stop, next, base, g)
  <2> HIDE DEF Rec, X, stop, next, base
  <2>. QED
    BY <1>3, <1>5 DEF Returns
<1> DEFINE Q == {x \in C : /\ d = "left" => lo[x] = lo[n]
                           /\ d = "right" => hi[x] = hi[n]}
           w == [x \in C |-> M - (hi[x] - lo[x])]
<1>8. n \in Q
  BY <1>a
<1>9. ASSUME NEW x \in C PROVE w[x] \in Nat
  <2>1. /\ lo[x] \in Nat /\ hi[x] \in Nat /\ lo[x] < x /\ x < hi[x] /\ x \in Nat
        /\ hi[x] <= M /\ M \in Nat
    BY <1>0, <1>a
  <2>. QED
    BY <2>1
<1>10. ASSUME NEW x \in Q, x \notin stop
       PROVE  next[x] \in Q /\ w[next[x]] < w[x]
  <2> DEFINE p == par[x]
  <2>1. x \in C /\ p # NULL /\ ch[p][d] = x /\ next[x] = p
    BY <1>0, <1>10
  <2>2. p \in C /\ x # NULL
    BY <1>0, <2>1 DEF Shape, Links
  <2>3. /\ d = "left" => lo[x] = lo[p]
        /\ d = "right" => hi[x] = hi[p]
        /\ hi[x] - lo[x] < hi[p] - lo[p]
    BY <1>0, <2>1, <2>2, ChildRange
  <2>4. p \in Q
    BY <2>2, <2>3
  <2>5. /\ lo[x] \in Nat /\ hi[x] \in Nat /\ lo[p] \in Nat /\ hi[p] \in Nat
        /\ M \in Nat
    BY <1>a, <2>1, <2>2
  <2>6. M - (hi[p] - lo[p]) < M - (hi[x] - lo[x])
    <3> HIDE DEF p
    <3>. QED
      BY <2>3, <2>5
  <2>. QED
    BY <2>1, <2>2, <2>4, <2>6
<1>11. PICK e \in Q : e \in stop /\ g[n] = base[e]
  <2>1. Q \in SUBSET X /\ \A x \in Q : w[x] \in Nat
    BY <1>0, <1>9
  <2> HIDE DEF X, Q, stop, next, base, w
  <2>. QED
    BY <1>7, <1>8, <1>10, <2>1, FollowEnds
<1>12. Neighbour(tr, n, d) = par[e] /\ e \in C /\ e \in Keys
  BY <1>0, <1>6, <1>11
<1>13. /\ d = "left" => lo[e] = lo[n]
       /\ d = "right" => hi[e] = hi[n]
  BY <1>11
<1>14. CASE e = tr.root
  <2>1. par[e] = NULL /\ lo[e] = 0 /\ hi[e] = M
    BY <1>0, <1>14 DEF Shape, Links, Ranges
  <2>. QED
    BY <1>12, <1>13, <2>1 DEF Sides
<1>15. CASE e # tr.root
  <2> DEFINE p == par[e]
  <2>1. PICK s \in Sides : p \in C /\ ch[p][s] = e
    BY <1>0, <1>12, <1>15 DEF Shape, Links
  <2>2. s # d
    BY <1>0, <1>11, <2>1
  <2>3. /\ s = "left" => hi[e] = p
        /\ s = "right" => lo[e] = p
    BY <1>0, <1>12, <2>1, ChildRange
  <2>4. p # M /\ p # 0
    BY <1>0, <1>a, <2>1, KeysNat
  <2>. QED
    BY <1>12, <1>13, <2>2, <2>3, <2>4 DEF Sides
<1>. QED
  BY <1>14, <1>15

(* rb_next and rb_prev.                                                    *)
LEMMA NeighbourIs ==
  ASSUME NEW tr, NEW C, NEW lo, NEW hi, NEW M, TreeShape(tr, C, lo, hi, M),
         NEW n \in C, NEW d \in Sides
  PROVE  LET v == Neighbour(tr, n, d)
         IN \/ v = NULL /\ \A m \in C : ~Beyond(d, n, m)
            \/ /\ v \in C /\ Beyond(d, n, v)
               /\ \A m \in C : Beyond(d, n, m) => m = v \/ Beyond(d, v, m)
<1> DEFINE ch == tr.child
           v == Neighbour(tr, n, d)
<1>0. /\ C \subseteq Keys /\ C \subseteq Nat /\ NULL \notin C
      /\ Shape(tr.root, ch, tr.parent, C, lo, hi, M)
  BY KeysNat DEF TreeShape, Shape, Links
<1>a. /\ \A x \in C : lo[x] \in Nat /\ hi[x] \in Nat /\ lo[x] < x /\ x < hi[x]
      /\ \A x \in C : hi[x] \in C \cup {M} /\ lo[x] \in C \cup {0} /\ x < M
      /\ M \in Nat
  BY <1>0, KeysNat DEF Shape, Ranges
<1>1. CASE ch[n][d] # NULL
  <2> DEFINE c == ch[n][d]
  <2>1. Opposite(d) \in Sides /\ v = Extreme(tr, c, Opposite(d))
    <3>1. Opposite(d) \in Sides
      BY DEF Opposite, Sides
    <3>2. v = Extreme(tr, c, Opposite(d))
      BY <1>1, Zenon DEF Neighbour
    <3>. QED
      BY <3>1, <3>2
  <2>2. /\ c \in C
        /\ d = "left" => lo[c] = lo[n] /\ hi[c] = n
        /\ d = "right" => lo[c] = n /\ hi[c] = hi[n]
    BY <1>0, <1>1, ChildRange
  <2>3. /\ v \in C /\ Within(lo, hi, c, v)
        /\ d = "right" => \A m \in C : Within(lo, hi, c, m) => v <= m
        /\ d = "left" => \A m \in C : Within(lo, hi, c, m) => m <= v
    BY <2>1, <2>2, ExtremeIs DEF Opposite, Sides
  <2> HIDE DEF v
  <2>4. Beyond(d, n, v)
    BY <2>2, <2>3 DEF Beyond, Within, Sides
  <2>5. ASSUME NEW m \in C, Beyond(d, n, m) PROVE m = v \/ Beyond(d, v, m)
    <3>1. m \in Nat /\ n \in Nat /\ v \in Nat /\ lo[n] \in Nat /\ hi[n] \in Nat
      BY <1>0, <1>a, <2>3
    <3>2. lo[n] < n /\ n < hi[n]
      BY <1>a
    <3>3. lo[c] < v /\ v < hi[c]
      BY <2>3 DEF Within
    <3>4. d = "right" \/ d = "left"
      BY DEF Sides
    <3> HIDE DEF c
    <3>5. CASE Within(lo, hi, c, m)
      BY <2>3, <3>1, <3>4, <3>5 DEF Beyond
    <3>6. CASE ~Within(lo, hi, c, m)
      BY <2>2, <2>5, <3>1, <3>2, <3>3, <3>4, <3>6 DEF Beyond, Within
    <3>. QED
      BY <3>5, <3>6
  <2>. QED
    BY <2>3, <2>4, <2>5 DEF v
<1>2. CASE ch[n][d] = NULL
  <2>1. v = IF d = "right" THEN IF hi[n] = M THEN NULL ELSE hi[n]
            ELSE IF lo[n] = 0 THEN NULL ELSE lo[n]
    BY <1>2, ClimbIs
  <2> HIDE DEF v
  <2>2. ASSUME NEW m \in C, Beyond(d, n, m)
        PROVE  /\ d = "right" => hi[n] <= m
               /\ d = "left" => m <= lo[n]
    <3>1. m \in Nat /\ n \in Nat /\ lo[n] \in Nat /\ hi[n] \in Nat
      BY <1>0, <1>a
    <3>2. lo[n] < n /\ n < hi[n] /\ m # n
      BY <1>a, <2>2, <3>1 DEF Beyond
    <3>3. ASSUME Within(lo, hi, n, m) PROVE FALSE
      <4>1. Side(m, n) = d
        BY <2>2, <3>1 DEF Side, Beyond, Sides
      <4>. QED
        BY <1>0, <1>2, <3>2, <3>3, <4>1, Toward
    <3>. QED
      BY <2>2, <3>1, <3>2, <3>3 DEF Within, Beyond
  <2>3. /\ lo[n] \in Nat /\ hi[n] \in Nat /\ lo[n] < n /\ n < hi[n] /\ n \in Nat
        /\ hi[n] \in C \cup {M} /\ lo[n] \in C \cup {0} /\ M \in Nat
    BY <1>0, <1>a
  <2>4. \A m \in C : m \in Nat /\ m < M /\ 0 < m
    BY <1>0, <1>a, KeysNat
  <2>5. CASE d = "right"
    BY <2>1, <2>2, <2>3, <2>4, <2>5 DEF Beyond, v
  <2>6. CASE d = "left"
    BY <2>1, <2>2, <2>3, <2>4, <2>6 DEF Beyond, v
  <2>. QED
    BY <2>5, <2>6 DEF Sides
<1>. QED
  BY <1>1, <1>2

-----------------------------------------------------------------------------
(* What the shape of the tree says about the properties.                   *)

(* Every node but the root hangs from one link.                            *)
LEMMA LinksCount ==
  ASSUME NEW r, NEW ch, NEW par, NEW C, NEW lo, NEW hi, NEW M,
         Shape(r, ch, par, C, lo, hi, M), r # NULL
  PROVE  Cardinality({l \in C \X Sides : ch[l[1]][l[2]] # NULL})
           = Cardinality(C) - 1
<1> DEFINE links == {l \in C \X Sides : ch[l[1]][l[2]] # NULL}
           T == C \ {r}
           f == [m \in T |-> <<par[m], Side(m, par[m])>>]
<1>0. /\ C \subseteq Keys /\ NULL \notin C /\ r \in C /\ par[r] = NULL
  BY KeysNat DEF Shape, Links
<1>1. IsFiniteSet(C)
  BY <1>0, KeysAssumption, FS_Subset
<1>2. IsFiniteSet(T) /\ Cardinality(T) = Cardinality(C) - 1
  BY <1>0, <1>1, FS_RemoveElement
<1>3. \A m \in T : par[m] \in C /\ ch[par[m]][Side(m, par[m])] = m
  BY ParentRange
<1>4. \A m, n : Side(m, n) \in Sides
  BY DEF Side, Sides
<1>5. f \in [T -> links]
  BY <1>0, <1>3, <1>4
<1>6. \A a, b \in T : f[a] = f[b] => a = b
  BY <1>3
<1>7. ASSUME NEW l \in links PROVE \E m \in T : f[m] = l
  <2> DEFINE m == ch[l[1]][l[2]]
  <2>1. l[1] \in C /\ l[2] \in Sides /\ l = <<l[1], l[2]>> /\ m # NULL
    OBVIOUS
  <2>2. m \in C /\ par[m] = l[1] /\ l[2] = Side(m, l[1])
    BY <2>1, ChildRange
  <2>3. m # r
    BY <1>0, <2>1, <2>2
  <2> HIDE DEF m
  <2>. QED
    BY <2>1, <2>2, <2>3
<1>8. f \in Bijection(T, links)
  <2>1. IsInjective(f)
    <3> HIDE DEF T
    <3>1. \A a, b \in DOMAIN f : f[a] = f[b] => a = b
      BY <1>6
    <3> HIDE DEF f
    <3>. QED
      BY <3>1 DEF IsInjective
  <2> HIDE DEF f, T, links
  <2>. QED
    BY <1>5, <1>7, <2>1 DEF Bijection, Injection, Surjection
<1>9. Cardinality(links) = Cardinality(T)
  <2> HIDE DEF f, T, links
  <2>. QED
    BY <1>2, <1>8, FS_Bijection DEF ExistsBijection
<1>. QED
  BY <1>2, <1>9

(* The links, the order and the walks are right.                           *)
LEMMA ShapeGives ==
  ASSUME NEW C, NEW lo, NEW hi, NEW M, TreeShape(t, C, lo, hi, M)
  PROVE  Contents = C /\ LinksSound /\ SearchOrder /\ WalkInOrder
<1> DEFINE ch == t.child
<1>0. /\ C \subseteq Keys /\ C \subseteq Nat /\ NULL \notin C /\ t \in Tree
      /\ Shape(t.root, ch, t.parent, C, lo, hi, M)
  BY KeysNat DEF TreeShape, Shape, Links
<1>a. /\ \A x \in C : lo[x] \in Nat /\ hi[x] \in Nat /\ lo[x] < x /\ x < hi[x]
      /\ \A x \in C : x < M /\ 0 < x
      /\ t.root # NULL => lo[t.root] = 0 /\ hi[t.root] = M
  BY <1>0, KeysNat DEF Shape, Ranges
<1>1. Contents = C
  BY ContentsIs DEF Contents
<1>2. LinksSound
  <2>1. t.root # NULL => t.parent[t.root] = NULL
    BY <1>0 DEF Shape, Links
  <2>2. ASSUME NEW l \in {k \in C \X Sides : t.child[k[1]][k[2]] # NULL}
        PROVE  t.parent[t.child[l[1]][l[2]]] = l[1]
    <3>1. l[1] \in C /\ l[2] \in Sides /\ ch[l[1]][l[2]] # NULL
      OBVIOUS
    <3>. QED
      BY <1>0, <3>1 DEF Shape, Links
  <2>3. t.root # NULL =>
          Cardinality({l \in C \X Sides : t.child[l[1]][l[2]] # NULL})
            = Cardinality(C) - 1
    BY <1>0, LinksCount
  <2>4. ASSUME NEW k \in Keys \ C
        PROVE  t.child[k] = NoChildren /\ t.parent[k] = NULL
    <3>1. t.parent[k] = NULL /\ \A d \in Sides : t.child[k][d] = NULL
      BY <1>0 DEF Shape, Links
    <3>2. t.child[k] \in [Sides -> Pointer]
      BY <1>0 DEF Tree
    <3>. QED
      BY <3>1, <3>2 DEF NoChildren
  <2>. QED
    BY <1>1, <2>1, <2>2, <2>3, <2>4 DEF LinksSound
<1>3. SearchOrder
  <2> SUFFICES ASSUME NEW n \in C
               PROVE  /\ \A m \in Subtree(t, ch[n]["left"]) : m < n
                      /\ \A m \in Subtree(t, ch[n]["right"]) : n < m
    BY <1>1 DEF SearchOrder
  <2>1. ASSUME NEW d \in Sides, NEW m \in Subtree(t, ch[n][d])
        PROVE  Side(m, n) = d /\ m # n /\ m \in Nat
    <3> DEFINE c == ch[n][d]
    <3>1. c # NULL
      BY <1>0, <2>1, SubtreeNull
    <3>2. /\ c \in C
          /\ d = "left" => lo[c] = lo[n] /\ hi[c] = n
          /\ d = "right" => lo[c] = n /\ hi[c] = hi[n]
      BY <1>0, <3>1, ChildRange
    <3>3. m \in C /\ Within(lo, hi, c, m)
      BY <2>1, <3>2, SubtreeIs
    <3>4. lo[c] < m /\ m < hi[c] /\ m \in Nat /\ n \in Nat
      BY <1>0, <3>3 DEF Within
    <3> HIDE DEF c
    <3>. QED
      BY <3>2, <3>4 DEF Side, Sides
  <2>2. "left" \in Sides /\ "right" \in Sides /\ n \in Nat
    BY <1>0 DEF Sides
  <2>. QED
    BY <2>1, <2>2 DEF Side
<1>4. WalkInOrder
  <2> DEFINE Least(S) == IF S = {} THEN NULL
                         ELSE CHOOSE x \in S : \A y \in S : x <= y
             Most(S) == IF S = {} THEN NULL
                        ELSE CHOOSE x \in S : \A y \in S : y <= x
  <2>1. ASSUME NEW S \in SUBSET C, NEW v,
               \/ v = NULL /\ S = {}
               \/ v \in S /\ \A y \in S : v <= y
        PROVE  v = Least(S)
    <3>1. CASE S = {}
      BY <2>1, <3>1
    <3>2. CASE S # {}
      <4>1. v \in S /\ \A y \in S : v <= y
        BY <2>1, <3>2
      <4>2. \A x \in S : x \in Nat
        BY <1>0
      <4>3. \A x \in S : (\A y \in S : x <= y) => x = v
        BY <4>1, <4>2
      <4>. QED
        BY <3>2, <4>1, <4>3
    <3>. QED
      BY <3>1, <3>2
  <2>2. ASSUME NEW S \in SUBSET C, NEW v,
               \/ v = NULL /\ S = {}
               \/ v \in S /\ \A y \in S : y <= v
        PROVE  v = Most(S)
    <3>1. CASE S = {}
      BY <2>2, <3>1
    <3>2. CASE S # {}
      <4>1. v \in S /\ \A y \in S : y <= v
        BY <2>2, <3>2
      <4>2. \A x \in S : x \in Nat
        BY <1>0
      <4>3. \A x \in S : (\A y \in S : y <= x) => x = v
        BY <4>1, <4>2
      <4>. QED
        BY <3>2, <4>1, <4>3
    <3>. QED
      BY <3>1, <3>2
  <2> HIDE DEF Least, Most
  <2>3. "left" \in Sides /\ "right" \in Sides
    BY DEF Sides
  <2>4. rb_first(t) = Least(C) /\ rb_last(t) = Most(C)
    <3>1. CASE t.root = NULL
      <4>1. C = {}
        BY <1>0, <3>1 DEF Shape, Links
      <4>2. rb_first(t) = NULL /\ rb_last(t) = NULL
        BY <3>1, Zenon DEF rb_first, rb_last, Extreme
      <4>. QED
        BY <2>1, <2>2, <4>1, <4>2
    <3>2. CASE t.root # NULL
      <4>1. t.root \in C
        BY <1>0, <3>2 DEF Shape, Links
      <4>2. \A m \in C : Within(lo, hi, t.root, m)
        BY <1>a, <3>2 DEF Within
      <4>3. rb_first(t) \in C /\ \A y \in C : rb_first(t) <= y
        BY <2>3, <4>1, <4>2, ExtremeIs DEF rb_first
      <4>4. rb_last(t) \in C /\ \A y \in C : y <= rb_last(t)
        BY <2>3, <4>1, <4>2, ExtremeIs DEF rb_last
      <4>. QED
        BY <2>1, <2>2, <4>3, <4>4
    <3>. QED
      BY <3>1, <3>2
  <2>5. ASSUME NEW n \in C PROVE rb_next(t, n) = Least({m \in C : n < m})
    <3> DEFINE v == Neighbour(t, n, "right")
    <3>1. \/ v = NULL /\ \A m \in C : ~(n < m)
          \/ /\ v \in C /\ n < v
             /\ \A m \in C : n < m => m = v \/ v < m
      BY <2>3, NeighbourIs DEF Beyond
    <3> HIDE DEF v
    <3>2. \A m \in C : m \in Nat
      BY <1>0
    <3>3. \/ v = NULL /\ {m \in C : n < m} = {}
          \/ v \in {m \in C : n < m} /\ \A y \in {m \in C : n < m} : v <= y
      BY <3>1, <3>2
    <3>4. v = Least({m \in C : n < m})
      BY <2>1, <3>3
    <3>. QED
      BY <3>4 DEF v, rb_next
  <2>6. ASSUME NEW n \in C PROVE rb_prev(t, n) = Most({m \in C : m < n})
    <3> DEFINE v == Neighbour(t, n, "left")
    <3>1. \/ v = NULL /\ \A m \in C : ~(m < n)
          \/ /\ v \in C /\ v < n
             /\ \A m \in C : m < n => m = v \/ m < v
      BY <2>3, NeighbourIs DEF Beyond
    <3> HIDE DEF v
    <3>2. \A m \in C : m \in Nat
      BY <1>0
    <3>3. \/ v = NULL /\ {m \in C : m < n} = {}
          \/ v \in {m \in C : m < n} /\ \A y \in {m \in C : m < n} : y <= v
      BY <3>1, <3>2
    <3>4. v = Most({m \in C : m < n})
      BY <2>2, <3>3
    <3>. QED
      BY <3>4 DEF v, rb_prev
  <2>. QED
    BY <1>1, <2>4, <2>5, <2>6, Zenon DEF WalkInOrder, Least, Most
<1>. QED
  BY <1>1, <1>2, <1>3, <1>4

-----------------------------------------------------------------------------
(* The operations on fields and links, field by field.                     *)

ParentSet(tr, m, p, u) ==
  /\ u \in Tree /\ u.root = tr.root /\ u.child = tr.child /\ u.red = tr.red
  /\ \A x \in Keys : u.parent[x] = IF x = m THEN p ELSE tr.parent[x]

(* rb_set_parent changes one parent.                                       *)
LEMMA SetParentIs ==
  ASSUME NEW tr \in Tree, NEW m \in Pointer, NEW p \in Pointer
  PROVE  ParentSet(tr, m, p, rb_set_parent(tr, m, p))
<1> DEFINE u == rb_set_parent(tr, m, p)
<1>1. CASE m = NULL
  BY <1>1, KeysNat DEF rb_set_parent, ParentSet
<1>2. CASE m # NULL
  <2>1. m \in Keys /\ u = [tr EXCEPT !.parent[m] = p]
    BY <1>2 DEF rb_set_parent, Pointer
  <2> HIDE DEF u
  <2> DEFINE q == [tr.parent EXCEPT ![m] = p]
  <2>2. u = [tr EXCEPT !.parent = q]
    BY <2>1 DEF Tree
  <2>3. tr.parent \in [Keys -> Pointer]
    BY DEF Tree
  <2>4. /\ q \in [Keys -> Pointer]
        /\ \A x \in Keys : q[x] = IF x = m THEN p ELSE tr.parent[x]
    BY <2>1, <2>3
  <2> HIDE DEF q
  <2>5. /\ u \in Tree /\ u.root = tr.root /\ u.child = tr.child
        /\ u.red = tr.red /\ u.parent = q
    BY <2>2, <2>4 DEF Tree
  <2>6. ParentSet(tr, m, p, u)
    BY <2>4, <2>5 DEF ParentSet
  <2>. QED
    BY <2>6 DEF u
<1>. QED
  BY <1>1, <1>2

Relinked(tr, p, old, new, u) ==
  /\ u \in Tree /\ u.parent = tr.parent /\ u.red = tr.red
  /\ u.root = IF p = NULL THEN new ELSE tr.root
  /\ \A x \in Keys, e \in Sides :
       u.child[x][e] =
         IF x = p /\ e = IF tr.child[p]["left"] = old THEN "left" ELSE "right"
         THEN new ELSE tr.child[x][e]

(* Relink changes the root, or one link of p.                              *)
LEMMA RelinkIs ==
  ASSUME NEW tr \in Tree, NEW p \in Pointer, NEW old, NEW new \in Pointer
  PROVE  Relinked(tr, p, old, new, Relink(tr, p, old, new))
<1> DEFINE u == Relink(tr, p, old, new)
<1>1. CASE p = NULL
  <2>1. u = [tr EXCEPT !.root = new]
    BY <1>1 DEF Relink
  <2> HIDE DEF u
  <2>2. /\ u \in Tree /\ u.parent = tr.parent /\ u.red = tr.red
        /\ u.root = new /\ u.child = tr.child
    BY <2>1 DEF Tree
  <2>3. Relinked(tr, p, old, new, u)
    BY <1>1, <2>2, KeysNat DEF Relinked
  <2>. QED
    BY <2>3 DEF u
<1>2. CASE p # NULL
  <2> DEFINE d == IF tr.child[p]["left"] = old THEN "left" ELSE "right"
  <2>1. p \in Keys /\ d \in Sides /\ u = [tr EXCEPT !.child[p][d] = new]
    BY <1>2 DEF Relink, Pointer, Sides
  <2> HIDE DEF d, u
  <2> DEFINE q == [tr.child EXCEPT ![p][d] = new]
  <2>2. u = [tr EXCEPT !.child = q]
    BY <2>1 DEF Tree
  <2>3. tr.child \in [Keys -> [Sides -> Pointer]]
    BY DEF Tree
  <2>4. /\ q \in [Keys -> [Sides -> Pointer]]
        /\ \A x \in Keys, e \in Sides :
             q[x][e] = IF x = p /\ e = d THEN new ELSE tr.child[x][e]
    BY <2>1, <2>3
  <2> HIDE DEF q
  <2>5. /\ u \in Tree /\ u.parent = tr.parent /\ u.red = tr.red
        /\ u.root = tr.root /\ u.child = q
    BY <2>2, <2>4 DEF Tree
  <2>6. Relinked(tr, p, old, new, u)
    BY <1>2, <2>4, <2>5 DEF d, Relinked
  <2>. QED
    BY <2>6 DEF u
<1>. QED
  BY <1>1, <1>2

(* Rotate, when what it exchanges are different nodes.                     *)
Rotated(tr, n, d, u) ==
  LET o == Opposite(d)
      c == tr.child[n][o]
      y == tr.child[c][d]
      g == tr.parent[n]
  IN /\ u \in Tree /\ u.red = tr.red
     /\ u.root = IF g = NULL THEN c ELSE tr.root
     /\ \A x \in Keys, e \in Sides :
          u.child[x][e] = IF x = n /\ e = o THEN y
                          ELSE IF x = c /\ e = d THEN n
                          ELSE IF x = g /\ tr.child[g][e] = n THEN c
                          ELSE tr.child[x][e]
     /\ \A x \in Keys :
          u.parent[x] = IF x = n THEN c ELSE IF x = c THEN g
                        ELSE IF x = y THEN n ELSE tr.parent[x]

(* The fields that the stores of a rotation leave.                         *)
LEMMA RotateFields ==
  ASSUME NEW tr \in Tree, NEW n \in Keys, NEW d \in Sides, NEW o, NEW c,
         NEW y, NEW g,
         o = Opposite(d), c = tr.child[n][o], y = tr.child[c][d],
         g = tr.parent[n],
         c # NULL, n # c, y # n, y # c, g # n, g # c,
         g # NULL => \E e \in Sides : tr.child[g][e] = n,
         g # NULL => tr.child[g]["left"] # tr.child[g]["right"]
  PROVE  Rotated(tr, n, d, Rotate(tr, n, d))
<1>0. o \in Sides /\ o # d /\ c \in Keys /\ y \in Pointer /\ g \in Pointer
  BY DEF Tree, Opposite, Sides, Pointer
<1> DEFINE t1 == [tr EXCEPT !.child[n][o] = tr.child[c][d], !.child[c][d] = n]
           t2 == rb_set_parent(t1, tr.child[c][d], n)
           t3 == rb_set_parent(t2, c, tr.parent[n])
           t4 == Relink(t3, tr.parent[n], n, c)
           t5 == rb_set_parent(t4, n, c)
<1>1. Rotate(tr, n, d) = t5
  BY Zenon DEF Rotate
<1>2. /\ t1 \in Tree /\ t1.root = tr.root /\ t1.parent = tr.parent
      /\ t1.red = tr.red
      /\ \A x \in Keys, e \in Sides :
           t1.child[x][e] = IF x = n /\ e = o THEN y
                            ELSE IF x = c /\ e = d THEN n ELSE tr.child[x][e]
  <2>1. t1 = [tr EXCEPT !.child = [[tr.child EXCEPT ![n][o] = y]
                                     EXCEPT ![c][d] = n]]
    BY ZenonT(60) DEF Tree
  <2>2. tr.child \in [Keys -> [Sides -> Pointer]] /\ n \in Pointer
    BY DEF Tree, Pointer
  <2> DEFINE k1 == [tr.child EXCEPT ![n][o] = y]
             k2 == [k1 EXCEPT ![c][d] = n]
  <2>3. /\ k1 \in [Keys -> [Sides -> Pointer]]
        /\ \A x \in Keys, e \in Sides :
             k1[x][e] = IF x = n /\ e = o THEN y ELSE tr.child[x][e]
    BY <1>0, <2>2
  <2> HIDE DEF k1
  <2>4. /\ k2 \in [Keys -> [Sides -> Pointer]]
        /\ \A x \in Keys, e \in Sides :
             k2[x][e] = IF x = c /\ e = d THEN n ELSE k1[x][e]
    BY <1>0, <2>2, <2>3
  <2> HIDE DEF k2
  <2>5. t1 = [tr EXCEPT !.child = k2]
    BY <2>1 DEF k1, k2
  <2> HIDE DEF t1
  <2>6. /\ t1 \in Tree /\ t1.root = tr.root /\ t1.parent = tr.parent
        /\ t1.red = tr.red /\ t1.child = k2
    BY <2>4, <2>5 DEF Tree
  <2>. QED
    BY <2>3, <2>4, <2>6
<1> HIDE DEF t1
<1>3. /\ t2 \in Tree /\ t2.root = t1.root /\ t2.child = t1.child
      /\ t2.red = t1.red
      /\ \A x \in Keys : t2.parent[x] = IF x = y THEN n ELSE t1.parent[x]
  <2>1. n \in Pointer /\ t2 = rb_set_parent(t1, y, n)
    BY DEF Pointer
  <2>2. t1 \in Tree /\ y \in Pointer
    BY <1>0, <1>2
  <2>3. ParentSet(t1, y, n, rb_set_parent(t1, y, n))
    BY <2>1, <2>2, SetParentIs
  <2> HIDE DEF t2
  <2>. QED
    BY <2>1, <2>3 DEF ParentSet
<1> HIDE DEF t2
<1>4. /\ t3 \in Tree /\ t3.root = t2.root /\ t3.child = t2.child
      /\ t3.red = t2.red
      /\ \A x \in Keys : t3.parent[x] = IF x = c THEN g ELSE t2.parent[x]
  <2>1. c \in Pointer /\ t3 = rb_set_parent(t2, c, g)
    BY <1>0 DEF Pointer
  <2>2. t2 \in Tree /\ g \in Pointer
    BY <1>0, <1>3
  <2>3. ParentSet(t2, c, g, rb_set_parent(t2, c, g))
    BY <2>1, <2>2, SetParentIs
  <2> HIDE DEF t3
  <2>. QED
    BY <2>1, <2>3 DEF ParentSet
<1> HIDE DEF t3
<1>5. /\ t4 \in Tree /\ t4.parent = t3.parent /\ t4.red = t3.red
      /\ t4.root = IF g = NULL THEN c ELSE t3.root
      /\ \A x \in Keys, e \in Sides :
           t4.child[x][e] =
             IF x = g /\ e = IF t3.child[g]["left"] = n THEN "left" ELSE "right"
             THEN c ELSE t3.child[x][e]
  <2>1. c \in Pointer /\ t4 = Relink(t3, g, n, c)
    BY <1>0 DEF Pointer
  <2>2. t3 \in Tree /\ g \in Pointer
    BY <1>0, <1>4
  <2>3. Relinked(t3, g, n, c, Relink(t3, g, n, c))
    BY <2>1, <2>2, RelinkIs
  <2> HIDE DEF t4
  <2>. QED
    BY <2>1, <2>3 DEF Relinked
<1> HIDE DEF t4
<1>6. /\ t5 \in Tree /\ t5.root = t4.root /\ t5.child = t4.child
      /\ t5.red = t4.red
      /\ \A x \in Keys : t5.parent[x] = IF x = n THEN c ELSE t4.parent[x]
  <2>1. c \in Pointer /\ n \in Pointer /\ t5 = rb_set_parent(t4, n, c)
    BY <1>0 DEF Pointer
  <2>2. t4 \in Tree
    BY <1>5
  <2>3. ParentSet(t4, n, c, rb_set_parent(t4, n, c))
    BY <2>1, <2>2, SetParentIs
  <2> HIDE DEF t5
  <2>. QED
    BY <2>1, <2>3 DEF ParentSet
<1> HIDE DEF t5
<1>7. \A x \in Keys :
        t5.parent[x] = IF x = n THEN c ELSE IF x = c THEN g
                       ELSE IF x = y THEN n ELSE tr.parent[x]
  BY <1>2, <1>3, <1>4, <1>5, <1>6
<1>8. ASSUME NEW x \in Keys, NEW e \in Sides
      PROVE  t5.child[x][e] = IF x = n /\ e = o THEN y
                              ELSE IF x = c /\ e = d THEN n
                              ELSE IF x = g /\ tr.child[g][e] = n THEN c
                              ELSE tr.child[x][e]
  <2>1. t3.child = t1.child /\ t5.child = t4.child
    BY <1>3, <1>4, <1>6
  <2>2. CASE x = g
    <3>1. "left" \in Sides /\ "right" \in Sides /\ g \in Keys /\ g # NULL
      BY <2>2, KeysNat DEF Sides
    <3>2. \A s \in Sides : t3.child[g][s] = tr.child[g][s]
      BY <1>2, <2>1, <3>1
    <3>3. (e = IF t3.child[g]["left"] = n THEN "left" ELSE "right")
            <=> tr.child[g][e] = n
      BY <3>1, <3>2 DEF Sides
    <3>. QED
      BY <1>5, <2>1, <2>2, <3>1, <3>2, <3>3
  <2>3. CASE x # g
    BY <1>2, <1>5, <2>1, <2>3
  <2>. QED
    BY <2>2, <2>3
<1>9. t5.red = tr.red /\ t5.root = IF g = NULL THEN c ELSE tr.root
  BY <1>2, <1>3, <1>4, <1>5, <1>6
<1>. QED
  BY <1>1, <1>6, <1>7, <1>8, <1>9, SMTT(60) DEF Rotated

(* The nodes a rotation moves are different ones.                          *)
LEMMA RotateNodes ==
  ASSUME NEW r, NEW ch, NEW par, NEW C, NEW lo, NEW hi, NEW M,
         Shape(r, ch, par, C, lo, hi, M),
         NEW n \in C, NEW d \in Sides, NEW o, NEW c, NEW y, NEW g,
         o = Opposite(d), c = ch[n][o], y = ch[c][d], g = par[n], c # NULL
  PROVE  /\ o \in Sides /\ o # d /\ Opposite(o) = d
         /\ c \in C /\ par[c] = n /\ n # NULL
         /\ y # NULL => y \in C /\ par[y] = c
         /\ g # NULL => g \in C /\ n # r
         /\ g = NULL => n = r
         /\ n # c /\ y # n /\ y # c /\ g # n /\ g # c /\ (g # NULL => g # y)
         /\ g # NULL => \E e \in Sides : ch[g][e] = n
         /\ g # NULL => ch[g]["left"] # ch[g]["right"]
         /\ d = "left" => /\ lo[c] = n /\ hi[c] = hi[n]
                          /\ y # NULL => lo[y] = n /\ hi[y] = c
         /\ d = "right" => /\ lo[c] = lo[n] /\ hi[c] = n
                           /\ y # NULL => lo[y] = c /\ hi[y] = n
<1>0. C \subseteq Keys /\ C \subseteq Nat /\ NULL \notin C
  BY KeysNat DEF Shape, Links
<1>a. \A x \in C : lo[x] \in Nat /\ hi[x] \in Nat /\ lo[x] < x /\ x < hi[x]
  BY <1>0 DEF Shape, Ranges
<1>1. o \in Sides /\ o # d /\ Opposite(o) = d
      /\ (d = "left" => o = "right") /\ (d = "right" => o = "left")
  BY DEF Opposite, Sides
<1>2. /\ c \in C /\ par[c] = n /\ c # n
      /\ o = "left" => lo[c] = lo[n] /\ hi[c] = n
      /\ o = "right" => lo[c] = n /\ hi[c] = hi[n]
      /\ hi[c] - lo[c] < hi[n] - lo[n]
  BY <1>1, ChildRange
<1>3. y # NULL =>
      /\ y \in C /\ par[y] = c /\ y # c
      /\ d = "left" => lo[y] = lo[c] /\ hi[y] = c
      /\ d = "right" => lo[y] = c /\ hi[y] = hi[c]
      /\ hi[y] - lo[y] < hi[c] - lo[c]
  BY <1>2, ChildRange
<1>4. g # NULL => n # r
  BY DEF Shape, Links
<1>5. n # r => /\ g \in C /\ g # n /\ hi[n] - lo[n] < hi[g] - lo[g]
               /\ \E e \in Sides : ch[g][e] = n
  <2> SUFFICES ASSUME n # r
               PROVE  /\ g \in C /\ g # n /\ hi[n] - lo[n] < hi[g] - lo[g]
                      /\ \E e \in Sides : ch[g][e] = n
    OBVIOUS
  <2>1. /\ g \in C /\ g # n /\ hi[n] - lo[n] < hi[g] - lo[g]
        /\ ch[g][Side(n, g)] = n
    BY ParentRange
  <2>2. Side(n, g) \in Sides
    BY DEF Side, Sides
  <2>. QED
    BY <2>1, <2>2
<1>6. g # NULL => ch[g]["left"] # ch[g]["right"]
  <2> SUFFICES ASSUME g # NULL, ch[g]["left"] = ch[g]["right"] PROVE FALSE
    OBVIOUS
  <2> DEFINE x == ch[g]["left"]
  <2>1. g \in C /\ "left" \in Sides /\ "right" \in Sides
    BY <1>4, <1>5 DEF Sides
  <2>2. \E e \in Sides : ch[g][e] = n
    BY <1>4, <1>5
  <2>3. x # NULL
    BY <1>0, <2>2 DEF Sides
  <2>4. "left" = Side(x, g)
    BY <2>1, <2>3, ChildRange
  <2>5. "right" = Side(x, g)
    BY <2>1, <2>3, ChildRange
  <2>. QED
    BY <2>4, <2>5
<1>7. g = NULL => n = r
  BY <1>0, <1>5
<1>8. y # n
  <2> SUFFICES ASSUME y = n PROVE FALSE
    OBVIOUS
  <2>1. /\ lo[n] \in Nat /\ hi[n] \in Nat /\ lo[c] \in Nat /\ hi[c] \in Nat
    BY <1>a, <1>2
  <2>. QED
    BY <1>0, <1>2, <1>3, <2>1
<1>9. ASSUME g # NULL PROVE g # c /\ g # y
  <2>1. /\ lo[n] \in Nat /\ hi[n] \in Nat /\ lo[c] \in Nat /\ hi[c] \in Nat
        /\ g \in C /\ hi[n] - lo[n] < hi[g] - lo[g]
    BY <1>a, <1>2, <1>4, <1>5, <1>9
  <2>2. g # c
    BY <1>2, <2>1
  <2>3. ASSUME g = y PROVE FALSE
    <3>1. lo[y] \in Nat /\ hi[y] \in Nat
      BY <1>0, <1>a, <2>1, <2>3
    <3>. QED
      BY <1>0, <1>2, <1>3, <1>9, <2>1, <2>3, <3>1
  <2>. QED
    BY <2>2, <2>3
<1>10. n # NULL /\ c # NULL /\ (y = NULL => y # c) /\ g # n /\ g # c
  BY <1>0, <1>2, <1>4, <1>5, <1>9
<1>11. (d = "left" => o = "right") /\ (d = "right" => o = "left")
  BY <1>1
<1>12. /\ d = "left" => /\ lo[c] = n /\ hi[c] = hi[n]
                        /\ y # NULL => lo[y] = n /\ hi[y] = c
       /\ d = "right" => /\ lo[c] = lo[n] /\ hi[c] = n
                         /\ y # NULL => lo[y] = c /\ hi[y] = n
  BY <1>2, <1>3, <1>11
<1>13. /\ y # NULL => y \in C /\ par[y] = c /\ y # c
       /\ c \in C /\ par[c] = n /\ c # n
  BY <1>2, <1>3
<1>14. g # NULL => g \in C /\ \E e \in Sides : ch[g][e] = n
  BY <1>4, <1>5
<1>. QED
  BY <1>1, <1>4, <1>6, <1>7, <1>8, <1>9, <1>10, <1>12, <1>13, <1>14

(* A rotation does what its name says.                                     *)
LEMMA RotateIs ==
  ASSUME NEW tr, NEW C, NEW lo, NEW hi, NEW M, TreeShape(tr, C, lo, hi, M),
         NEW n \in C, NEW d \in Sides, tr.child[n][Opposite(d)] # NULL
  PROVE  Rotated(tr, n, d, Rotate(tr, n, d))
<1> DEFINE o == Opposite(d)
           c == tr.child[n][o]
           y == tr.child[c][d]
           g == tr.parent[n]
<1>1. tr \in Tree /\ n \in Keys /\ Shape(tr.root, tr.child, tr.parent, C, lo, hi, M)
  BY DEF TreeShape, Shape, Links
<1>2. /\ n # c /\ y # n /\ y # c /\ g # n /\ g # c /\ c # NULL
      /\ g # NULL => \E e \in Sides : tr.child[g][e] = n
      /\ g # NULL => tr.child[g]["left"] # tr.child[g]["right"]
  BY <1>1, RotateNodes
<1>. QED
  BY <1>1, <1>2, RotateFields

(* It leaves the tree a tree, with other ranges for the two nodes that     *)
(* change places.                                                          *)
LEMMA RotateShape ==
  ASSUME NEW tr, NEW C, NEW lo, NEW hi, NEW M, TreeShape(tr, C, lo, hi, M),
         NEW n \in C, NEW d \in Sides, NEW c,
         c = tr.child[n][Opposite(d)], c # NULL,
         NEW u, Rotated(tr, n, d, u)
  PROVE  TreeShape(u, C,
           [x \in Keys |-> IF x = c THEN lo[n]
                           ELSE IF x = n /\ d = "right" THEN c ELSE lo[x]],
           [x \in Keys |-> IF x = c THEN hi[n]
                           ELSE IF x = n /\ d = "left" THEN c ELSE hi[x]], M)
<1> DEFINE ch == tr.child
           par == tr.parent
           r == tr.root
           o == Opposite(d)
           y == ch[c][d]
           g == par[n]
           lo2 == [x \in Keys |-> IF x = c THEN lo[n]
                           ELSE IF x = n /\ d = "right" THEN c ELSE lo[x]]
           hi2 == [x \in Keys |-> IF x = c THEN hi[n]
                           ELSE IF x = n /\ d = "left" THEN c ELSE hi[x]]
<1>0. Shape(r, ch, par, C, lo, hi, M) /\ C \subseteq Keys /\ NULL \notin C
      /\ C \subseteq Nat
  BY KeysNat DEF TreeShape, Shape, Links
<1>1. /\ o \in Sides /\ o # d /\ Opposite(o) = d
      /\ c \in C /\ par[c] = n /\ n # NULL
      /\ y # NULL => y \in C /\ par[y] = c
      /\ g # NULL => g \in C /\ n # r
      /\ g = NULL => n = r
      /\ n # c /\ y # n /\ y # c /\ g # n /\ g # c /\ (g # NULL => g # y)
      /\ g # NULL => \E e \in Sides : ch[g][e] = n
  BY <1>0, RotateNodes
<1>2. /\ d = "left" => /\ lo[c] = n /\ hi[c] = hi[n]
                       /\ y # NULL => lo[y] = n /\ hi[y] = c
      /\ d = "right" => /\ lo[c] = lo[n] /\ hi[c] = n
                        /\ y # NULL => lo[y] = c /\ hi[y] = n
  BY <1>0, RotateNodes
<1>3. /\ u \in Tree
      /\ u.root = IF g = NULL THEN c ELSE r
  BY DEF Rotated
<1>4. /\ \A x \in Keys, e \in Sides :
           u.child[x][e] = IF x = n /\ e = o THEN y
                           ELSE IF x = c /\ e = d THEN n
                           ELSE IF x = g /\ ch[g][e] = n THEN c
                           ELSE ch[x][e]
      /\ \A x \in Keys :
           u.parent[x] = IF x = n THEN c ELSE IF x = c THEN g
                         ELSE IF x = y THEN n ELSE par[x]
  BY DEF Rotated
<1>5. Links(u.root, u.child, u.parent, C)
  <2>1. /\ C \in SUBSET Keys /\ r \in C \cup {NULL} /\ (C # {} => r # NULL)
        /\ r # NULL => par[r] = NULL
    BY <1>0 DEF Shape, Links
  <2>2. /\ u.root \in C \cup {NULL} /\ (C # {} => u.root # NULL)
        /\ u.child \in [Keys -> [Sides -> Pointer]]
        /\ u.parent \in [Keys -> Pointer]
    BY <1>1, <1>3, <2>1 DEF Tree
  <2>3. u.root # NULL => u.parent[u.root] = NULL
    <3>1. CASE g = NULL
      <4>1. u.root = c /\ c \in Keys
        BY <1>0, <1>1, <1>3, <3>1
      <4>. QED
        BY <1>1, <1>4, <3>1, <4>1
    <3>2. CASE g # NULL
      <4>1. u.root = r /\ r # n /\ r \in C /\ par[r] = NULL /\ r \in Keys
        BY <1>0, <1>1, <1>3, <2>1, <3>2
      <4>2. r # c /\ r # y
        BY <1>0, <1>1, <4>1
      <4>. QED
        BY <1>4, <4>1, <4>2
    <3>. QED
      BY <3>1, <3>2
  <2>4. ASSUME NEW x \in C, NEW e \in Sides, u.child[x][e] # NULL
        PROVE  u.child[x][e] \in C /\ u.parent[u.child[x][e]] = x
    <3>1. \A z \in C, s \in Sides : ch[z][s] # NULL => ch[z][s] \in C /\ par[ch[z][s]] = z
      BY <1>0 DEF Shape, Links
    <3>2. x \in Keys
      BY <1>0
    <3>3. CASE x = n /\ e = o
      <4>1. u.child[x][e] = y
        BY <1>4, <3>2, <3>3
      <4>2. y \in C /\ y \in Keys
        BY <1>0, <1>1, <2>4, <4>1
      <4>. QED
        BY <1>1, <1>4, <3>3, <4>1, <4>2
    <3>4. CASE x = c /\ e = d
      <4>1. u.child[x][e] = n
        BY <1>1, <1>4, <3>2, <3>4
      <4>. QED
        BY <1>0, <1>4, <3>4, <4>1
    <3>5. CASE x = g /\ ch[g][e] = n
      <4>1. u.child[x][e] = c
        BY <1>1, <1>4, <3>2, <3>5
      <4>. QED
        BY <1>0, <1>1, <1>4, <3>5, <4>1
    <3>6. CASE ~(x = n /\ e = o) /\ ~(x = c /\ e = d) /\ ~(x = g /\ ch[g][e] = n)
      <4>1. u.child[x][e] = ch[x][e]
        BY <1>4, <3>2, <3>6
      <4>2. ch[x][e] \in C /\ par[ch[x][e]] = x /\ ch[x][e] \in Keys
        BY <1>0, <2>4, <3>1, <4>1
      <4>3. ch[x][e] # n
        BY <3>6, <4>2
      <4>4. ch[x][e] # c
        <5>1. SUFFICES ASSUME ch[x][e] = c PROVE FALSE
          OBVIOUS
        <5>2. x = n
          BY <1>1, <4>2, <5>1
        <5>3. e = d
          BY <1>1, <3>6, <5>2 DEF Opposite, Sides
        <5>4. e = Side(c, n) /\ o = Side(c, n)
          BY <1>0, <1>1, <4>2, <5>1, <5>2, ChildRange
        <5>. QED
          BY <1>1, <5>3, <5>4
      <4>5. ch[x][e] # y
        <5>1. SUFFICES ASSUME ch[x][e] = y PROVE FALSE
          OBVIOUS
        <5>2. x = c
          BY <1>0, <1>1, <4>2, <5>1
        <5>3. e = Side(y, c) /\ d = Side(y, c)
          BY <1>0, <1>1, <4>2, <5>1, <5>2, ChildRange, SMTT(60)
        <5>. QED
          BY <3>6, <5>2, <5>3
      <4>. QED
        BY <1>4, <4>1, <4>2, <4>3, <4>4, <4>5
    <3>. QED
      BY <3>3, <3>4, <3>5, <3>6
  <2>5. ASSUME NEW x \in C, x # u.root
        PROVE  u.parent[x] \in C /\ \E e \in Sides : u.child[u.parent[x]][e] = x
    <3>1. \A z \in C : z # r => par[z] \in C /\ \E e \in Sides : ch[par[z]][e] = z
      BY <1>0 DEF Shape, Links
    <3>2. CASE x = n
      BY <1>0, <1>1, <1>4, <3>2
    <3>3. CASE x = c
      <4>1. g # NULL
        BY <1>3, <2>5, <3>3
      <4>2. PICK e \in Sides : ch[g][e] = n
        BY <1>1, <4>1
      <4>3. u.child[g][e] = c
        BY <1>0, <1>1, <1>4, <4>1, <4>2
      <4>. QED
        BY <1>0, <1>1, <1>4, <3>3, <4>1, <4>3
    <3>4. CASE x = y
      <4>1. u.parent[x] = n
        BY <1>0, <1>1, <1>4, <3>4
      <4>2. u.child[n][o] = y
        BY <1>0, <1>1, <1>4
      <4>. QED
        BY <1>1, <3>4, <4>1, <4>2
    <3>5. CASE x # n /\ x # c /\ x # y
      <4>1. u.parent[x] = par[x]
        BY <1>0, <1>4, <3>5
      <4>2. x # r
        BY <1>1, <1>3, <2>5, <3>5
      <4>3. PICK e \in Sides : par[x] \in C /\ ch[par[x]][e] = x
        BY <3>1, <4>2
      <4>4. u.child[par[x]][e] = x
        <5>1. par[x] \in Keys
          BY <1>0, <4>3
        <5>2. ~(par[x] = n /\ e = o) /\ ~(par[x] = c /\ e = d)
          BY <3>5, <4>3
        <5>3. ~(par[x] = g /\ ch[g][e] = n)
          BY <3>5, <4>3
        <5>. QED
          BY <1>4, <4>3, <5>1, <5>2, <5>3
      <4>. QED
        BY <4>1, <4>3, <4>4
    <3>. QED
      BY <3>2, <3>3, <3>4, <3>5
  <2>6. ASSUME NEW x \in Keys \ C
        PROVE  u.parent[x] = NULL /\ \A e \in Sides : u.child[x][e] = NULL
    <3>1. par[x] = NULL /\ \A e \in Sides : ch[x][e] = NULL
      BY <1>0 DEF Shape, Links
    <3>2. x # n /\ x # c /\ x # y /\ x # g
      BY <1>0, <1>1, KeysNat
    <3>. QED
      BY <1>4, <3>1, <3>2
  <2>. QED
    BY <2>1, <2>2, <2>3, <2>4, <2>5, <2>6 DEF Links
<1>6. Ranges(u.root, u.child, C, lo2, hi2, M)
  <2>0. /\ M \in Nat /\ lo \in [Keys -> 0..M] /\ hi \in [Keys -> 0..M]
        /\ \A k \in Keys : k < M
        /\ r # NULL => lo[r] = 0 /\ hi[r] = M
        /\ \A x \in C : lo[x] < x /\ x < hi[x]
        /\ \A x \in C : lo[x] \in C \cup {0} /\ hi[x] \in C \cup {M}
    BY <1>0 DEF Shape, Ranges
  <2>1. /\ \A x \in C : ch[x]["left"] # NULL =>
             /\ lo[ch[x]["left"]] = lo[x] /\ hi[ch[x]["left"]] = x
             /\ ch[x]["left"] \in C
        /\ \A x \in C : ch[x]["right"] # NULL =>
             /\ lo[ch[x]["right"]] = x /\ hi[ch[x]["right"]] = hi[x]
             /\ ch[x]["right"] \in C
    BY <1>0 DEF Shape, Ranges, Links, Sides
  <2>2. lo2 \in [Keys -> 0..M] /\ hi2 \in [Keys -> 0..M]
    <3>1. c \in 0..M /\ lo[n] \in 0..M /\ hi[n] \in 0..M
      BY <1>0, <1>1, <2>0
    <3>. QED
      BY <2>0, <3>1
  <2>3. /\ lo2[c] = lo[n] /\ hi2[c] = hi[n]
        /\ lo2[n] = IF d = "right" THEN c ELSE lo[n]
        /\ hi2[n] = IF d = "left" THEN c ELSE hi[n]
        /\ \A x \in C : x # c /\ x # n => lo2[x] = lo[x] /\ hi2[x] = hi[x]
    BY <1>0, <1>1
  <2> HIDE DEF lo2, hi2
  <2>4. u.root # NULL => lo2[u.root] = 0 /\ hi2[u.root] = M
    <3>1. r # c
      BY <1>0, <1>1 DEF Shape, Links
    <3>2. r \in C \cup {NULL} /\ (g # NULL => r # n)
      BY <1>0, <1>1 DEF Shape, Links
    <3>. QED
      BY <1>0, <1>1, <1>3, <2>0, <2>3, <3>1, <3>2
  <2>5. ASSUME NEW x \in C
        PROVE  /\ lo2[x] < x /\ x < hi2[x]
               /\ lo2[x] \in C \cup {0} /\ hi2[x] \in C \cup {M}
    <3>1. /\ lo[x] < x /\ x < hi[x] /\ lo[x] \in C \cup {0} /\ hi[x] \in C \cup {M}
          /\ lo[n] < n /\ n < hi[n] /\ lo[n] \in C \cup {0} /\ hi[n] \in C \cup {M}
          /\ lo[c] < c /\ c < hi[c]
      BY <1>1, <2>0
    <3>2. /\ lo[n] \in Nat /\ hi[n] \in Nat /\ n \in Nat /\ c \in Nat
          /\ lo[c] \in Nat /\ hi[c] \in Nat
      BY <1>0, <1>1, <2>0
    <3>3. d = "left" \/ d = "right"
      BY DEF Sides
    <3>. QED
      BY <1>1, <1>2, <2>3, <3>1, <3>2, <3>3, SMTT(60)
  <2>6. ASSUME NEW x \in C, NEW e \in Sides, NEW z, z = u.child[x][e], z # NULL
        PROVE  /\ e = "left" => lo2[z] = lo2[x] /\ hi2[z] = x
               /\ e = "right" => lo2[z] = x /\ hi2[z] = hi2[x]
    <3>1. /\ x \in Keys
          /\ (d = "left" /\ o = "right") \/ (d = "right" /\ o = "left")
      BY <1>0 DEF Opposite, Sides
    <3>2. CASE x = n /\ e = o
      <4>1. z = y
        BY <1>4, <2>6, <3>1, <3>2
      <4>. QED
        BY <1>1, <1>2, <2>3, <2>6, <3>1, <3>2, <4>1
    <3>3. CASE x = c /\ e = d
      <4>1. z = n
        BY <1>1, <1>4, <2>6, <3>1, <3>3
      <4>. QED
        BY <1>1, <2>3, <3>1, <3>3, <4>1
    <3>4. CASE x = g /\ ch[g][e] = n
      <4>1. z = c
        BY <1>1, <1>4, <2>6, <3>1, <3>4
      <4>2. lo2[x] = lo[x] /\ hi2[x] = hi[x]
        BY <1>1, <2>3, <3>4
      <4>3. /\ e = "left" => lo[n] = lo[x] /\ hi[n] = x
            /\ e = "right" => lo[n] = x /\ hi[n] = hi[x]
        BY <1>1, <2>1, <3>4
      <4>. QED
        BY <2>3, <4>1, <4>2, <4>3
    <3>5. CASE ~(x = n /\ e = o) /\ ~(x = c /\ e = d) /\ ~(x = g /\ ch[g][e] = n)
      <4>1. z = ch[x][e]
        BY <1>4, <2>6, <3>1, <3>5
      <4>2. z \in C /\ par[z] = x
        BY <1>0, <2>6, <4>1 DEF Shape, Links
      <4>3. /\ e = "left" => lo[z] = lo[x] /\ hi[z] = x
            /\ e = "right" => lo[z] = x /\ hi[z] = hi[x]
        BY <2>1, <2>6, <4>1
      <4>4. z # n
        BY <3>5, <4>1, <4>2
      <4>5. z # c
        <5>1. SUFFICES ASSUME z = c PROVE FALSE
          OBVIOUS
        <5>2. x = n
          BY <1>1, <4>2, <5>1
        <5>a. ch[n][e] = c /\ ch[n][e] # NULL
          BY <4>1, <5>1, <5>2
        <5>3. e = Side(c, n)
          BY <1>0, <5>a, ChildRange
        <5>4. o = Side(c, n)
          BY <1>0, <1>1, ChildRange
        <5>. QED
          BY <3>5, <5>2, <5>3, <5>4
      <4>6. lo2[z] = lo[z] /\ hi2[z] = hi[z]
        BY <2>3, <4>2, <4>4, <4>5
      <4>7. CASE x = n
        <5>1. e = d
          BY <3>1, <3>5, <4>7 DEF Sides
        <5>. QED
          BY <2>3, <3>1, <4>3, <4>6, <4>7, <5>1
      <4>8. CASE x = c
        <5>1. e = o
          BY <3>1, <3>5, <4>8 DEF Sides
        <5>. QED
          BY <1>2, <2>3, <3>1, <4>3, <4>6, <4>8, <5>1
      <4>9. CASE x # n /\ x # c
        BY <2>3, <4>3, <4>6, <4>9
      <4>. QED
        BY <4>7, <4>8, <4>9
    <3>. QED
      BY <3>2, <3>3, <3>4, <3>5
  <2>7. "left" \in Sides /\ "right" \in Sides
    BY DEF Sides
  <2>. QED
    BY <2>0, <2>2, <2>4, <2>5, <2>6, <2>7 DEF Ranges
<1>. QED
  BY <1>3, <1>5, <1>6 DEF TreeShape, Shape

-----------------------------------------------------------------------------
(* A node is linked at a free place, a node with at most one child is      *)
(* taken out, and a node takes the place of another.                       *)

Linked(tr, k, p, d, u) ==
  /\ u \in Tree
  /\ u.root = IF p = NULL THEN k ELSE tr.root
  /\ \A x \in Keys, e \in Sides :
       u.child[x][e] = IF x = k THEN NULL ELSE IF x = p /\ e = d THEN k
                       ELSE tr.child[x][e]
  /\ \A x \in Keys : u.parent[x] = IF x = k THEN p ELSE tr.parent[x]
  /\ \A x \in Keys : u.red[x] = IF x = k THEN TRUE ELSE tr.red[x]

Removed(tr, k, c, u) ==
  LET p == tr.parent[k]
  IN /\ u \in Tree
     /\ u.root = IF p = NULL THEN c ELSE tr.root
     /\ \A x \in Keys, e \in Sides :
          u.child[x][e] = IF x = k THEN NULL
                          ELSE IF x = p /\ tr.child[p][e] = k THEN c
                          ELSE tr.child[x][e]
     /\ \A x \in Keys : u.parent[x] = IF x = k THEN NULL
                                      ELSE IF x = c THEN p ELSE tr.parent[x]
     /\ \A x \in Keys : u.red[x] = IF x = k THEN FALSE ELSE tr.red[x]

Renamed(tr, v, new, u) ==
  LET q == tr.parent[v]
  IN /\ u \in Tree
     /\ u.root = IF q = NULL THEN new ELSE tr.root
     /\ \A x \in Keys, e \in Sides :
          u.child[x][e] = IF x = v THEN NULL
                          ELSE IF x = new THEN tr.child[v][e]
                          ELSE IF x = q /\ tr.child[q][e] = v THEN new
                          ELSE tr.child[x][e]
     /\ \A x \in Keys :
          u.parent[x] = IF x = v THEN NULL ELSE IF x = new THEN q
                        ELSE IF \E e \in Sides : x = tr.child[v][e] THEN new
                        ELSE tr.parent[x]
     /\ \A x \in Keys : u.red[x] = IF x = v THEN FALSE
                                   ELSE IF x = new THEN tr.red[v]
                                   ELSE tr.red[x]

(* The new node has the part of the range of p that is on its side.        *)
LEMMA LinkedShape ==
  ASSUME NEW tr, NEW C, NEW lo, NEW hi, NEW M, TreeShape(tr, C, lo, hi, M),
         NEW k \in Keys, k \notin C, NEW p, NEW d \in Sides, NEW u,
         Linked(tr, k, p, d, u),
         \/ p = NULL /\ tr.root = NULL
         \/ /\ p \in C /\ d = Side(k, p) /\ Within(lo, hi, p, k)
            /\ tr.child[p][d] = NULL
  PROVE  \E lo2, hi2 : TreeShape(u, C \cup {k}, lo2, hi2, M)
<1> DEFINE ch == tr.child
           par == tr.parent
           r == tr.root
           D == C \cup {k}
           lo2 == [x \in Keys |-> IF x # k THEN lo[x] ELSE IF p = NULL THEN 0
                                  ELSE IF d = "left" THEN lo[p] ELSE p]
           hi2 == [x \in Keys |-> IF x # k THEN hi[x] ELSE IF p = NULL THEN M
                                  ELSE IF d = "left" THEN p ELSE hi[p]]
<1>0. Shape(r, ch, par, C, lo, hi, M) /\ C \subseteq Keys /\ NULL \notin C
      /\ C \subseteq Nat /\ k # NULL /\ k \in Nat
  BY KeysNat DEF TreeShape, Shape, Links
<1>1. /\ u \in Tree /\ u.root = IF p = NULL THEN k ELSE r
      /\ \A x \in Keys, e \in Sides :
           u.child[x][e] = IF x = k THEN NULL ELSE IF x = p /\ e = d THEN k
                           ELSE ch[x][e]
      /\ \A x \in Keys : u.parent[x] = IF x = k THEN p ELSE par[x]
  BY DEF Linked
<1>2. /\ r \in C \cup {NULL} /\ (C # {} => r # NULL)
      /\ r # NULL => par[r] = NULL
      /\ \A n \in C, e \in Sides :
           ch[n][e] # NULL => ch[n][e] \in C /\ par[ch[n][e]] = n
      /\ \A n \in C : n # r => par[n] \in C /\ \E e \in Sides : ch[par[n]][e] = n
      /\ \A n \in Keys \ C : par[n] = NULL /\ \A e \in Sides : ch[n][e] = NULL
  BY <1>0 DEF Shape, Links
<1>3. (p = NULL => C = {} /\ r = NULL) /\ (p # NULL => p \in C)
  BY <1>0, <1>2
<1>4. Links(u.root, u.child, u.parent, D)
  <2>1. /\ D \in SUBSET Keys /\ u.root \in D /\ u.root # NULL
        /\ u.child \in [Keys -> [Sides -> Pointer]]
        /\ u.parent \in [Keys -> Pointer]
    BY <1>0, <1>1, <1>2, <1>3 DEF Tree
  <2>2. u.parent[u.root] = NULL
    <3>1. CASE p = NULL
      BY <1>1, <3>1
    <3>2. CASE p # NULL
      <4>1. u.root = r /\ r # k /\ r \in Keys /\ par[r] = NULL
        BY <1>0, <1>1, <1>2, <1>3, <3>2
      <4>. QED
        BY <1>1, <4>1
    <3>. QED
      BY <3>1, <3>2
  <2>3. ASSUME NEW n \in D, NEW e \in Sides, u.child[n][e] # NULL
        PROVE  u.child[n][e] \in D /\ u.parent[u.child[n][e]] = n
    <3>1. n \in Keys /\ n # k /\ n \in C
      BY <1>0, <1>1, <2>3
    <3>2. CASE n = p /\ e = d
      BY <1>1, <3>1, <3>2
    <3>3. CASE ~(n = p /\ e = d)
      <4>1. u.child[n][e] = ch[n][e]
        BY <1>1, <3>1, <3>3
      <4>2. ch[n][e] \in C /\ par[ch[n][e]] = n
        BY <1>2, <2>3, <3>1, <4>1
      <4>. QED
        BY <1>0, <1>1, <4>1, <4>2
    <3>. QED
      BY <3>2, <3>3
  <2>4. ASSUME NEW n \in D, n # u.root
        PROVE  u.parent[n] \in D /\ \E e \in Sides : u.child[u.parent[n]][e] = n
    <3>1. CASE n = k
      <4>1. p # NULL /\ p \in C /\ p \in Keys /\ p # k
        BY <1>0, <1>1, <1>3, <2>4, <3>1
      <4>2. u.parent[n] = p /\ u.child[p][d] = k
        BY <1>1, <3>1, <4>1
      <4>. QED
        BY <3>1, <4>1, <4>2
    <3>2. CASE n # k
      <4>1. n \in C /\ n # r /\ n \in Keys
        BY <1>0, <1>1, <1>3, <2>4, <3>2
      <4>2. PICK e \in Sides : par[n] \in C /\ ch[par[n]][e] = n
        BY <1>2, <4>1
      <4>3. ~(par[n] = p /\ e = d)
        BY <1>0, <1>3, <4>1, <4>2
      <4>4. u.child[par[n]][e] = n /\ u.parent[n] = par[n]
        BY <1>0, <1>1, <3>2, <4>1, <4>2, <4>3
      <4>. QED
        BY <4>2, <4>4
    <3>. QED
      BY <3>1, <3>2
  <2>5. ASSUME NEW n \in Keys \ D
        PROVE  u.parent[n] = NULL /\ \A e \in Sides : u.child[n][e] = NULL
    <3>1. n # k /\ n # p /\ n \in Keys \ C
      BY <1>3, KeysNat
    <3>. QED
      BY <1>1, <1>2, <3>1
  <2>. QED
    BY <2>1, <2>2, <2>3, <2>4, <2>5 DEF Links
<1>5. Ranges(u.root, u.child, D, lo2, hi2, M)
  <2>0. /\ M \in Nat /\ lo \in [Keys -> 0..M] /\ hi \in [Keys -> 0..M]
        /\ \A x \in Keys : x < M
        /\ r # NULL => lo[r] = 0 /\ hi[r] = M
        /\ \A x \in C : lo[x] < x /\ x < hi[x]
        /\ \A x \in C : lo[x] \in C \cup {0} /\ hi[x] \in C \cup {M}
    BY <1>0 DEF Shape, Ranges
  <2>1. /\ \A x \in C : ch[x]["left"] # NULL =>
             lo[ch[x]["left"]] = lo[x] /\ hi[ch[x]["left"]] = x
        /\ \A x \in C : ch[x]["right"] # NULL =>
             lo[ch[x]["right"]] = x /\ hi[ch[x]["right"]] = hi[x]
    BY <1>0 DEF Shape, Ranges
  <2>2. p # NULL => /\ p \in Keys /\ p \in Nat /\ p < M /\ lo[p] \in 0..M
                    /\ hi[p] \in 0..M
    BY <1>0, <1>3, <2>0
  <2>3. lo2 \in [Keys -> 0..M] /\ hi2 \in [Keys -> 0..M]
    BY <2>0, <2>2
  <2>4. /\ \A x \in C : lo2[x] = lo[x] /\ hi2[x] = hi[x]
        /\ lo2[k] = IF p = NULL THEN 0 ELSE IF d = "left" THEN lo[p] ELSE p
        /\ hi2[k] = IF p = NULL THEN M ELSE IF d = "left" THEN p ELSE hi[p]
    BY <1>0
  <2> HIDE DEF lo2, hi2
  <2>5. lo2[u.root] = 0 /\ hi2[u.root] = M
    BY <1>1, <1>2, <1>3, <2>0, <2>4
  <2>6. ASSUME NEW x \in D
        PROVE  /\ lo2[x] < x /\ x < hi2[x]
               /\ lo2[x] \in D \cup {0} /\ hi2[x] \in D \cup {M}
    <3>1. CASE x \in C
      BY <2>0, <2>4, <3>1
    <3>2. CASE x = k /\ p = NULL
      BY <1>0, <2>0, <2>4, <3>2 DEF NULL
    <3>3. CASE x = k /\ p # NULL
      <4>1. /\ p \in C /\ d = Side(k, p) /\ lo[p] < k /\ k < hi[p] /\ p # k
        BY <1>3, <3>3 DEF Within
      <4>2. /\ lo[p] \in C \cup {0} /\ hi[p] \in C \cup {M} /\ p \in Nat
        BY <1>0, <2>0, <4>1
      <4>3. (d = "left" => k < p) /\ (d # "left" => p < k)
        BY <1>0, <4>1, <4>2 DEF Side
      <4>. QED
        BY <2>4, <3>3, <4>1, <4>2, <4>3
    <3>. QED
      BY <3>1, <3>2, <3>3
  <2>7. ASSUME NEW x \in D, NEW e \in Sides, NEW z, z = u.child[x][e], z # NULL
        PROVE  /\ e = "left" => lo2[z] = lo2[x] /\ hi2[z] = x
               /\ e = "right" => lo2[z] = x /\ hi2[z] = hi2[x]
    <3>1. x \in C /\ x \in Keys /\ x # k
      BY <1>0, <1>1, <2>7
    <3>2. CASE x = p /\ e = d
      <4>1. z = k /\ p # NULL
        BY <1>0, <1>1, <2>7, <3>1, <3>2
      <4>. QED
        BY <2>4, <3>1, <3>2, <4>1
    <3>3. CASE ~(x = p /\ e = d)
      <4>1. z = ch[x][e] /\ z \in C
        BY <1>1, <1>2, <2>7, <3>1, <3>3
      <4>. QED
        BY <2>1, <2>4, <2>7, <3>1, <4>1
    <3>. QED
      BY <3>2, <3>3
  <2>8. "left" \in Sides /\ "right" \in Sides
    BY DEF Sides
  <2>. QED
    BY <2>0, <2>3, <2>5, <2>6, <2>7, <2>8 DEF Ranges
<1>. QED
  BY <1>1, <1>4, <1>5 DEF TreeShape, Shape

(* The child takes the range of the node that is taken out.                *)
LEMMA RemovedShape ==
  ASSUME NEW tr, NEW C, NEW lo, NEW hi, NEW M, TreeShape(tr, C, lo, hi, M),
         NEW k \in C, NEW s \in Sides, NEW c, NEW u,
         c = tr.child[k][s], tr.child[k][Opposite(s)] = NULL,
         Removed(tr, k, c, u)
  PROVE  \E lo2, hi2 : TreeShape(u, C \ {k}, lo2, hi2, M)
<1> DEFINE ch == tr.child
           par == tr.parent
           r == tr.root
           p == par[k]
           D == C \ {k}
           lo2 == [x \in Keys |-> IF lo[x] = k THEN lo[k] ELSE lo[x]]
           hi2 == [x \in Keys |-> IF hi[x] = k THEN hi[k] ELSE hi[x]]
<1>0. Shape(r, ch, par, C, lo, hi, M) /\ C \subseteq Keys /\ NULL \notin C
      /\ C \subseteq Nat /\ k # NULL /\ k \in Nat /\ k \in Keys
  <2>1. Shape(r, ch, par, C, lo, hi, M) /\ C \subseteq Keys
    BY DEF TreeShape, Shape, Links
  <2>. QED
    BY <2>1, KeysNat
<1>1. /\ u \in Tree /\ u.root = IF p = NULL THEN c ELSE r
      /\ \A x \in Keys, e \in Sides :
           u.child[x][e] = IF x = k THEN NULL
                           ELSE IF x = p /\ ch[p][e] = k THEN c ELSE ch[x][e]
      /\ \A x \in Keys : u.parent[x] = IF x = k THEN NULL
                                       ELSE IF x = c THEN p ELSE par[x]
  BY DEF Removed
<1>2. /\ r \in C \cup {NULL} /\ (C # {} => r # NULL)
      /\ r # NULL => par[r] = NULL
      /\ \A n \in C, e \in Sides :
           ch[n][e] # NULL => ch[n][e] \in C /\ par[ch[n][e]] = n
      /\ \A n \in C : n # r => par[n] \in C /\ \E e \in Sides : ch[par[n]][e] = n
      /\ \A n \in Keys \ C : par[n] = NULL /\ \A e \in Sides : ch[n][e] = NULL
  BY <1>0 DEF Shape, Links
<1>3. /\ p = NULL <=> k = r
      /\ p # NULL => p \in C /\ p # k /\ \E e \in Sides : ch[p][e] = k
  <2>1. k = r => p = NULL
    BY <1>0, <1>2
  <2>2. k # r => p \in C /\ p # k
    BY <1>0, ParentRange
  <2>3. k # r => \E e \in Sides : ch[p][e] = k
    BY <1>2
  <2>. QED
    BY <1>0, <2>1, <2>2, <2>3
<1>4. /\ c # NULL => /\ c \in C /\ par[c] = k /\ c # k
                     /\ s = "left" => lo[c] = lo[k] /\ hi[c] = k
                     /\ s = "right" => lo[c] = k /\ hi[c] = hi[k]
  BY <1>0, ChildRange
<1>5. \A e \in Sides : ch[k][e] # NULL => e = s /\ ch[k][e] = c
  BY DEF Sides, Opposite
<1>6. c # NULL => p # c
  <2> SUFFICES ASSUME c # NULL, p = c PROVE FALSE
    OBVIOUS
  <2>1. k # r /\ c \in C
    BY <1>3, <1>4
  <2>2. hi[k] - lo[k] < hi[c] - lo[c]
    BY <1>0, <2>1, ParentRange
  <2>3. hi[c] - lo[c] < hi[k] - lo[k]
    BY <1>0, ChildRange
  <2>4. lo[c] \in Nat /\ hi[c] \in Nat /\ lo[k] \in Nat /\ hi[k] \in Nat
    BY <1>0, <2>1 DEF Shape, Ranges
  <2>. QED
    BY <2>2, <2>3, <2>4
<1>7. Links(u.root, u.child, u.parent, D)
  <2>1. /\ D \in SUBSET Keys /\ u.root \in D \cup {NULL}
        /\ u.child \in [Keys -> [Sides -> Pointer]]
        /\ u.parent \in [Keys -> Pointer]
    BY <1>0, <1>1, <1>2, <1>3, <1>4 DEF Tree
  <2>2. ASSUME D # {} PROVE u.root # NULL
    <3>1. CASE p # NULL
      BY <1>0, <1>1, <1>2, <3>1
    <3>2. CASE p = NULL
      <4>1. PICK m \in D : TRUE
        BY <2>2
      <4>2. /\ lo[k] = 0 /\ hi[k] = M /\ m \in Keys /\ m < M /\ 0 < m
        BY <1>0, <1>3, <3>2, KeysNat DEF Shape, Ranges
      <4>3. Within(lo, hi, k, m)
        BY <4>2 DEF Within
      <4>4. ch[k][Side(m, k)] # NULL
        BY <1>0, <4>3, Toward
      <4>5. Side(m, k) \in Sides
        BY DEF Side, Sides
      <4>. QED
        BY <1>1, <1>5, <3>2, <4>4, <4>5
    <3>. QED
      BY <3>1, <3>2
  <2>3. ASSUME u.root # NULL PROVE u.parent[u.root] = NULL
    <3>1. CASE p = NULL
      BY <1>0, <1>1, <1>4, <2>3, <3>1
    <3>2. CASE p # NULL
      <4>1. u.root = r /\ r # k /\ r \in Keys /\ par[r] = NULL
        BY <1>0, <1>1, <1>2, <1>3, <3>2
      <4>2. r # c
        BY <1>0, <1>4, <4>1, KeysNat
      <4>. QED
        BY <1>1, <4>1, <4>2
    <3>. QED
      BY <3>1, <3>2
  <2>4. ASSUME NEW n \in D, NEW e \in Sides, u.child[n][e] # NULL
        PROVE  u.child[n][e] \in D /\ u.parent[u.child[n][e]] = n
    <3>1. n \in Keys /\ n # k /\ n \in C
      BY <1>0
    <3>2. CASE n = p /\ ch[p][e] = k
      <4>1. u.child[n][e] = c /\ c \in C /\ c # k
        BY <1>1, <1>4, <2>4, <3>1, <3>2
      <4>. QED
        BY <1>0, <1>1, <3>2, <4>1
    <3>3. CASE ~(n = p /\ ch[p][e] = k)
      <4>1. u.child[n][e] = ch[n][e]
        BY <1>1, <3>1, <3>3
      <4>2. ch[n][e] \in C /\ par[ch[n][e]] = n
        BY <1>2, <2>4, <3>1, <4>1
      <4>3. ch[n][e] # k
        BY <3>3, <4>2
      <4>4. ch[n][e] # c
        BY <1>0, <1>4, <3>1, <4>2
      <4>. QED
        BY <1>0, <1>1, <4>1, <4>2, <4>3, <4>4, ZenonT(60)
    <3>. QED
      BY <3>2, <3>3
  <2>5. ASSUME NEW n \in D, n # u.root
        PROVE  u.parent[n] \in D /\ \E e \in Sides : u.child[u.parent[n]][e] = n
    <3>0. n \in C /\ n \in Keys /\ n # k
      BY <1>0
    <3>1. CASE n = c
      <4>1. p # NULL /\ p \in D /\ p \in Keys
        BY <1>0, <1>1, <1>3, <2>5, <3>1
      <4>2. PICK e \in Sides : ch[p][e] = k
        BY <1>3, <4>1
      <4>3. u.parent[n] = p /\ u.child[p][e] = c
        BY <1>1, <3>0, <3>1, <4>1, <4>2
      <4>. QED
        BY <3>1, <4>1, <4>3
    <3>2. CASE n # c
      <4>1. n # r
        BY <1>1, <1>3, <2>5, <3>0
      <4>2. PICK e \in Sides : par[n] \in C /\ ch[par[n]][e] = n
        BY <1>2, <3>0, <4>1
      <4>3. par[n] # k
        BY <1>0, <1>5, <3>0, <3>2, <4>2
      <4>a. par[n] \in Keys /\ ch[par[n]][e] # k
        BY <1>0, <3>0, <4>2
      <4>4. u.child[par[n]][e] = n
        BY <1>1, <4>2, <4>3, <4>a
      <4>5. u.parent[n] = par[n]
        BY <1>1, <3>0, <3>2
      <4>. QED
        BY <4>2, <4>3, <4>4, <4>5
    <3>. QED
      BY <3>1, <3>2
  <2>6. ASSUME NEW n \in Keys \ D
        PROVE  u.parent[n] = NULL /\ \A e \in Sides : u.child[n][e] = NULL
    <3>1. CASE n = k
      BY <1>1, <3>1
    <3>2. CASE n # k
      <4>1. n \in Keys \ C /\ n # p /\ n # c
        BY <1>3, <1>4, <3>2, KeysNat
      <4>. QED
        BY <1>1, <1>2, <3>2, <4>1
    <3>. QED
      BY <3>1, <3>2
  <2>. QED
    BY <2>1, <2>2, <2>3, <2>4, <2>5, <2>6 DEF Links
<1>8. Ranges(u.root, u.child, D, lo2, hi2, M)
  <2>0. /\ M \in Nat /\ lo \in [Keys -> 0..M] /\ hi \in [Keys -> 0..M]
        /\ \A x \in Keys : x < M
        /\ r # NULL => lo[r] = 0 /\ hi[r] = M
        /\ \A x \in C : lo[x] < x /\ x < hi[x]
        /\ \A x \in C : lo[x] \in C \cup {0} /\ hi[x] \in C \cup {M}
    BY <1>0 DEF Shape, Ranges
  <2>1. /\ \A x \in C : ch[x]["left"] # NULL =>
             lo[ch[x]["left"]] = lo[x] /\ hi[ch[x]["left"]] = x
        /\ \A x \in C : ch[x]["right"] # NULL =>
             lo[ch[x]["right"]] = x /\ hi[ch[x]["right"]] = hi[x]
    BY <1>0 DEF Shape, Ranges
  <2>2. lo2 \in [Keys -> 0..M] /\ hi2 \in [Keys -> 0..M]
    <3>1. lo[k] \in 0..M /\ hi[k] \in 0..M
      BY <1>0, <2>0
    <3>. QED
      BY <2>0, <3>1
  <2>3. /\ \A x \in C : lo2[x] = IF lo[x] = k THEN lo[k] ELSE lo[x]
        /\ \A x \in C : hi2[x] = IF hi[x] = k THEN hi[k] ELSE hi[x]
    BY <1>0
  <2> HIDE DEF lo2, hi2
  <2>a. /\ lo[k] < k /\ k < hi[k] /\ lo[k] \in Nat /\ hi[k] \in Nat /\ k < M
        /\ lo[k] \in C \cup {0} /\ hi[k] \in C \cup {M}
    BY <1>0, <2>0
  <2>4. c # NULL => lo2[c] = lo[k] /\ hi2[c] = hi[k]
    BY <1>0, <1>4, <2>3, <2>a DEF Sides
  <2>5. ASSUME u.root # NULL PROVE lo2[u.root] = 0 /\ hi2[u.root] = M
    <3>1. CASE p = NULL
      <4>1. u.root = c /\ lo[k] = 0 /\ hi[k] = M
        BY <1>0, <1>1, <1>3, <2>0, <3>1
      <4>. QED
        BY <2>4, <2>5, <4>1
    <3>2. CASE p # NULL
      <4>1. u.root = r /\ r \in C /\ lo[r] = 0 /\ hi[r] = M
        BY <1>1, <1>2, <2>0, <2>5, <3>2
      <4>2. 0 # k /\ M # k
        BY <1>0, <2>a DEF NULL
      <4>3. lo[r] # k /\ hi[r] # k
        BY <4>1, <4>2
      <4>4. lo2[r] = lo[r] /\ hi2[r] = hi[r]
        BY <2>3, <4>1, <4>3
      <4>. QED
        BY <4>1, <4>4
    <3>. QED
      BY <3>1, <3>2
  <2>6. ASSUME NEW x \in D
        PROVE  /\ lo2[x] < x /\ x < hi2[x]
               /\ lo2[x] \in D \cup {0} /\ hi2[x] \in D \cup {M}
    <3>1. /\ lo[x] < x /\ x < hi[x] /\ x \in Nat /\ x \in C
          /\ lo[x] \in C \cup {0} /\ hi[x] \in C \cup {M}
      BY <1>0, <2>0
    <3>2. /\ lo2[x] = IF lo[x] = k THEN lo[k] ELSE lo[x]
          /\ hi2[x] = IF hi[x] = k THEN hi[k] ELSE hi[x]
      BY <2>3, <3>1
    <3>3. /\ lo2[x] < x /\ x < hi2[x]
      BY <1>0, <2>a, <3>1, <3>2
    <3>4. lo2[x] # k /\ hi2[x] # k
      BY <1>0, <2>a, <3>2
    <3>5. lo2[x] \in C \cup {0} /\ hi2[x] \in C \cup {M}
      BY <2>a, <3>1, <3>2
    <3>. QED
      BY <3>3, <3>4, <3>5
  <2>7. ASSUME NEW x \in D, NEW e \in Sides, NEW z, z = u.child[x][e], z # NULL
        PROVE  /\ e = "left" => lo2[z] = lo2[x] /\ hi2[z] = x
               /\ e = "right" => lo2[z] = x /\ hi2[z] = hi2[x]
    <3>1. x \in C /\ x \in Keys /\ x # k
      BY <1>0
    <3>2. CASE x = p /\ ch[p][e] = k
      <4>1. z = c
        BY <1>1, <2>7, <3>1, <3>2
      <4>2. lo2[z] = lo[k] /\ hi2[z] = hi[k]
        BY <2>4, <2>7, <4>1
      <4>3. /\ e = "left" => lo[k] = lo[x] /\ hi[k] = x
            /\ e = "right" => lo[k] = x /\ hi[k] = hi[x]
        BY <1>0, <2>1, <3>1, <3>2
      <4>. QED
        BY <1>0, <2>3, <2>a, <3>1, <4>2, <4>3
    <3>3. CASE ~(x = p /\ ch[p][e] = k)
      <4>1. z = ch[x][e] /\ z \in C
        BY <1>1, <1>2, <2>7, <3>1, <3>3
      <4>2. /\ e = "left" => lo[z] = lo[x] /\ hi[z] = x
            /\ e = "right" => lo[z] = x /\ hi[z] = hi[x]
        BY <2>1, <2>7, <3>1, <4>1
      <4>. QED
        BY <2>3, <3>1, <4>1, <4>2
    <3>. QED
      BY <3>2, <3>3
  <2>8. "left" \in Sides /\ "right" \in Sides
    BY DEF Sides
  <2>. QED
    BY <2>0, <2>2, <2>5, <2>6, <2>7, <2>8 DEF Ranges
<1>. QED
  BY <1>1, <1>7, <1>8 DEF TreeShape, Shape

(* The new node takes the range of the one it replaces, and is where that  *)
(* one ended a range.                                                      *)
LEMMA RenamedShape ==
  ASSUME NEW tr, NEW C, NEW lo, NEW hi, NEW M, TreeShape(tr, C, lo, hi, M),
         NEW v \in C, NEW new \in Keys, new \notin C, NEW u,
         \A m \in C \ {v} : m < v <=> m < new,
         Renamed(tr, v, new, u)
  PROVE  \E lo2, hi2 : TreeShape(u, (C \ {v}) \cup {new}, lo2, hi2, M)
<1> DEFINE ch == tr.child
           par == tr.parent
           r == tr.root
           q == par[v]
           D == (C \ {v}) \cup {new}
           f(x) == IF x = v THEN new ELSE x
           lo2 == [x \in Keys |-> IF x = new THEN lo[v] ELSE f(lo[x])]
           hi2 == [x \in Keys |-> IF x = new THEN hi[v] ELSE f(hi[x])]
<1>0. Shape(r, ch, par, C, lo, hi, M) /\ C \subseteq Keys /\ NULL \notin C
      /\ C \subseteq Nat /\ v # NULL /\ v \in Nat /\ v \in Keys
      /\ new \in Nat /\ new # v /\ new # NULL
  BY KeysNat DEF TreeShape, Shape, Links
<1>1. /\ u \in Tree /\ u.root = IF q = NULL THEN new ELSE r
      /\ \A x \in Keys, e \in Sides :
           u.child[x][e] = IF x = v THEN NULL ELSE IF x = new THEN ch[v][e]
                           ELSE IF x = q /\ ch[q][e] = v THEN new
                           ELSE ch[x][e]
      /\ \A x \in Keys :
           u.parent[x] = IF x = v THEN NULL ELSE IF x = new THEN q
                         ELSE IF \E e \in Sides : x = ch[v][e] THEN new
                         ELSE par[x]
  BY DEF Renamed
<1>2. /\ r \in C \cup {NULL} /\ (C # {} => r # NULL)
      /\ r # NULL => par[r] = NULL
      /\ \A n \in C, e \in Sides :
           ch[n][e] # NULL => ch[n][e] \in C /\ par[ch[n][e]] = n
      /\ \A n \in C : n # r => par[n] \in C /\ \E e \in Sides : ch[par[n]][e] = n
      /\ \A n \in Keys \ C : par[n] = NULL /\ \A e \in Sides : ch[n][e] = NULL
  BY <1>0 DEF Shape, Links
<1>3. /\ q = NULL <=> v = r
      /\ q # NULL => q \in C /\ q # v /\ \E e \in Sides : ch[q][e] = v
  <2>1. v = r => q = NULL
    BY <1>0, <1>2
  <2>2. v # r => q \in C /\ q # v
    BY <1>0, ParentRange
  <2>3. v # r => \E e \in Sides : ch[q][e] = v
    BY <1>2
  <2>. QED
    BY <1>0, <2>1, <2>2, <2>3
<1>4. \A x \in C : (\E e \in Sides : x = ch[v][e]) <=> par[x] = v
  <2>1. ASSUME NEW x \in C, par[x] = v PROVE \E e \in Sides : x = ch[v][e]
    <3>1. x # r
      BY <1>0, <1>2, <2>1
    <3>. QED
      BY <1>2, <2>1, <3>1
  <2>. QED
    BY <1>0, <1>2, <2>1
<1>5. Links(u.root, u.child, u.parent, D)
  <2>1. /\ D \in SUBSET Keys /\ u.root \in D /\ u.root # NULL
        /\ u.child \in [Keys -> [Sides -> Pointer]]
        /\ u.parent \in [Keys -> Pointer]
    BY <1>0, <1>1, <1>2, <1>3 DEF Tree
  <2>2. u.parent[u.root] = NULL
    <3>1. CASE q = NULL
      BY <1>0, <1>1, <3>1
    <3>2. CASE q # NULL
      <4>1. u.root = r /\ r # v /\ r # new /\ r \in C /\ r \in Keys /\ par[r] = NULL
        BY <1>0, <1>1, <1>2, <1>3, <3>2
      <4>2. ~\E e \in Sides : r = ch[v][e]
        BY <1>0, <1>4, <4>1
      <4>. QED
        BY <1>1, <4>1, <4>2
    <3>. QED
      BY <3>1, <3>2
  <2>3. ASSUME NEW n \in D, NEW e \in Sides, u.child[n][e] # NULL
        PROVE  u.child[n][e] \in D /\ u.parent[u.child[n][e]] = n
    <3>0. n \in Keys /\ n # v
      BY <1>0
    <3>1. CASE n = new
      <4>1. u.child[n][e] = ch[v][e]
        BY <1>0, <1>1, <3>1
      <4>2. ch[v][e] \in C /\ par[ch[v][e]] = v
        BY <1>2, <2>3, <4>1
      <4>3. ch[v][e] # v
        BY <1>0, <2>3, <4>1, ChildRange
      <4>4. u.parent[ch[v][e]] = new
        BY <1>0, <1>1, <4>2, <4>3
      <4>. QED
        BY <3>1, <4>1, <4>2, <4>3, <4>4
    <3>2. CASE n # new /\ n = q /\ ch[q][e] = v
      <4>1. u.child[n][e] = new
        BY <1>1, <3>0, <3>2
      <4>. QED
        BY <1>0, <1>1, <3>2, <4>1
    <3>3. CASE n # new /\ ~(n = q /\ ch[q][e] = v)
      <4>1. u.child[n][e] = ch[n][e] /\ n \in C
        BY <1>1, <3>0, <3>3
      <4>2. ch[n][e] \in C /\ par[ch[n][e]] = n
        BY <1>2, <2>3, <4>1
      <4>3. ch[n][e] # v /\ ch[n][e] # new
        BY <3>3, <4>2
      <4>4. ~\E s \in Sides : ch[n][e] = ch[v][s]
        BY <1>4, <3>0, <4>2
      <4>5. ch[n][e] \in Keys
        BY <1>0, <4>2
      <4>6. u.parent[ch[n][e]] = par[ch[n][e]]
        BY <1>1, <4>3, <4>4, <4>5
      <4>. QED
        BY <4>1, <4>2, <4>3, <4>6
    <3>. QED
      BY <3>1, <3>2, <3>3
  <2>4. ASSUME NEW n \in D, n # u.root
        PROVE  u.parent[n] \in D /\ \E e \in Sides : u.child[u.parent[n]][e] = n
    <3>0. n \in Keys /\ n # v
      BY <1>0
    <3>1. CASE n = new
      <4>1. q # NULL
        BY <1>1, <2>4, <3>1
      <4>2. PICK e \in Sides : q \in C /\ q # v /\ ch[q][e] = v
        BY <1>3, <4>1
      <4>3. u.parent[n] = q /\ u.child[q][e] = new
        BY <1>0, <1>1, <3>0, <3>1, <4>2
      <4>. QED
        BY <3>1, <4>2, <4>3
    <3>2. CASE n # new
      <4>1. n \in C /\ n # r
        BY <1>1, <1>3, <2>4, <3>0, <3>2
      <4>2. PICK e \in Sides : par[n] \in C /\ ch[par[n]][e] = n
        BY <1>2, <4>1
      <4>3. CASE par[n] = v
        <5>1. u.parent[n] = new
          BY <1>1, <1>4, <3>0, <3>2, <4>1, <4>3
        <5>2. u.child[new][e] = n
          BY <1>0, <1>1, <4>2, <4>3
        <5>. QED
          BY <5>1, <5>2
      <4>4. CASE par[n] # v
        <5>1. u.parent[n] = par[n]
          BY <1>1, <1>4, <3>0, <3>2, <4>1, <4>4
        <5>2. par[n] # new /\ ch[par[n]][e] # v
          BY <3>0, <4>2
        <5>a. par[n] \in Keys
          BY <1>0, <4>2
        <5>3. u.child[par[n]][e] = n
          BY <1>1, <4>2, <4>4, <5>2, <5>a
        <5>. QED
          BY <4>2, <4>4, <5>1, <5>3
      <4>. QED
        BY <4>3, <4>4
    <3>. QED
      BY <3>1, <3>2
  <2>5. ASSUME NEW n \in Keys \ D
        PROVE  u.parent[n] = NULL /\ \A e \in Sides : u.child[n][e] = NULL
    <3>1. CASE n = v
      BY <1>1, <3>1
    <3>2. CASE n # v
      <4>1. n \in Keys \ C /\ n # q /\ n # new
        BY <1>3, <3>2, KeysNat
      <4>2. ~\E e \in Sides : n = ch[v][e]
        BY <1>2, <4>1, KeysNat
      <4>. QED
        BY <1>1, <1>2, <3>2, <4>1, <4>2
    <3>. QED
      BY <3>1, <3>2
  <2>. QED
    BY <2>1, <2>2, <2>3, <2>4, <2>5 DEF Links
<1>6. Ranges(u.root, u.child, D, lo2, hi2, M)
  <2>0. /\ M \in Nat /\ lo \in [Keys -> 0..M] /\ hi \in [Keys -> 0..M]
        /\ \A x \in Keys : x < M
        /\ r # NULL => lo[r] = 0 /\ hi[r] = M
        /\ \A x \in C : lo[x] < x /\ x < hi[x]
        /\ \A x \in C : lo[x] \in C \cup {0} /\ hi[x] \in C \cup {M}
    BY <1>0 DEF Shape, Ranges
  <2>1. /\ \A x \in C : ch[x]["left"] # NULL =>
             lo[ch[x]["left"]] = lo[x] /\ hi[ch[x]["left"]] = x
        /\ \A x \in C : ch[x]["right"] # NULL =>
             lo[ch[x]["right"]] = x /\ hi[ch[x]["right"]] = hi[x]
    BY <1>0 DEF Shape, Ranges
  <2>2. lo2 \in [Keys -> 0..M] /\ hi2 \in [Keys -> 0..M]
    <3>1. lo[v] \in 0..M /\ hi[v] \in 0..M /\ new \in 0..M
      BY <1>0, <2>0
    <3>. QED
      BY <2>0, <3>1
  <2>3. /\ \A x \in C : lo2[x] = IF lo[x] = v THEN new ELSE lo[x]
        /\ \A x \in C : hi2[x] = IF hi[x] = v THEN new ELSE hi[x]
        /\ lo2[new] = lo[v] /\ hi2[new] = hi[v]
    BY <1>0
  <2> HIDE DEF lo2, hi2
  <2>a. /\ lo[v] < v /\ v < hi[v] /\ lo[v] \in Nat /\ hi[v] \in Nat /\ v < M
        /\ lo[v] \in C \cup {0} /\ hi[v] \in C \cup {M} /\ new < M /\ 0 < v /\ 0 < new
    BY <1>0, <2>0, KeysNat
  <2>5. lo2[u.root] = 0 /\ hi2[u.root] = M
    <3>1. CASE q = NULL
      BY <1>0, <1>1, <1>3, <2>0, <2>3, <3>1
    <3>2. CASE q # NULL
      <4>1. u.root = r /\ r \in C /\ lo[r] = 0 /\ hi[r] = M
        BY <1>1, <1>2, <2>0, <3>2
      <4>2. 0 # v /\ M # v
        BY <1>0, <2>a DEF NULL
      <4>3. lo[r] # v /\ hi[r] # v
        BY <4>1, <4>2
      <4>4. lo2[r] = lo[r] /\ hi2[r] = hi[r]
        BY <2>3, <4>1, <4>3
      <4>. QED
        BY <4>1, <4>4
    <3>. QED
      BY <3>1, <3>2
  <2>6. ASSUME NEW x \in D
        PROVE  /\ lo2[x] < x /\ x < hi2[x]
               /\ lo2[x] \in D \cup {0} /\ hi2[x] \in D \cup {M}
    <3>1. CASE x = new
      <4>1. lo[v] # v /\ hi[v] # v
        BY <1>0, <2>a
      <4>2. lo[v] < new
        BY <1>0, <2>a, <4>1
      <4>3. new < hi[v]
        <5>1. CASE hi[v] = M
          BY <2>a, <5>1
        <5>2. CASE hi[v] \in C
          <6>1. ~(hi[v] < v) /\ hi[v] # new
            BY <1>0, <2>a, <5>2
          <6>2. ~(hi[v] < new)
            BY <4>1, <5>2, <6>1
          <6>. QED
            BY <1>0, <2>a, <6>1, <6>2
        <5>. QED
          BY <2>a, <5>1, <5>2
      <4>. QED
        BY <2>3, <2>a, <3>1, <4>1, <4>2, <4>3
    <3>2. CASE x # new
      <4>1. /\ lo[x] < x /\ x < hi[x] /\ x \in Nat /\ x \in C /\ x # v
            /\ lo[x] \in C \cup {0} /\ hi[x] \in C \cup {M}
        BY <1>0, <2>0, <3>2
      <4>2. /\ lo2[x] = IF lo[x] = v THEN new ELSE lo[x]
            /\ hi2[x] = IF hi[x] = v THEN new ELSE hi[x]
        BY <2>3, <4>1
      <4>3. x < v <=> x < new
        BY <4>1
      <4>4. lo2[x] < x /\ x < hi2[x]
        BY <1>0, <3>2, <4>1, <4>2, <4>3
      <4>5. lo2[x] \in D \cup {0} /\ hi2[x] \in D \cup {M}
        BY <4>1, <4>2
      <4>. QED
        BY <4>4, <4>5
    <3>. QED
      BY <3>1, <3>2
  <2>7. ASSUME NEW x \in D, NEW e \in Sides, NEW z, z = u.child[x][e], z # NULL
        PROVE  /\ e = "left" => lo2[z] = lo2[x] /\ hi2[z] = x
               /\ e = "right" => lo2[z] = x /\ hi2[z] = hi2[x]
    <3>0. x \in Keys /\ x # v
      BY <1>0
    <3>a. lo[v] # v /\ hi[v] # v
      BY <1>0, <2>a
    <3>1. CASE x = new
      <4>1. z = ch[v][e] /\ z \in C
        BY <1>0, <1>1, <1>2, <2>7, <3>1
      <4>2. /\ e = "left" => lo[z] = lo[v] /\ hi[z] = v
            /\ e = "right" => lo[z] = v /\ hi[z] = hi[v]
        BY <2>1, <2>7, <4>1
      <4>. QED
        BY <2>3, <3>1, <3>a, <4>1, <4>2
    <3>2. CASE x # new /\ x = q /\ ch[q][e] = v
      <4>1. z = new /\ x \in C
        BY <1>1, <2>7, <3>0, <3>2
      <4>2. /\ e = "left" => lo[v] = lo[x] /\ hi[v] = x
            /\ e = "right" => lo[v] = x /\ hi[v] = hi[x]
        BY <1>0, <2>1, <3>2, <4>1
      <4>. QED
        BY <2>3, <3>a, <4>1, <4>2
    <3>3. CASE x # new /\ ~(x = q /\ ch[q][e] = v)
      <4>0. x \in C
        BY <3>3
      <4>1. z = ch[x][e] /\ z \in C
        BY <1>1, <1>2, <2>7, <3>0, <3>3, <4>0
      <4>2. /\ e = "left" => lo[z] = lo[x] /\ hi[z] = x
            /\ e = "right" => lo[z] = x /\ hi[z] = hi[x]
        BY <2>1, <2>7, <4>0, <4>1
      <4>. QED
        BY <2>3, <3>0, <4>0, <4>1, <4>2
    <3>. QED
      BY <3>1, <3>2, <3>3
  <2>8. "left" \in Sides /\ "right" \in Sides
    BY DEF Sides
  <2>. QED
    BY <2>0, <2>2, <2>5, <2>6, <2>7, <2>8 DEF Ranges
<1>. QED
  BY <1>1, <1>5, <1>6 DEF TreeShape, Shape


(* What a tree has by its shape, of its links.                             *)
LEMMA ShapeLinks ==
  ASSUME NEW tr, NEW C, NEW lo, NEW hi, NEW M, TreeShape(tr, C, lo, hi, M)
  PROVE  /\ tr \in Tree /\ C \subseteq Keys /\ C \subseteq Nat /\ NULL \notin C
         /\ tr.root \in C \cup {NULL} /\ (C # {} => tr.root # NULL)
         /\ \A n \in C : tr.parent[n] = NULL <=> n = tr.root
         /\ \A n \in C : n # tr.root =>
              /\ tr.parent[n] \in C /\ tr.parent[n] # n
              /\ tr.child[tr.parent[n]][Side(n, tr.parent[n])] = n
         /\ \A n \in C, d \in Sides : tr.child[n][d] # NULL =>
              /\ tr.child[n][d] \in C /\ tr.parent[tr.child[n][d]] = n
              /\ tr.child[n][d] # n /\ d = Side(tr.child[n][d], n)
              /\ tr.child[n][d] # tr.root
         /\ \A n \in Keys \ C :
              tr.parent[n] = NULL /\ \A d \in Sides : tr.child[n][d] = NULL
<1> DEFINE ch == tr.child
           par == tr.parent
           r == tr.root
<1>1. tr \in Tree /\ Shape(r, ch, par, C, lo, hi, M)
  BY DEF TreeShape
<1>2. /\ C \subseteq Keys /\ r \in C \cup {NULL} /\ (C # {} => r # NULL)
      /\ r # NULL => par[r] = NULL
      /\ \A n \in C : n # r => par[n] \in C
      /\ \A n \in Keys \ C : par[n] = NULL /\ \A d \in Sides : ch[n][d] = NULL
  BY <1>1 DEF Shape, Links
<1>3. C \subseteq Nat /\ NULL \notin C
  BY <1>2, KeysNat
<1>4. ASSUME NEW n \in C, n # r
      PROVE  par[n] \in C /\ par[n] # n /\ ch[par[n]][Side(n, par[n])] = n
  BY <1>1, <1>4, ParentRange
<1>5. \A n \in C : par[n] = NULL <=> n = r
  BY <1>2, <1>3
<1>6. ASSUME NEW n \in C, NEW d \in Sides, ch[n][d] # NULL
      PROVE  /\ ch[n][d] \in C /\ par[ch[n][d]] = n
             /\ ch[n][d] # n /\ d = Side(ch[n][d], n)
             /\ ch[n][d] # r
  <2>1. /\ ch[n][d] \in C /\ par[ch[n][d]] = n
        /\ ch[n][d] # n /\ d = Side(ch[n][d], n)
    BY <1>1, <1>6, ChildRange
  <2>. QED
    BY <1>2, <1>3, <2>1
<1>. QED
  BY <1>1, <1>2, <1>3, <1>4, <1>5, <1>6

(* A tree with the same links has the same shape, whatever its colours.    *)
LEMMA SameLinks ==
  ASSUME NEW tr, NEW C, NEW lo, NEW hi, NEW M, TreeShape(tr, C, lo, hi, M),
         NEW u \in Tree, u.root = tr.root, u.child = tr.child,
         u.parent = tr.parent
  PROVE  TreeShape(u, C, lo, hi, M)
BY DEF TreeShape

Recoloured(tr, reds, blacks, u) ==
  /\ u \in Tree /\ u.root = tr.root /\ u.child = tr.child
  /\ u.parent = tr.parent
  /\ \A n \in Keys : u.red[n] <=> n \in reds \/ (tr.red[n] /\ n \notin blacks)

(* Recolouring changes nothing else.                                       *)
LEMMA RecolourIs ==
  ASSUME NEW tr \in Tree, NEW reds, NEW blacks
  PROVE  Recoloured(tr, reds, blacks, Recolour(tr, reds, blacks))
<1> DEFINE q == [n \in Keys |-> n \in reds \/ (tr.red[n] /\ n \notin blacks)]
<1>1. Recolour(tr, reds, blacks) = [tr EXCEPT !.red = q]
  BY DEF Recolour
<1>2. q \in [Keys -> BOOLEAN]
  OBVIOUS
<1>3. \A n \in Keys : q[n] <=> n \in reds \/ (tr.red[n] /\ n \notin blacks)
  OBVIOUS
<1> HIDE DEF q
<1>4. /\ [tr EXCEPT !.red = q] \in Tree /\ [tr EXCEPT !.red = q].red = q
      /\ [tr EXCEPT !.red = q].root = tr.root
      /\ [tr EXCEPT !.red = q].child = tr.child
      /\ [tr EXCEPT !.red = q].parent = tr.parent
  BY <1>2 DEF Tree
<1>. QED
  BY <1>1, <1>3, <1>4 DEF Recoloured

-----------------------------------------------------------------------------
(* What the functions that change a tree write.                            *)

NodeSet(tr, k, f, p, b, u) ==
  /\ u \in Tree /\ u.root = tr.root
  /\ \A x \in Keys, e \in Sides :
       u.child[x][e] = IF x = k THEN f[e] ELSE tr.child[x][e]
  /\ \A x \in Keys : u.parent[x] = IF x = k THEN p ELSE tr.parent[x]
  /\ \A x \in Keys : u.red[x] = IF x = k THEN b ELSE tr.red[x]

(* All fields of one node are written.                                     *)
LEMMA NodeSetIs ==
  ASSUME NEW tr \in Tree, NEW k \in Keys, NEW f \in [Sides -> Pointer],
         NEW p \in Pointer, NEW b \in BOOLEAN
  PROVE  NodeSet(tr, k, f, p, b,
           [tr EXCEPT !.child[k] = f, !.parent[k] = p, !.red[k] = b])
<1> DEFINE c1 == [tr.child EXCEPT ![k] = f]
           p1 == [tr.parent EXCEPT ![k] = p]
           r1 == [tr.red EXCEPT ![k] = b]
           u == [tr EXCEPT !.child = c1, !.parent = p1, !.red = r1]
<1>1. [tr EXCEPT !.child[k] = f, !.parent[k] = p, !.red[k] = b] = u
  BY DEF Tree
<1>2. /\ tr.child \in [Keys -> [Sides -> Pointer]]
      /\ tr.parent \in [Keys -> Pointer] /\ tr.red \in [Keys -> BOOLEAN]
      /\ tr.root \in Pointer
  BY DEF Tree
<1>3. /\ c1 \in [Keys -> [Sides -> Pointer]]
      /\ \A x \in Keys, e \in Sides :
           c1[x][e] = IF x = k THEN f[e] ELSE tr.child[x][e]
  BY <1>2
<1>4. /\ p1 \in [Keys -> Pointer]
      /\ \A x \in Keys : p1[x] = IF x = k THEN p ELSE tr.parent[x]
  BY <1>2
<1>5. /\ r1 \in [Keys -> BOOLEAN]
      /\ \A x \in Keys : r1[x] = IF x = k THEN b ELSE tr.red[x]
  BY <1>2
<1> HIDE DEF c1, p1, r1
<1>6. /\ u \in Tree /\ u.root = tr.root /\ u.child = c1 /\ u.parent = p1
      /\ u.red = r1
  BY <1>2, <1>3, <1>4, <1>5 DEF Tree
<1> HIDE DEF u
<1>7. NodeSet(tr, k, f, p, b, u)
  BY <1>3, <1>4, <1>5, <1>6 DEF NodeSet
<1>. QED
  BY <1>1, <1>7

(* The same, in the order of rb_link_node.                                 *)
LEMMA NodeSetLast ==
  ASSUME NEW tr \in Tree, NEW k \in Keys, NEW f \in [Sides -> Pointer],
         NEW p \in Pointer, NEW b \in BOOLEAN
  PROVE  NodeSet(tr, k, f, p, b,
           [tr EXCEPT !.parent[k] = p, !.red[k] = b, !.child[k] = f])
<1> DEFINE c1 == [tr.child EXCEPT ![k] = f]
           p1 == [tr.parent EXCEPT ![k] = p]
           r1 == [tr.red EXCEPT ![k] = b]
           u == [tr EXCEPT !.parent = p1, !.red = r1, !.child = c1]
<1>1. [tr EXCEPT !.parent[k] = p, !.red[k] = b, !.child[k] = f] = u
  BY DEF Tree
<1>2. /\ tr.child \in [Keys -> [Sides -> Pointer]]
      /\ tr.parent \in [Keys -> Pointer] /\ tr.red \in [Keys -> BOOLEAN]
      /\ tr.root \in Pointer
  BY DEF Tree
<1>3. /\ c1 \in [Keys -> [Sides -> Pointer]]
      /\ \A x \in Keys, e \in Sides :
           c1[x][e] = IF x = k THEN f[e] ELSE tr.child[x][e]
  BY <1>2
<1>4. /\ p1 \in [Keys -> Pointer]
      /\ \A x \in Keys : p1[x] = IF x = k THEN p ELSE tr.parent[x]
  BY <1>2
<1>5. /\ r1 \in [Keys -> BOOLEAN]
      /\ \A x \in Keys : r1[x] = IF x = k THEN b ELSE tr.red[x]
  BY <1>2
<1> HIDE DEF c1, p1, r1
<1>6. /\ u \in Tree /\ u.root = tr.root /\ u.child = c1 /\ u.parent = p1
      /\ u.red = r1
  BY <1>2, <1>3, <1>4, <1>5 DEF Tree
<1> HIDE DEF u
<1>7. NodeSet(tr, k, f, p, b, u)
  BY <1>3, <1>4, <1>5, <1>6 DEF NodeSet
<1>. QED
  BY <1>1, <1>7

ChildSet(tr, p, d, k, u) ==
  /\ u \in Tree /\ u.root = tr.root /\ u.parent = tr.parent /\ u.red = tr.red
  /\ \A x \in Keys, e \in Sides :
       u.child[x][e] = IF x = p /\ e = d THEN k ELSE tr.child[x][e]

(* One link is written.                                                    *)
LEMMA ChildSetIs ==
  ASSUME NEW tr \in Tree, NEW p \in Keys, NEW d \in Sides, NEW k \in Pointer
  PROVE  ChildSet(tr, p, d, k, [tr EXCEPT !.child[p][d] = k])
<1> DEFINE c1 == [tr.child EXCEPT ![p][d] = k]
           u == [tr EXCEPT !.child = c1]
<1>1. [tr EXCEPT !.child[p][d] = k] = u
  BY DEF Tree
<1>2. tr.child \in [Keys -> [Sides -> Pointer]]
  BY DEF Tree
<1>3. /\ c1 \in [Keys -> [Sides -> Pointer]]
      /\ \A x \in Keys, e \in Sides :
           c1[x][e] = IF x = p /\ e = d THEN k ELSE tr.child[x][e]
  BY <1>2
<1> HIDE DEF c1
<1>4. /\ u \in Tree /\ u.root = tr.root /\ u.child = c1 /\ u.red = tr.red
      /\ u.parent = tr.parent
  BY <1>3 DEF Tree
<1> HIDE DEF u
<1>5. ChildSet(tr, p, d, k, u)
  BY <1>3, <1>4 DEF ChildSet
<1>. QED
  BY <1>1, <1>5

RootSet(tr, k, u) ==
  /\ u \in Tree /\ u.root = k /\ u.parent = tr.parent /\ u.red = tr.red
  /\ u.child = tr.child

(* The root is written.                                                    *)
LEMMA RootSetIs ==
  ASSUME NEW tr \in Tree, NEW k \in Pointer
  PROVE  RootSet(tr, k, [tr EXCEPT !.root = k])
BY DEF RootSet, Tree

(* There are no links in a new node.                                       *)
LEMMA NoChildrenIs ==
  /\ NoChildren \in [Sides -> Pointer]
  /\ \A e \in Sides : NoChildren[e] = NULL
BY DEF NoChildren, Pointer

(* rb_link_node hangs the node in its place, red.                          *)
LEMMA LinkIs ==
  ASSUME NEW tr \in Tree, NEW k \in Keys, NEW p \in Pointer, NEW d \in Sides,
         p # k
  PROVE  Linked(tr, k, p, d, rb_link_node(tr, k, p, d))
<1> DEFINE t1 == [tr EXCEPT !.parent[k] = p, !.red[k] = TRUE,
                            !.child[k] = NoChildren]
           u == IF p = NULL THEN [t1 EXCEPT !.root = k]
                ELSE [t1 EXCEPT !.child[p][d] = k]
<1>0. rb_link_node(tr, k, p, d) = u
  BY Zenon DEF rb_link_node
<1>1. NodeSet(tr, k, NoChildren, p, TRUE, t1)
  BY NoChildrenIs, NodeSetLast
<1> HIDE DEF t1
<1>2. /\ t1 \in Tree /\ t1.root = tr.root
      /\ \A x \in Keys, e \in Sides :
           t1.child[x][e] = IF x = k THEN NULL ELSE tr.child[x][e]
      /\ \A x \in Keys : t1.parent[x] = IF x = k THEN p ELSE tr.parent[x]
      /\ \A x \in Keys : t1.red[x] = IF x = k THEN TRUE ELSE tr.red[x]
  BY <1>1, NoChildrenIs DEF NodeSet
<1>3. k \in Pointer /\ NULL \notin Keys
  BY KeysNat DEF Pointer
<1>4. CASE p = NULL
  <2>1. RootSet(t1, k, [t1 EXCEPT !.root = k])
    BY <1>2, <1>3, RootSetIs
  <2>2. u = [t1 EXCEPT !.root = k]
    BY <1>4
  <2> HIDE DEF u
  <2>3. RootSet(t1, k, u)
    BY <2>1, <2>2
  <2>4. /\ u \in Tree /\ u.root = k /\ u.parent = t1.parent /\ u.red = t1.red
        /\ u.child = t1.child
    BY <2>3 DEF RootSet
  <2>5. \A x \in Keys : u.red[x] = IF x = k THEN TRUE ELSE tr.red[x]
    BY <1>2, <2>4, Zenon
  <2>6. \A x \in Keys : u.parent[x] = IF x = k THEN p ELSE tr.parent[x]
    BY <1>2, <2>4
  <2>7. \A x \in Keys, e \in Sides :
          u.child[x][e] = IF x = k THEN NULL ELSE IF x = p /\ e = d THEN k
                          ELSE tr.child[x][e]
    BY <1>2, <1>3, <1>4, <2>4
  <2>8. Linked(tr, k, p, d, u)
    BY <1>4, <2>4, <2>5, <2>6, <2>7 DEF Linked
  <2>. QED
    BY <1>0, <2>8 DEF u
<1>5. CASE p # NULL
  <2>0. p \in Keys
    BY <1>5 DEF Pointer
  <2>1. ChildSet(t1, p, d, k, [t1 EXCEPT !.child[p][d] = k])
    BY <1>2, <1>3, <2>0, ChildSetIs
  <2>2. u = [t1 EXCEPT !.child[p][d] = k]
    BY <1>5
  <2> HIDE DEF u
  <2>3. ChildSet(t1, p, d, k, u)
    BY <2>1, <2>2
  <2>4. /\ u \in Tree /\ u.root = t1.root /\ u.parent = t1.parent
        /\ u.red = t1.red
        /\ \A x \in Keys, e \in Sides :
             u.child[x][e] = IF x = p /\ e = d THEN k ELSE t1.child[x][e]
    BY <2>3 DEF ChildSet
  <2>5. \A x \in Keys : u.red[x] = IF x = k THEN TRUE ELSE tr.red[x]
    BY <1>2, <2>4, Zenon
  <2>6. \A x \in Keys : u.parent[x] = IF x = k THEN p ELSE tr.parent[x]
    BY <1>2, <2>4
  <2>7. \A x \in Keys, e \in Sides :
          u.child[x][e] = IF x = k THEN NULL ELSE IF x = p /\ e = d THEN k
                          ELSE tr.child[x][e]
    BY <1>2, <2>4
  <2>8. Linked(tr, k, p, d, u)
    BY <1>2, <1>5, <2>4, <2>5, <2>6, <2>7 DEF Linked
  <2>. QED
    BY <1>0, <2>8 DEF u
<1>. QED
  BY <1>4, <1>5

(* Freed clears a node.                                                    *)
LEMMA FreedIs ==
  ASSUME NEW tr \in Tree, NEW k \in Keys
  PROVE  NodeSet(tr, k, NoChildren, NULL, FALSE, Freed(tr, k))
<1>1. NULL \in Pointer
  BY DEF Pointer
<1>2. Freed(tr, k) = [tr EXCEPT !.child[k] = NoChildren, !.parent[k] = NULL,
                                !.red[k] = FALSE]
  BY Zenon DEF Freed
<1>3. FALSE \in BOOLEAN /\ NoChildren \in [Sides -> Pointer]
  BY NoChildrenIs
<1>4. NodeSet(tr, k, NoChildren, NULL, FALSE,
        [tr EXCEPT !.child[k] = NoChildren, !.parent[k] = NULL,
                   !.red[k] = FALSE])
  BY <1>1, <1>3, NodeSetIs
<1>. QED
  BY <1>2, <1>4, Zenon

(* A node with at most one child is taken out.                             *)
LEMMA SpliceOneIs ==
  ASSUME NEW tr, NEW C, NEW lo, NEW hi, NEW M, TreeShape(tr, C, lo, hi, M),
         NEW k \in C, NEW c,
         c = IF tr.child[k]["left"] = NULL THEN tr.child[k]["right"]
             ELSE tr.child[k]["left"]
  PROVE  Removed(tr, k, c, Freed(SpliceOne(tr, k).tree, k))
<1> DEFINE p == tr.parent[k]
           t1 == rb_set_parent(tr, c, p)
           t2 == Relink(t1, p, k, c)
           u == Freed(t2, k)
<1>0. /\ tr \in Tree /\ k \in Keys /\ NULL \notin Keys /\ C \subseteq Keys
      /\ k = tr.root <=> p = NULL
      /\ k # tr.root => p \in C /\ p # k /\ tr.child[p][Side(k, p)] = k
  BY KeysNat, ShapeLinks
<1>a. /\ "left" \in Sides /\ "right" \in Sides
      /\ \A e \in Sides : e = "left" \/ e = "right"
  BY DEF Sides
<1>b. \A e \in Sides : p # NULL /\ tr.child[p][e] = k => e = Side(k, p)
  <2>1. SUFFICES ASSUME NEW e \in Sides, p # NULL, tr.child[p][e] = k
                 PROVE  e = Side(k, p)
    OBVIOUS
  <2>2. p \in C /\ tr.child[p][e] # NULL
    BY <1>0, <2>1
  <2>. QED
    BY <2>1, <2>2, ShapeLinks
<1>c. c \in Pointer /\ p \in Pointer
  BY <1>0, <1>a DEF Tree
<1>1. SpliceOne(tr, k).tree = t2
  BY Zenon DEF SpliceOne
<1>2. ParentSet(tr, c, p, t1)
  BY <1>0, <1>c, SetParentIs
<1> HIDE DEF t1
<1>3. /\ t1 \in Tree /\ t1.root = tr.root /\ t1.child = tr.child
      /\ t1.red = tr.red
      /\ \A x \in Keys : t1.parent[x] = IF x = c THEN p ELSE tr.parent[x]
  BY <1>2 DEF ParentSet
<1>4. Relinked(t1, p, k, c, t2)
  BY <1>3, <1>c, RelinkIs
<1> HIDE DEF t2
<1>5. /\ t2 \in Tree /\ t2.parent = t1.parent /\ t2.red = t1.red
      /\ t2.root = IF p = NULL THEN c ELSE t1.root
      /\ \A x \in Keys, e \in Sides :
           t2.child[x][e] =
             IF x = p /\ e = IF t1.child[p]["left"] = k THEN "left" ELSE "right"
             THEN c ELSE t1.child[x][e]
  BY <1>4 DEF Relinked
<1>6. NodeSet(t2, k, NoChildren, NULL, FALSE, u)
  BY <1>0, <1>5, FreedIs
<1> HIDE DEF u
<1>7. /\ u \in Tree /\ u.root = t2.root
      /\ \A x \in Keys, e \in Sides :
           u.child[x][e] = IF x = k THEN NULL ELSE t2.child[x][e]
      /\ \A x \in Keys : u.parent[x] = IF x = k THEN NULL ELSE t2.parent[x]
      /\ \A x \in Keys : u.red[x] = IF x = k THEN FALSE ELSE t2.red[x]
  BY <1>6, NoChildrenIs DEF NodeSet
<1>8. ASSUME NEW x \in Keys, NEW e \in Sides
      PROVE  u.child[x][e] = IF x = k THEN NULL
                             ELSE IF x = p /\ tr.child[p][e] = k THEN c
                             ELSE tr.child[x][e]
  <2>1. CASE x = p
    <3>1. p # NULL /\ p \in C /\ p # k /\ tr.child[p][Side(k, p)] = k
      BY <1>0, <2>1
    <3>2. (e = IF t1.child[p]["left"] = k THEN "left" ELSE "right")
            <=> tr.child[p][e] = k
      <4>1. Side(k, p) \in Sides
        BY DEF Side, Sides
      <4>. QED
        BY <1>3, <1>a, <1>b, <3>1, <4>1
    <3>. QED
      BY <1>3, <1>5, <1>7, <2>1, <3>1, <3>2
  <2>2. CASE x # p
    BY <1>3, <1>5, <1>7, <2>2
  <2>. QED
    BY <2>1, <2>2
<1>9. \A x \in Keys : u.parent[x] = IF x = k THEN NULL
                                    ELSE IF x = c THEN p ELSE tr.parent[x]
  BY <1>3, <1>5, <1>7
<1>10. \A x \in Keys : u.red[x] = IF x = k THEN FALSE ELSE tr.red[x]
  <2>1. t2.red = tr.red
    BY <1>3, <1>5
  <2>. QED
    BY <1>7, <2>1, Zenon
<1>11. u \in Tree /\ u.root = IF p = NULL THEN c ELSE tr.root
  BY <1>3, <1>5, <1>7
<1>12. Removed(tr, k, c, u)
  BY <1>8, <1>9, <1>10, <1>11 DEF Removed
<1>. QED
  BY <1>1, <1>12 DEF u

(* The node that rb_erase exchanges with k: the next one.  It has no left  *)
(* child, and is a left child unless it is the right child of k.           *)
LEMMA SuccessorIs ==
  ASSUME NEW tr, NEW C, NEW lo, NEW hi, NEW M, TreeShape(tr, C, lo, hi, M),
         NEW k \in C, tr.child[k]["right"] # NULL,
         NEW s, s = Extreme(tr, tr.child[k]["right"], "left")
  PROVE  /\ s \in C /\ k < s /\ s # k /\ tr.child[s]["left"] = NULL
         /\ \A m \in C \ {k, s} : m < k <=> m < s
         /\ s # tr.root /\ tr.parent[s] \in C /\ tr.parent[s] # s
         /\ tr.parent[s] # k => tr.child[tr.parent[s]]["left"] = s
         /\ tr.parent[s] = k => tr.child[k]["right"] = s
<1> DEFINE b == tr.child[k]["right"]
           p == tr.parent[s]
<1>0. /\ "left" \in Sides /\ "right" \in Sides
      /\ Shape(tr.root, tr.child, tr.parent, C, lo, hi, M)
      /\ tr \in Tree /\ C \subseteq Keys /\ C \subseteq Nat /\ NULL \notin C
  BY ShapeLinks DEF Sides, TreeShape
<1>1. b \in C /\ lo[b] = k /\ hi[b] = hi[k]
  BY <1>0, ChildRange
<1>2. /\ s \in C /\ tr.child[s]["left"] = NULL /\ lo[s] = lo[b]
      /\ Within(lo, hi, b, s)
      /\ \A m \in C : Within(lo, hi, b, m) => s <= m
  BY <1>0, <1>1, ExtremeIs
<1>3. k < s /\ s # k /\ s \in Nat /\ k \in Nat
  BY <1>0, <1>1, <1>2 DEF Within
<1>4. hi[b] \in Nat
  BY <1>0, <1>1 DEF Shape, Ranges
<1>5. ASSUME NEW m \in C \ {k, s} PROVE m < k <=> m < s
  <2>1. m \in Nat /\ m # k /\ m # s
    BY <1>0
  <2>2. k < m /\ m < s => Within(lo, hi, b, m)
    BY <1>1, <1>2, <1>3, <1>4, <2>1 DEF Within
  <2>3. ~(k < m /\ m < s)
    BY <1>2, <1>3, <2>1, <2>2
  <2>. QED
    BY <1>3, <2>1, <2>3
<1>6. s # tr.root
  <2>1. tr.root # NULL => lo[tr.root] = 0
    BY <1>0 DEF Shape, Ranges
  <2>2. k # 0
    BY <1>0 DEF NULL
  <2>. QED
    BY <1>0, <1>1, <1>2, <2>1, <2>2
<1>7. p \in C /\ p # s /\ tr.child[p][Side(s, p)] = s
  BY <1>2, <1>6, ShapeLinks
<1>8. ASSUME p # k PROVE tr.child[p]["left"] = s
  <2>1. SUFFICES ASSUME Side(s, p) = "right" PROVE FALSE
    BY <1>7 DEF Side
  <2>2. tr.child[p]["right"] = s
    BY <1>7, <2>1
  <2>3. lo[s] = p
    BY <1>0, <1>2, <1>7, <2>2, ZenonT(60) DEF Shape, Ranges
  <2>. QED
    BY <1>1, <1>2, <1>8, <2>3
<1>9. ASSUME p = k PROVE tr.child[k]["right"] = s
  <2>1. Side(s, k) = "right"
    BY <1>3 DEF Side
  <2>. QED
    BY <1>7, <1>9, <2>1
<1>. QED
  BY <1>2, <1>3, <1>5, <1>6, <1>7, <1>8, <1>9

TwoChildrenSet(tr, p, d, a, q, f, b, u) ==
  /\ u \in Tree /\ u.root = tr.root /\ u.parent = tr.parent /\ u.red = tr.red
  /\ \A x \in Keys, e \in Sides :
       u.child[x][e] = IF x = q /\ e = f THEN b
                       ELSE IF x = p /\ e = d THEN a ELSE tr.child[x][e]

(* Two links are written.                                                  *)
LEMMA TwoChildrenSetIs ==
  ASSUME NEW tr \in Tree, NEW p \in Keys, NEW d \in Sides, NEW a \in Pointer,
         NEW q \in Keys, NEW f \in Sides, NEW b \in Pointer
  PROVE  TwoChildrenSet(tr, p, d, a, q, f, b,
           [tr EXCEPT !.child[p][d] = a, !.child[q][f] = b])
<1> DEFINE c1 == [tr.child EXCEPT ![p][d] = a]
           c2 == [c1 EXCEPT ![q][f] = b]
           u == [tr EXCEPT !.child = c2]
<1>1. [tr EXCEPT !.child[p][d] = a, !.child[q][f] = b] = u
  BY DEF Tree
<1>2. tr.child \in [Keys -> [Sides -> Pointer]]
  BY DEF Tree
<1>3. /\ c1 \in [Keys -> [Sides -> Pointer]]
      /\ \A x \in Keys, e \in Sides :
           c1[x][e] = IF x = p /\ e = d THEN a ELSE tr.child[x][e]
  BY <1>2
<1> HIDE DEF c1
<1>4. /\ c2 \in [Keys -> [Sides -> Pointer]]
      /\ \A x \in Keys, e \in Sides :
           c2[x][e] = IF x = q /\ e = f THEN b ELSE c1[x][e]
  BY <1>3
<1> HIDE DEF c2
<1>5. /\ u \in Tree /\ u.root = tr.root /\ u.child = c2 /\ u.red = tr.red
      /\ u.parent = tr.parent
  BY <1>4 DEF Tree
<1> HIDE DEF u
<1>6. TwoChildrenSet(tr, p, d, a, q, f, b, u)
  BY <1>3, <1>4, <1>5 DEF TwoChildrenSet
<1>. QED
  BY <1>1, <1>6

PlaceSet(tr, s, g, b, d, a, u) ==
  /\ u \in Tree /\ u.root = tr.root
  /\ \A x \in Keys, e \in Sides :
       u.child[x][e] = IF x = s /\ e = d THEN a ELSE tr.child[x][e]
  /\ \A x \in Keys : u.parent[x] = IF x = s THEN g ELSE tr.parent[x]
  /\ \A x \in Keys : u.red[x] = IF x = s THEN b ELSE tr.red[x]

(* The parent, the colour and a child of a node are written.               *)
LEMMA PlaceSetIs ==
  ASSUME NEW tr \in Tree, NEW s \in Keys, NEW g \in Pointer, NEW b \in BOOLEAN,
         NEW d \in Sides, NEW a \in Pointer
  PROVE  PlaceSet(tr, s, g, b, d, a,
           [tr EXCEPT !.parent[s] = g, !.red[s] = b, !.child[s][d] = a])
<1> DEFINE p1 == [tr.parent EXCEPT ![s] = g]
           r1 == [tr.red EXCEPT ![s] = b]
           c1 == [tr.child EXCEPT ![s][d] = a]
           u == [tr EXCEPT !.parent = p1, !.red = r1, !.child = c1]
<1>1. [tr EXCEPT !.parent[s] = g, !.red[s] = b, !.child[s][d] = a] = u
  BY DEF Tree
<1>2. /\ tr.child \in [Keys -> [Sides -> Pointer]]
      /\ tr.parent \in [Keys -> Pointer] /\ tr.red \in [Keys -> BOOLEAN]
      /\ tr.root \in Pointer
  BY DEF Tree
<1>3. /\ c1 \in [Keys -> [Sides -> Pointer]]
      /\ \A x \in Keys, e \in Sides :
           c1[x][e] = IF x = s /\ e = d THEN a ELSE tr.child[x][e]
  BY <1>2
<1>4. /\ p1 \in [Keys -> Pointer]
      /\ \A x \in Keys : p1[x] = IF x = s THEN g ELSE tr.parent[x]
  BY <1>2
<1>5. /\ r1 \in [Keys -> BOOLEAN]
      /\ \A x \in Keys : r1[x] = IF x = s THEN b ELSE tr.red[x]
  BY <1>2
<1> HIDE DEF c1, p1, r1
<1>6. /\ u \in Tree /\ u.root = tr.root /\ u.child = c1 /\ u.parent = p1
      /\ u.red = r1
  BY <1>2, <1>3, <1>4, <1>5 DEF Tree
<1> HIDE DEF u
<1>7. PlaceSet(tr, s, g, b, d, a, u)
  BY <1>3, <1>4, <1>5, <1>6 DEF PlaceSet
<1>. QED
  BY <1>1, <1>7

SpliceAt(tr, old, n) ==
  LET c == tr.child[n]["right"]
      p == tr.parent[n]
      t1 == Relink(tr, tr.parent[old], old, n)
      t2 == IF p = old THEN t1
            ELSE rb_set_parent(
                   [rb_set_parent(t1, c, p) EXCEPT
                      !.child[p]["left"] = c,
                      !.child[n]["right"] = tr.child[old]["right"]],
                   tr.child[old]["right"], n)
      t3 == [t2 EXCEPT !.parent[n] = tr.parent[old], !.red[n] = tr.red[old],
                       !.child[n]["left"] = tr.child[old]["left"]]
  IN rb_set_parent(t3, tr.child[old]["left"], n)

(* A node with two children: the result is that of taking out the next     *)
(* node s, which has no left child, and putting it in the place of k.      *)
LEMMA SpliceTwoIs ==
  ASSUME NEW tr, NEW C, NEW lo, NEW hi, NEW M, TreeShape(tr, C, lo, hi, M),
         NEW k \in C, tr.child[k]["left"] # NULL, tr.child[k]["right"] # NULL,
         NEW s, s = Extreme(tr, tr.child[k]["right"], "left"),
         NEW w, Removed(tr, s, tr.child[s]["right"], w)
  PROVE  Renamed(w, k, s, Freed(SpliceTwo(tr, k).tree, k))
<1> DEFINE c == tr.child[s]["right"]
           l == tr.child[k]["left"]
           r == tr.child[k]["right"]
           p == tr.parent[s]
           g == tr.parent[k]
           t1 == Relink(tr, g, k, s)
           ta == rb_set_parent(t1, c, p)
           tb == [ta EXCEPT !.child[p]["left"] = c, !.child[s]["right"] = r]
           tc == rb_set_parent(tb, r, s)
           t2 == IF p = k THEN t1 ELSE tc
           t3 == [t2 EXCEPT !.parent[s] = g, !.red[s] = tr.red[k],
                            !.child[s]["left"] = l]
           t4 == rb_set_parent(t3, l, s)
           u == Freed(t4, k)
<1>0. SpliceTwo(tr, k).tree = t4
  <2>1. SpliceTwo(tr, k).tree
          = SpliceAt(tr, k, Extreme(tr, tr.child[k]["right"], "left"))
    BY Zenon DEF SpliceTwo, SpliceAt
  <2>2. SpliceAt(tr, k, s) = t4
    BY Zenon DEF SpliceAt
  <2>3. SpliceTwo(tr, k).tree = SpliceAt(tr, k, s)
    BY <2>1, Zenon
  <2>. QED
    BY <2>2, <2>3, Zenon
<1>1. /\ s \in C /\ s # k /\ tr.child[s]["left"] = NULL /\ k < s
      /\ s # tr.root /\ p \in C /\ p # s
      /\ p # k => tr.child[p]["left"] = s
      /\ p = k => r = s
  BY SuccessorIs
<1>2. /\ tr \in Tree /\ C \subseteq Keys /\ NULL \notin C /\ C \subseteq Nat
      /\ k = tr.root <=> g = NULL
      /\ k # tr.root => g \in C /\ g # k /\ tr.child[g][Side(k, g)] = k
  BY ShapeLinks
<1>3. /\ "left" \in Sides /\ "right" \in Sides /\ "left" # "right"
      /\ \A e \in Sides : e = "left" \/ e = "right"
  BY DEF Sides
<1>4. /\ l \in C /\ tr.parent[l] = k /\ l # k
      /\ r \in C /\ tr.parent[r] = k /\ r # k /\ "left" = Side(l, k)
      /\ c # NULL => c \in C /\ tr.parent[c] = s /\ c # s
  BY <1>1, <1>3, ShapeLinks, SMTT(60)
<1>5. l # s /\ l # r /\ (p # k => r # s)
  <2>1. l < k
    BY <1>4 DEF Side
  <2>2. l # s
    BY <1>1, <1>2, <1>4, <2>1, SMTT(60)
  <2>3. l # r
    BY <1>3, <1>4, ShapeLinks, SMTT(60)
  <2>. QED
    BY <1>4, <2>2, <2>3
<1>6. c # k /\ c # l /\ c # r
  <2>1. c = NULL => c # k /\ c # l /\ c # r
    BY <1>2, <1>4
  <2>2. c # NULL => c # l /\ c # r
    BY <1>1, <1>4
  <2>3. ASSUME c # NULL, c = k PROVE FALSE
    <3>1. g = s /\ Side(k, s) = "left"
      BY <1>1, <1>4, <2>3 DEF Side
    <3>2. tr.child[s]["left"] = k
      BY <1>1, <1>2, <3>1
    <3>. QED
      BY <1>1, <1>2, <3>2
  <2>. QED
    BY <2>1, <2>2, <2>3
<1>7. g # s /\ (g # NULL => g # p)
  <2>1. ASSUME g = s PROVE FALSE
    <3>1. Side(k, s) = "left"
      BY <1>1 DEF Side
    <3>2. tr.child[s]["left"] = k
      BY <1>1, <1>2, <2>1, <3>1
    <3>. QED
      BY <1>1, <1>2, <3>2
  <2>2. ASSUME g # NULL, g = p PROVE FALSE
    <3>1. p # k /\ tr.child[g]["left"] = s
      BY <1>1, <1>2, <2>2
    <3>2. "left" = Side(s, g) /\ tr.child[g][Side(k, g)] = k
      <4>1. g \in C /\ tr.child[g]["left"] # NULL
        BY <1>1, <1>2, <2>2, <3>1
      <4>. QED
        BY <1>2, <1>3, <2>2, <3>1, <4>1, ShapeLinks, SMTT(60)
    <3>3. s < g /\ g \in Nat /\ s \in Nat /\ k \in Nat
      BY <1>1, <1>2, <2>2, <3>2 DEF Side
    <3>4. k < g
      BY <1>1, <3>3
    <3>5. Side(k, g) = "left"
      BY <3>4 DEF Side
    <3>. QED
      BY <1>1, <3>1, <3>2, <3>5
  <2>. QED
    BY <2>1, <2>2
<1>8. /\ s \in Keys /\ p \in Keys /\ k \in Keys /\ l \in Keys /\ r \in Keys
      /\ s \in Pointer /\ p \in Pointer /\ l \in Pointer /\ r \in Pointer
      /\ c \in Pointer /\ g \in Pointer
  BY <1>1, <1>2, <1>3, <1>4 DEF Tree, Pointer
<1>9. \A e \in Sides : g # NULL /\ tr.child[g][e] = k => e = Side(k, g)
  <2>1. SUFFICES ASSUME NEW e \in Sides, g # NULL, tr.child[g][e] = k
                 PROVE  e = Side(k, g)
    OBVIOUS
  <2>2. g \in C /\ tr.child[g][e] # NULL
    BY <1>2, <2>1
  <2>. QED
    BY <2>1, <2>2, ShapeLinks
<1>10. /\ t1 \in Tree /\ t1.parent = tr.parent /\ t1.red = tr.red
       /\ t1.root = IF g = NULL THEN s ELSE tr.root
       /\ \A x \in Keys, e \in Sides :
            t1.child[x][e] = IF x = g /\ tr.child[g][e] = k THEN s
                             ELSE tr.child[x][e]
  <2>1. Relinked(tr, g, k, s, t1)
    BY <1>2, <1>8, RelinkIs
  <2> HIDE DEF t1
  <2>2. /\ t1 \in Tree /\ t1.parent = tr.parent /\ t1.red = tr.red
        /\ t1.root = IF g = NULL THEN s ELSE tr.root
        /\ \A x \in Keys, e \in Sides :
             t1.child[x][e] =
               IF x = g /\ e = IF tr.child[g]["left"] = k THEN "left" ELSE "right"
               THEN s ELSE tr.child[x][e]
    BY <2>1 DEF Relinked
  <2>3. g # NULL => \A e \in Sides :
          (e = IF tr.child[g]["left"] = k THEN "left" ELSE "right")
            <=> tr.child[g][e] = k
    <3>1. Side(k, g) \in Sides
      BY DEF Side, Sides
    <3>. QED
      BY <1>2, <1>3, <1>9, <3>1
  <2>4. \A x \in Keys : x = g => g # NULL
    BY KeysNat
  <2>. QED
    BY <2>2, <2>3, <2>4
<1> HIDE DEF t1
<1>11. /\ t2 \in Tree /\ t2.red = tr.red
       /\ t2.root = IF g = NULL THEN s ELSE tr.root
       /\ \A x \in Keys, e \in Sides :
            t2.child[x][e] = IF x = g /\ tr.child[g][e] = k THEN s
                             ELSE IF p # k /\ x = p /\ e = "left" THEN c
                             ELSE IF p # k /\ x = s /\ e = "right" THEN r
                             ELSE tr.child[x][e]
       /\ \A x \in Keys :
            t2.parent[x] = IF p # k /\ x = r THEN s
                           ELSE IF p # k /\ x = c THEN p ELSE tr.parent[x]
  <2>1. CASE p = k
    <3>1. t2 = t1
      BY <2>1
    <3> HIDE DEF t2
    <3>. QED
      BY <1>10, <2>1, <3>1
  <2>2. CASE p # k
    <3>1. ParentSet(t1, c, p, ta)
      BY <1>8, <1>10, SetParentIs
    <3> HIDE DEF ta
    <3>2. /\ ta \in Tree /\ ta.root = t1.root /\ ta.child = t1.child
          /\ ta.red = t1.red
          /\ \A x \in Keys : ta.parent[x] = IF x = c THEN p ELSE t1.parent[x]
      BY <3>1 DEF ParentSet
    <3>3. TwoChildrenSet(ta, p, "left", c, s, "right", r, tb)
      BY <1>3, <1>8, <3>2, TwoChildrenSetIs
    <3> HIDE DEF tb
    <3>4. /\ tb \in Tree /\ tb.root = ta.root /\ tb.parent = ta.parent
          /\ tb.red = ta.red
          /\ \A x \in Keys, e \in Sides :
               tb.child[x][e] = IF x = s /\ e = "right" THEN r
                                ELSE IF x = p /\ e = "left" THEN c
                                ELSE ta.child[x][e]
      BY <3>3 DEF TwoChildrenSet
    <3>5. ParentSet(tb, r, s, tc)
      BY <1>8, <3>4, SetParentIs
    <3> HIDE DEF tc
    <3>6. /\ tc \in Tree /\ tc.root = tb.root /\ tc.child = tb.child
          /\ tc.red = tb.red
          /\ \A x \in Keys : tc.parent[x] = IF x = r THEN s ELSE tb.parent[x]
      BY <3>5 DEF ParentSet
    <3>7. t2 = tc
      BY <2>2
    <3> HIDE DEF t2
    <3>8. tc.red = tr.red /\ tc.root = IF g = NULL THEN s ELSE tr.root
      BY <1>10, <3>2, <3>4, <3>6
    <3>9. \A x \in Keys :
            tc.parent[x] = IF x = r THEN s
                           ELSE IF x = c THEN p ELSE tr.parent[x]
      BY <1>10, <3>2, <3>4, <3>6
    <3>10. ASSUME NEW x \in Keys, NEW e \in Sides
           PROVE  tc.child[x][e] = IF x = g /\ tr.child[g][e] = k THEN s
                                   ELSE IF x = p /\ e = "left" THEN c
                                   ELSE IF x = s /\ e = "right" THEN r
                                   ELSE tr.child[x][e]
      <4>1. x = g => x # s /\ x # p
        BY <1>7, KeysNat
      <4>2. tc.child[x][e] = IF x = s /\ e = "right" THEN r
                             ELSE IF x = p /\ e = "left" THEN c
                             ELSE t1.child[x][e]
        BY <3>2, <3>4, <3>6
      <4>3. t1.child[x][e] = IF x = g /\ tr.child[g][e] = k THEN s
                             ELSE tr.child[x][e]
        BY <1>10
      <4>. QED
        BY <1>1, <4>1, <4>2, <4>3
    <3>. QED
      BY <2>2, <3>6, <3>7, <3>8, <3>9, <3>10, SMTT(60)
  <2>. QED
    BY <2>1, <2>2
<1> HIDE DEF t2
<1>12. /\ t3 \in Tree /\ t3.root = t2.root
       /\ \A x \in Keys, e \in Sides :
            t3.child[x][e] = IF x = s /\ e = "left" THEN l ELSE t2.child[x][e]
       /\ \A x \in Keys : t3.parent[x] = IF x = s THEN g ELSE t2.parent[x]
       /\ \A x \in Keys : t3.red[x] = IF x = s THEN tr.red[k] ELSE t2.red[x]
  <2>1. tr.red[k] \in BOOLEAN
    BY <1>2, <1>8 DEF Tree
  <2>2. PlaceSet(t2, s, g, tr.red[k], "left", l, t3)
    <3>1. t2 \in Tree /\ s \in Keys /\ g \in Pointer /\ l \in Pointer
      BY <1>8, <1>11
    <3>2. ASSUME NEW b \in BOOLEAN
          PROVE  PlaceSet(t2, s, g, b, "left", l,
                   [t2 EXCEPT !.parent[s] = g, !.red[s] = b,
                              !.child[s]["left"] = l])
      BY <1>3, <3>1, PlaceSetIs
    <3>. QED
      BY <2>1, <3>2, Zenon
  <2> HIDE DEF t3
  <2>. QED
    BY <2>2 DEF PlaceSet
<1> HIDE DEF t3
<1>13. /\ t4 \in Tree /\ t4.root = t3.root /\ t4.child = t3.child
       /\ t4.red = t3.red
       /\ \A x \in Keys : t4.parent[x] = IF x = l THEN s ELSE t3.parent[x]
  <2>1. ParentSet(t3, l, s, t4)
    BY <1>8, <1>12, SetParentIs
  <2> HIDE DEF t4
  <2>. QED
    BY <2>1 DEF ParentSet
<1> HIDE DEF t4
<1>14. /\ u \in Tree /\ u.root = t4.root
       /\ \A x \in Keys, e \in Sides :
            u.child[x][e] = IF x = k THEN NULL ELSE t4.child[x][e]
       /\ \A x \in Keys : u.parent[x] = IF x = k THEN NULL ELSE t4.parent[x]
       /\ \A x \in Keys : u.red[x] = IF x = k THEN FALSE ELSE t4.red[x]
  <2>1. NodeSet(t4, k, NoChildren, NULL, FALSE, u)
    BY <1>8, <1>13, FreedIs
  <2> HIDE DEF u
  <2>. QED
    BY <2>1, NoChildrenIs DEF NodeSet
<1> HIDE DEF u
<1>15. /\ w \in Tree /\ w.root = tr.root
       /\ \A x \in Keys, e \in Sides :
            w.child[x][e] = IF x = s THEN NULL
                            ELSE IF x = p /\ tr.child[p][e] = s THEN c
                            ELSE tr.child[x][e]
       /\ \A x \in Keys : w.parent[x] = IF x = s THEN NULL
                                        ELSE IF x = c THEN p ELSE tr.parent[x]
       /\ \A x \in Keys : w.red[x] = IF x = s THEN FALSE ELSE tr.red[x]
  <2>1. p # NULL
    BY <1>1, <1>2
  <2>. QED
    BY <2>1 DEF Removed
<1>16. w.parent[k] = g /\ w.red[k] = tr.red[k]
  BY <1>1, <1>6, <1>8, <1>15
<1>17. \A e \in Sides : p # NULL /\ tr.child[p][e] = s => e = Side(s, p)
  <2>1. SUFFICES ASSUME NEW e \in Sides, tr.child[p][e] = s
                 PROVE  e = Side(s, p)
    OBVIOUS
  <2>2. p \in C /\ tr.child[p][e] # NULL
    BY <1>1, <1>2, <2>1
  <2>. QED
    BY <2>1, <2>2, ShapeLinks, SMTT(60)
<1>18. \A e \in Sides : tr.child[p][e] = s
                          <=> e = IF p = k THEN "right" ELSE "left"
  <2>1. p # NULL
    BY <1>1, <1>2
  <2>2. p = k => tr.child[p]["right"] = s
    BY <1>1
  <2>3. p # k => tr.child[p]["left"] = s
    BY <1>1
  <2>4. p = k => Side(s, p) = "right"
    BY <1>3, <1>17, <2>1, <2>2
  <2>5. p # k => Side(s, p) = "left"
    BY <1>3, <1>17, <2>1, <2>3
  <2>. QED
    BY <1>3, <1>17, <2>1, <2>2, <2>3, <2>4, <2>5
<1>19. \A e \in Sides : w.child[k][e] = IF e = "left" THEN l
                                        ELSE IF p = k THEN c ELSE r
  <2>1. ASSUME NEW e \in Sides
        PROVE  w.child[k][e] = IF e = "left" THEN l
                               ELSE IF p = k THEN c ELSE r
    <3>1. w.child[k][e] = IF k = p /\ tr.child[p][e] = s THEN c
                          ELSE tr.child[k][e]
      BY <1>1, <1>8, <1>15
    <3>. QED
      BY <1>3, <1>18, <3>1
  <2>. QED
    BY <2>1
<1>20. ASSUME NEW x \in Keys, NEW e \in Sides
       PROVE  u.child[x][e] = IF x = k THEN NULL
                              ELSE IF x = s THEN w.child[k][e]
                              ELSE IF x = g /\ w.child[g][e] = k THEN s
                              ELSE w.child[x][e]
  <2>1. CASE x = k
    BY <1>14, <2>1
  <2>2. CASE x = s
    <3>1. u.child[x][e] = IF e = "left" THEN l ELSE t2.child[s][e]
      BY <1>1, <1>8, <1>12, <1>13, <1>14, <2>2, SMTT(60)
    <3>2. t2.child[s][e] = IF p # k /\ e = "right" THEN r ELSE tr.child[s][e]
      BY <1>1, <1>7, <1>8, <1>11
    <3>. QED
      BY <1>1, <1>3, <1>19, <2>2, <3>1, <3>2
  <2>3. CASE x # k /\ x # s /\ x = g
    <3>1. x # p /\ x # NULL
      BY <1>7, <2>3, KeysNat
    <3>2. w.child[x][e] = tr.child[x][e]
      BY <1>15, <2>3, <3>1
    <3>3. u.child[x][e] = t2.child[x][e]
      BY <1>12, <1>13, <1>14, <2>3
    <3>. QED
      BY <1>11, <2>3, <3>1, <3>2, <3>3, SMTT(60)
  <2>4. CASE x # k /\ x # s /\ x # g
    <3>1. u.child[x][e] = t2.child[x][e]
      BY <1>12, <1>13, <1>14, <2>4
    <3>2. t2.child[x][e] = IF p # k /\ x = p /\ e = "left" THEN c
                           ELSE tr.child[x][e]
      BY <1>11, <2>4
    <3>3. w.child[x][e] = IF x = p /\ tr.child[p][e] = s THEN c
                          ELSE tr.child[x][e]
      BY <1>15, <2>4
    <3>. QED
      BY <1>18, <2>4, <3>1, <3>2, <3>3
  <2>. QED
    BY <2>1, <2>2, <2>3, <2>4
<1>21. ASSUME NEW x \in Keys
       PROVE  u.parent[x] = IF x = k THEN NULL ELSE IF x = s THEN g
                            ELSE IF \E e \in Sides : x = w.child[k][e] THEN s
                            ELSE w.parent[x]
  <2>1. CASE x = k
    BY <1>14, <2>1
  <2>2. CASE x = s
    BY <1>1, <1>5, <1>12, <1>13, <1>14, <2>2, SMTT(60)
  <2>3. CASE x # k /\ x # s
    <3>1. (\E e \in Sides : x = w.child[k][e])
            <=> x = l \/ x = IF p = k THEN c ELSE r
      BY <1>3, <1>19
    <3>2. u.parent[x] = IF x = l THEN s ELSE t2.parent[x]
      BY <1>12, <1>13, <1>14, <2>3
    <3>3. t2.parent[x] = IF p # k /\ x = r THEN s
                         ELSE IF p # k /\ x = c THEN p ELSE tr.parent[x]
      BY <1>11
    <3>4. w.parent[x] = IF x = c THEN p ELSE tr.parent[x]
      BY <1>15, <2>3
    <3>5. CASE p = k
      <4>1. x = c => tr.parent[x] = s
        BY <1>4, KeysNat
      <4>. QED
        BY <2>3, <3>1, <3>2, <3>3, <3>4, <3>5, <4>1
    <3>6. CASE p # k
      BY <1>6, <2>3, <3>1, <3>2, <3>3, <3>4, <3>6
    <3>. QED
      BY <3>5, <3>6
  <2>. QED
    BY <2>1, <2>2, <2>3
<1>22. \A x \in Keys : u.red[x] = IF x = k THEN FALSE
                                  ELSE IF x = s THEN w.red[k] ELSE w.red[x]
  <2>1. t4.red = t3.red /\ t2.red = tr.red
    BY <1>11, <1>13
  <2>2. \A x \in Keys : x # k => u.red[x] = t3.red[x]
    BY <1>14, <2>1, Zenon
  <2>3. \A x \in Keys : t3.red[x] = IF x = s THEN tr.red[k] ELSE tr.red[x]
    BY <1>12, <2>1, Zenon
  <2>4. \A x \in Keys : x # s => w.red[x] = tr.red[x]
    BY <1>15, Zenon
  <2>5. \A x \in Keys : x = k => u.red[x] = FALSE
    BY <1>14, Zenon
  <2>. QED
    BY <1>16, <2>2, <2>3, <2>4, <2>5, Zenon
<1>23. u \in Tree /\ u.root = IF g = NULL THEN s ELSE w.root
  BY <1>11, <1>12, <1>13, <1>14, <1>15, SMTT(60)
<1>24. Renamed(w, k, s, u)
  <2>1. w.parent[k] = g
    BY <1>16
  <2>2. \A x \in Keys, e \in Sides :
          u.child[x][e] = IF x = k THEN NULL
                          ELSE IF x = s THEN w.child[k][e]
                          ELSE IF x = w.parent[k]
                                  /\ w.child[w.parent[k]][e] = k THEN s
                          ELSE w.child[x][e]
    BY <1>20, <2>1
  <2>3. \A x \in Keys :
          u.parent[x] = IF x = k THEN NULL ELSE IF x = s THEN w.parent[k]
                        ELSE IF \E e \in Sides : x = w.child[k][e] THEN s
                        ELSE w.parent[x]
    BY <1>21, <2>1
  <2>4. u \in Tree /\ u.root = IF w.parent[k] = NULL THEN s ELSE w.root
    BY <1>23, <2>1
  <2>. QED
    BY <1>22, <2>2, <2>3, <2>4, Zenon DEF Renamed
<1>. QED
  BY <1>0, <1>24 DEF u

(* rb_replace_node puts new in the place of v.                             *)
LEMMA ReplaceIs ==
  ASSUME NEW tr, NEW C, NEW lo, NEW hi, NEW M, TreeShape(tr, C, lo, hi, M),
         NEW v \in C, NEW new \in Keys, new \notin C
  PROVE  LET t1 == Relink(tr, tr.parent[v], v, new)
             t2 == rb_set_parent(t1, tr.child[v]["left"], new)
             t3 == rb_set_parent(t2, tr.child[v]["right"], new)
         IN Renamed(tr, v, new,
              Freed([t3 EXCEPT !.child[new] = tr.child[v],
                               !.parent[new] = tr.parent[v],
                               !.red[new] = tr.red[v]], v))
<1> DEFINE l == tr.child[v]["left"]
           r == tr.child[v]["right"]
           q == tr.parent[v]
           t1 == Relink(tr, q, v, new)
           t2 == rb_set_parent(t1, l, new)
           t3 == rb_set_parent(t2, r, new)
           t4 == [t3 EXCEPT !.child[new] = tr.child[v], !.parent[new] = q,
                            !.red[new] = tr.red[v]]
           u == Freed(t4, v)
<1>1. /\ tr \in Tree /\ C \subseteq Keys /\ NULL \notin C
      /\ v = tr.root <=> q = NULL
      /\ v # tr.root => q \in C /\ q # v /\ tr.child[q][Side(v, q)] = v
  BY ShapeLinks
<1>2. /\ "left" \in Sides /\ "right" \in Sides
      /\ \A e \in Sides : e = "left" \/ e = "right"
  BY DEF Sides
<1>3. (l # NULL => l \in C) /\ (r # NULL => r \in C)
  BY <1>2, ShapeLinks
<1>4. /\ v \in Keys /\ new \in Pointer /\ l \in Pointer /\ r \in Pointer
      /\ q \in Pointer /\ tr.child[v] \in [Sides -> Pointer]
      /\ tr.red[v] \in BOOLEAN
  BY <1>1, <1>2 DEF Tree, Pointer
<1>5. \A e \in Sides : q # NULL /\ tr.child[q][e] = v => e = Side(v, q)
  <2>1. SUFFICES ASSUME NEW e \in Sides, q # NULL, tr.child[q][e] = v
                 PROVE  e = Side(v, q)
    OBVIOUS
  <2>2. q \in C /\ tr.child[q][e] # NULL
    BY <1>1, <2>1
  <2>. QED
    BY <2>1, <2>2, ShapeLinks
<1>6. /\ t1 \in Tree /\ t1.parent = tr.parent /\ t1.red = tr.red
      /\ t1.root = IF q = NULL THEN new ELSE tr.root
      /\ \A x \in Keys, e \in Sides :
           t1.child[x][e] = IF x = q /\ tr.child[q][e] = v THEN new
                            ELSE tr.child[x][e]
  <2>1. Relinked(tr, q, v, new, t1)
    BY <1>1, <1>4, RelinkIs
  <2> HIDE DEF t1
  <2>2. /\ t1 \in Tree /\ t1.parent = tr.parent /\ t1.red = tr.red
        /\ t1.root = IF q = NULL THEN new ELSE tr.root
        /\ \A x \in Keys, e \in Sides :
             t1.child[x][e] =
               IF x = q /\ e = IF tr.child[q]["left"] = v THEN "left" ELSE "right"
               THEN new ELSE tr.child[x][e]
    BY <2>1 DEF Relinked
  <2>3. q # NULL => \A e \in Sides :
          (e = IF tr.child[q]["left"] = v THEN "left" ELSE "right")
            <=> tr.child[q][e] = v
    <3>1. Side(v, q) \in Sides
      BY DEF Side, Sides
    <3>. QED
      BY <1>1, <1>2, <1>5, <3>1
  <2>4. \A x \in Keys : x = q => q # NULL
    BY KeysNat
  <2>. QED
    BY <2>2, <2>3, <2>4
<1> HIDE DEF t1
<1>7. /\ t2 \in Tree /\ t2.root = t1.root /\ t2.child = t1.child
      /\ t2.red = t1.red
      /\ \A x \in Keys : t2.parent[x] = IF x = l THEN new ELSE t1.parent[x]
  <2>1. ParentSet(t1, l, new, t2)
    BY <1>4, <1>6, SetParentIs
  <2> HIDE DEF t2
  <2>. QED
    BY <2>1 DEF ParentSet
<1> HIDE DEF t2
<1>8. /\ t3 \in Tree /\ t3.root = t2.root /\ t3.child = t2.child
      /\ t3.red = t2.red
      /\ \A x \in Keys : t3.parent[x] = IF x = r THEN new ELSE t2.parent[x]
  <2>1. ParentSet(t2, r, new, t3)
    BY <1>4, <1>7, SetParentIs
  <2> HIDE DEF t3
  <2>. QED
    BY <2>1 DEF ParentSet
<1> HIDE DEF t3
<1>9. NodeSet(t3, new, tr.child[v], q, tr.red[v], t4)
  <2>1. \A z \in Tree, f \in [Sides -> Pointer], p \in Pointer, b \in BOOLEAN :
          NodeSet(z, new, f, p, b,
            [z EXCEPT !.child[new] = f, !.parent[new] = p, !.red[new] = b])
    BY NodeSetIs
  <2>2. t3 \in Tree /\ q \in Pointer
    BY <1>4, <1>8
  <2>. QED
    BY <1>4, <2>1, <2>2, ZenonT(60)
<1> HIDE DEF t4
<1>10. /\ t4 \in Tree /\ t4.root = t3.root
       /\ \A x \in Keys, e \in Sides :
            t4.child[x][e] = IF x = new THEN tr.child[v][e] ELSE t3.child[x][e]
       /\ \A x \in Keys : t4.parent[x] = IF x = new THEN q ELSE t3.parent[x]
       /\ \A x \in Keys : t4.red[x] = IF x = new THEN tr.red[v] ELSE t3.red[x]
  BY <1>9 DEF NodeSet
<1>11. /\ u \in Tree /\ u.root = t4.root
       /\ \A x \in Keys, e \in Sides :
            u.child[x][e] = IF x = v THEN NULL ELSE t4.child[x][e]
       /\ \A x \in Keys : u.parent[x] = IF x = v THEN NULL ELSE t4.parent[x]
       /\ \A x \in Keys : u.red[x] = IF x = v THEN FALSE ELSE t4.red[x]
  <2>1. NodeSet(t4, v, NoChildren, NULL, FALSE, u)
    BY <1>4, <1>10, FreedIs
  <2> HIDE DEF u
  <2>. QED
    BY <2>1, NoChildrenIs DEF NodeSet
<1> HIDE DEF u
<1>12. ASSUME NEW x \in Keys, NEW e \in Sides
       PROVE  u.child[x][e] = IF x = v THEN NULL
                              ELSE IF x = new THEN tr.child[v][e]
                              ELSE IF x = q /\ tr.child[q][e] = v THEN new
                              ELSE tr.child[x][e]
  BY <1>6, <1>7, <1>8, <1>10, <1>11
<1>13. ASSUME NEW x \in Keys
       PROVE  u.parent[x] = IF x = v THEN NULL ELSE IF x = new THEN q
                            ELSE IF \E e \in Sides : x = tr.child[v][e] THEN new
                            ELSE tr.parent[x]
  <2>1. (\E e \in Sides : x = tr.child[v][e]) <=> x = l \/ x = r
    BY <1>2
  <2>2. t3.parent[x] = IF x = l \/ x = r THEN new ELSE tr.parent[x]
    BY <1>6, <1>7, <1>8
  <2>. QED
    BY <1>10, <1>11, <2>1, <2>2
<1>14. \A x \in Keys : u.red[x] = IF x = v THEN FALSE
                                  ELSE IF x = new THEN tr.red[v] ELSE tr.red[x]
  <2>1. t3.red = tr.red
    BY <1>6, <1>7, <1>8
  <2>. QED
    BY <1>10, <1>11, <2>1, Zenon
<1>15. u \in Tree /\ u.root = IF q = NULL THEN new ELSE tr.root
  BY <1>6, <1>7, <1>8, <1>10, <1>11
<1>16. Renamed(tr, v, new, u)
  BY <1>12, <1>13, <1>14, <1>15, Zenon DEF Renamed
<1>. QED
  BY <1>16, Zenon DEF u, t4, t3, t2, t1

-----------------------------------------------------------------------------
(* The balance.  h[n] is the number of black nodes on every way from n     *)
(* down to a missing child.  While a node is short of one the link to it,  *)
(* on side d of p, counts for one more.                                    *)

Unit(b) == IF b THEN 1 ELSE 0
Weight(red, p, d) ==
  [x \in Keys |-> [e \in Sides |-> Unit(~red[x]) + Unit(x = p /\ e = d)]]
Heights(ch, S, h, wt) ==
  /\ h \in [Pointer -> Nat] /\ h[NULL] = 0
  /\ \A x \in S, e \in Sides : h[x] = h[ch[x][e]] + wt[x][e]

(* The red nodes that are the root or have a red parent are in X.          *)
Pairs(tr, C, X) ==
  \A m \in C : tr.red[m] /\ (m = tr.root \/ tr.red[tr.parent[m]]) => m \in X

(* The tree is balanced; while rb_insert_color repairs it, it is but for a *)
(* red node n, and while __rb_erase_color does, what is below p on side d, *)
(* which is n, is short of a black node.                                   *)
Steady(tr, C, h) ==
  Heights(tr.child, C, h, Weight(tr.red, NULL, "left")) /\ Pairs(tr, C, {})
Inserting(tr, C, h, n) ==
  /\ n \in C /\ tr.red[n]
  /\ Heights(tr.child, C, h, Weight(tr.red, NULL, "left"))
  /\ Pairs(tr, C, {n})
Erasing(tr, C, h, n, p, d) ==
  /\ n \in C \cup {NULL} /\ p \in C \cup {NULL} /\ d \in Sides
  /\ p = NULL => n = tr.root
  /\ p # NULL => tr.child[p][d] = n
  /\ Heights(tr.child, C, h, Weight(tr.red, p, d))
  /\ Pairs(tr, C, {m \in C : m = n \/ (m # tr.root /\ tr.parent[m] = n)})

(* Weights are numbers.                                                    *)
LEMMA WeightIs ==
  ASSUME NEW red, NEW p, NEW d
  PROVE  /\ Weight(red, p, d) \in [Keys -> [Sides -> Nat]]
         /\ \A x \in Keys, e \in Sides :
              Weight(red, p, d)[x][e] = Unit(~red[x]) + Unit(x = p /\ e = d)
<1>1. \A b : Unit(b) \in Nat
  BY DEF Unit
<1>2. \A x, e : Unit(~red[x]) + Unit(x = p /\ e = d) \in Nat
  BY <1>1
<1> HIDE DEF Unit
<1>. QED
  BY <1>2 DEF Weight

(* Heights depend on links, weights and heights, node for node.            *)
LEMMA HeightsSame ==
  ASSUME NEW ch, NEW C \in SUBSET Keys, NEW h, NEW wt, Heights(ch, C, h, wt),
         NEW ch2, NEW wt2, NEW D \in SUBSET C,
         \A x \in D, e \in Sides : ch2[x][e] = ch[x][e] /\ wt2[x][e] = wt[x][e]
  PROVE  Heights(ch2, D, h, wt2)
BY DEF Heights

(* The links around a node that is rotated.                                *)
RotateAround(tr, C, n, d, u) ==
  LET o == Opposite(d)
      c == tr.child[n][o]
      y == tr.child[c][d]
      g == tr.parent[n]
  IN /\ o \in Sides /\ o # d /\ c \in C /\ n # c /\ y # n /\ y # c
     /\ g # n /\ g # c
     /\ \A e \in Sides : tr.child[n][e] # n /\ tr.child[c][e] # c
     /\ tr.child[c][o] # n /\ tr.child[n][d] # c /\ tr.child[c][d] # n
     /\ \A x \in C, e \in Sides : tr.child[x][e] = c => x = n
     /\ \A x \in C, e \in Sides : tr.child[x][e] = n => x = g
     /\ \A x \in Keys, e \in Sides :
          u.child[x][e] = IF x = n /\ e = o THEN y
                          ELSE IF x = c /\ e = d THEN n
                          ELSE IF x = g /\ tr.child[g][e] = n THEN c
                          ELSE tr.child[x][e]

(* They are those of three generations of different nodes.                 *)
LEMMA RotateLinks ==
  ASSUME NEW tr, NEW C, NEW lo, NEW hi, NEW M, TreeShape(tr, C, lo, hi, M),
         NEW n \in C, NEW d \in Sides, tr.child[n][Opposite(d)] # NULL,
         NEW u, Rotated(tr, n, d, u)
  PROVE  RotateAround(tr, C, n, d, u)
<1> DEFINE ch == tr.child
           o == Opposite(d)
           c == tr.child[n][o]
           y == tr.child[c][d]
           g == tr.parent[n]
<1>1. /\ NULL \notin C /\ Shape(tr.root, ch, tr.parent, C, lo, hi, M)
  BY ShapeLinks DEF TreeShape
<1>2. /\ o \in Sides /\ o # d /\ c \in C /\ n # c /\ y # n /\ y # c
      /\ g # n /\ g # c /\ tr.parent[c] = n
  BY <1>1, RotateNodes
<1>9. \A x \in Keys, e \in Sides :
        u.child[x][e] = IF x = n /\ e = o THEN y
                        ELSE IF x = c /\ e = d THEN n
                        ELSE IF x = g /\ ch[g][e] = n THEN c
                        ELSE ch[x][e]
  BY Zenon DEF Rotated
<1>a. c # NULL
  OBVIOUS
<1> HIDE DEF o, c, y, g
<1>3. \A x \in C, e \in Sides : ch[x][e] # NULL =>
        tr.parent[ch[x][e]] = x /\ ch[x][e] # x /\ e = Side(ch[x][e], x)
  BY ShapeLinks
<1>4. \A x \in C, e \in Sides : ch[x][e] = c => x = n
  BY <1>1, <1>2, <1>3
<1>5. \A x \in C, e \in Sides : ch[x][e] = n => x = g
  BY <1>1, <1>3 DEF g
<1>6. \A e \in Sides : ch[n][e] # n /\ ch[c][e] # c
  BY <1>1, <1>2, <1>3
<1>7. ch[c][o] # n /\ ch[c][d] # n
  BY <1>2, <1>5
<1>8. ch[n][d] # c
  BY <1>2, <1>3, <1>a DEF c
<1>. QED
  BY <1>2, <1>4, <1>5, <1>6, <1>7, <1>8, <1>9, Zenon
     DEF RotateAround, o, c, y, g

(* A rotation keeps the heights when those of the two nodes agree with     *)
(* what is below them then.                                                *)
LEMMA RotateHeights ==
  ASSUME NEW tr, NEW C, NEW lo, NEW hi, NEW M, TreeShape(tr, C, lo, hi, M),
         NEW n \in C, NEW d \in Sides, NEW o, NEW c, NEW u,
         o = Opposite(d), c = tr.child[n][o], c # NULL,
         Rotated(tr, n, d, u),
         NEW h, NEW wt, Heights(tr.child, C \ {n, c}, h, wt), NEW a \in Nat,
         a = h[tr.child[n][d]] + wt[n][d],
         a = h[tr.child[c][d]] + wt[n][o],
         h[n] = a + wt[c][d],
         h[n] = h[tr.child[c][o]] + wt[c][o]
  PROVE  Heights(u.child, C, [h EXCEPT ![c] = h[n], ![n] = a], wt)
<1> DEFINE y == tr.child[c][d]
           g == tr.parent[n]
           h2 == [h EXCEPT ![c] = h[n], ![n] = a]
           ch == tr.child
<1>1. /\ tr \in Tree /\ C \subseteq Keys /\ NULL \notin C
  BY ShapeLinks DEF TreeShape
<1>a. RotateAround(tr, C, n, d, u)
  BY RotateLinks
<1>2. /\ o \in Sides /\ o # d /\ c \in C /\ n # c /\ y # n /\ y # c
      /\ g # n /\ g # c
  BY <1>a DEF RotateAround
<1>3. \A x \in Keys, e \in Sides :
        u.child[x][e] = IF x = n /\ e = o THEN y
                        ELSE IF x = c /\ e = d THEN n
                        ELSE IF x = g /\ ch[g][e] = n THEN c
                        ELSE ch[x][e]
  BY <1>a DEF RotateAround
<1>4. /\ h \in [Pointer -> Nat] /\ h[NULL] = 0
      /\ \A x \in C \ {n, c}, e \in Sides : h[x] = h[ch[x][e]] + wt[x][e]
  BY DEF Heights
<1>5. \A x \in C : x \in Pointer /\ h[x] \in Nat
  BY <1>1, <1>4 DEF Pointer
<1>6. /\ h2 \in [Pointer -> Nat]
      /\ h2[c] = h[n] /\ h2[n] = a
      /\ \A x \in Pointer : x # n /\ x # c => h2[x] = h[x]
  BY <1>2, <1>4, <1>5
<1>7. h2[NULL] = 0
  BY <1>1, <1>2, <1>4, <1>6 DEF Pointer
<1>8. \A x \in Keys, e \in Sides : ch[x][e] \in Pointer
  BY <1>1 DEF Tree
<1>9. /\ \A e \in Sides : ch[n][e] # n /\ ch[c][e] # c
      /\ ch[c][o] # n /\ ch[n][d] # c /\ ch[c][d] # n
      /\ \A x \in C, e \in Sides : ch[x][e] = c => x = n
      /\ \A x \in C, e \in Sides : ch[x][e] = n => x = g
  BY <1>a DEF RotateAround
<1> HIDE DEF h2
<1>10. ASSUME NEW x \in C, NEW e \in Sides
       PROVE  h2[x] = h2[u.child[x][e]] + wt[x][e]
  <2>0. x \in Keys /\ e \in {d, o}
    BY <1>1, <1>2 DEF Opposite, Sides
  <2>1. CASE x = n /\ e = d
    <3>1. u.child[x][e] = ch[n][d] /\ ch[n][d] \in Pointer
      BY <1>2, <1>3, <1>8, <2>0, <2>1
    <3>2. h2[ch[n][d]] = h[ch[n][d]]
      BY <1>6, <1>9, <3>1
    <3>. QED
      BY <1>6, <2>1, <3>1, <3>2
  <2>2. CASE x = n /\ e = o
    <3>1. u.child[x][e] = y /\ y \in Pointer
      BY <1>1, <1>2, <1>3, <1>8, <2>0, <2>2
    <3>2. h2[y] = h[y]
      BY <1>2, <1>6, <3>1
    <3>. QED
      BY <1>6, <2>2, <3>1, <3>2
  <2>3. CASE x = c /\ e = d
    <3>1. u.child[x][e] = n
      BY <1>2, <1>3, <2>0, <2>3
    <3>. QED
      BY <1>6, <2>3, <3>1
  <2>4. CASE x = c /\ e = o
    <3>1. u.child[x][e] = ch[c][o] /\ ch[c][o] \in Pointer
      BY <1>2, <1>3, <1>8, <2>0, <2>4
    <3>2. h2[ch[c][o]] = h[ch[c][o]]
      BY <1>2, <1>6, <1>9, <3>1
    <3>. QED
      BY <1>6, <2>4, <3>1, <3>2
  <2>5. CASE x # n /\ x # c
    <3>1. h[x] = h[ch[x][e]] + wt[x][e] /\ h2[x] = h[x]
      BY <1>4, <1>5, <1>6, <2>5
    <3>2. ch[x][e] # c
      BY <1>9, <2>5
    <3>3. CASE ch[x][e] = n
      <4>1. x = g /\ u.child[x][e] = c
        BY <1>3, <1>9, <2>0, <2>5, <3>3
      <4>. QED
        BY <1>6, <3>1, <3>3, <4>1
    <3>4. CASE ch[x][e] # n
      <4>0. ~(x = g /\ ch[g][e] = n)
        BY <3>4
      <4>1. u.child[x][e] = ch[x][e] /\ ch[x][e] \in Pointer
        BY <1>3, <1>8, <2>0, <2>5, <4>0
      <4>2. h2[ch[x][e]] = h[ch[x][e]]
        BY <1>6, <3>2, <3>4, <4>1
      <4>. QED
        BY <3>1, <4>1, <4>2
    <3>. QED
      BY <3>3, <3>4
  <2>. QED
    BY <2>0, <2>1, <2>2, <2>3, <2>4, <2>5
<1>11. Heights(u.child, C, h2, wt)
  BY <1>6, <1>7, <1>10 DEF Heights
<1>. QED
  BY <1>11 DEF h2

(* What a rotation does to red nodes with a red parent.                    *)
LEMMA RotatePairs ==
  ASSUME NEW tr, NEW C, NEW lo, NEW hi, NEW M, TreeShape(tr, C, lo, hi, M),
         NEW n \in C, NEW d \in Sides, NEW c, NEW y, NEW g, NEW u, NEW X,
         c = tr.child[n][Opposite(d)], c # NULL, y = tr.child[c][d],
         g = tr.parent[n], Rotated(tr, n, d, u),
         \A x \in C \ {n, c, y} :
           tr.red[x] /\ (x = tr.root \/ tr.red[tr.parent[x]]) => x \in X,
         tr.red[n] /\ tr.red[c] => n \in X,
         tr.red[c] /\ (g = NULL \/ tr.red[g]) => c \in X,
         y # NULL /\ tr.red[y] /\ tr.red[n] => y \in X
  PROVE  Pairs(u, C, X)
<1>1. /\ tr \in Tree /\ C \subseteq Keys /\ NULL \notin C
      /\ Shape(tr.root, tr.child, tr.parent, C, lo, hi, M)
  BY ShapeLinks DEF TreeShape
<1>2. /\ c \in C /\ n # c /\ y # n /\ y # c
      /\ g # n /\ g # c /\ (g = NULL => n = tr.root) /\ (g # NULL => n # tr.root)
      /\ y # NULL => y \in C
  BY <1>1, RotateNodes
<1>3. /\ u.red = tr.red /\ u.root = IF g = NULL THEN c ELSE tr.root
      /\ \A x \in Keys :
           u.parent[x] = IF x = n THEN c ELSE IF x = c THEN g
                         ELSE IF x = y THEN n ELSE tr.parent[x]
  BY DEF Rotated
<1>4. c # tr.root /\ (y # NULL => y # tr.root)
  <2>1. Opposite(d) \in Sides
    BY DEF Opposite, Sides
  <2>. QED
    BY <1>1, <1>2, <2>1, ShapeLinks, SMTT(60)
<1>5. ASSUME NEW m \in C, u.red[m], m = u.root \/ u.red[u.parent[m]]
      PROVE  m \in X
  <2>1. m \in Keys /\ m # NULL /\ tr.red[m]
    BY <1>1, <1>3, <1>5
  <2>2. CASE m = n
    <3>1. u.root # n /\ u.parent[m] = c
      BY <1>2, <1>3, <2>1, <2>2
    <3>. QED
      BY <1>3, <1>5, <2>1, <2>2, <3>1
  <2>3. CASE m = c
    <3>1. u.parent[m] = g /\ (m = u.root => g = NULL)
      BY <1>2, <1>3, <1>4, <2>1, <2>3
    <3>. QED
      BY <1>3, <1>5, <2>1, <2>3, <3>1
  <2>4. CASE m = y /\ m # n /\ m # c
    <3>1. u.parent[m] = n /\ m # u.root
      BY <1>2, <1>3, <1>4, <2>1, <2>4
    <3>. QED
      BY <1>3, <1>5, <2>1, <2>4, <3>1
  <2>5. CASE m \in C \ {n, c, y}
    <3>1. u.parent[m] = tr.parent[m] /\ (m = u.root => m = tr.root)
      BY <1>3, <2>1, <2>5
    <3>. QED
      BY <1>3, <1>5, <2>1, <2>5, <3>1
  <2>. QED
    BY <2>2, <2>3, <2>4, <2>5
<1>. QED
  BY <1>5 DEF Pairs

Level(ch, C, h, red, p, d) ==
  /\ h \in [Pointer -> Nat] /\ h[NULL] = 0
  /\ \A x \in C, e \in Sides :
       h[x] = h[ch[x][e]] + (IF red[x] THEN 0 ELSE 1)
                          + (IF x = p /\ e = d THEN 1 ELSE 0)
Even(ch, C, h, red) ==
  /\ h \in [Pointer -> Nat] /\ h[NULL] = 0
  /\ \A x \in C, e \in Sides :
       h[x] = h[ch[x][e]] + (IF red[x] THEN 0 ELSE 1)

(* Heights, with the weights spelt out.                                    *)
LEMMA HeightsIs ==
  ASSUME NEW ch \in [Keys -> [Sides -> Pointer]], NEW C \in SUBSET Keys,
         NEW h, NEW red, NEW p, NEW d
  PROVE  Heights(ch, C, h, Weight(red, p, d)) <=> Level(ch, C, h, red, p, d)
<1> DEFINE wt == Weight(red, p, d)
<1>1. \A x \in Keys, e \in Sides :
        wt[x][e] = Unit(~red[x]) + Unit(x = p /\ e = d)
  BY WeightIs
<1>2. \A x \in Keys, e \in Sides :
        wt[x][e] = (IF red[x] THEN 0 ELSE 1) + (IF x = p /\ e = d THEN 1 ELSE 0)
  BY <1>1 DEF Unit
<1> HIDE DEF wt
<1>3. SUFFICES ASSUME h \in [Pointer -> Nat]
               PROVE  (\A x \in C, e \in Sides : h[x] = h[ch[x][e]] + wt[x][e])
                      <=> (\A x \in C, e \in Sides :
                             h[x] = h[ch[x][e]] + (IF red[x] THEN 0 ELSE 1)
                                    + (IF x = p /\ e = d THEN 1 ELSE 0))
  BY DEF Heights, Level, wt
<1>4. ASSUME NEW x \in C, NEW e \in Sides
      PROVE  h[ch[x][e]] + wt[x][e]
               = h[ch[x][e]] + (IF red[x] THEN 0 ELSE 1)
                             + (IF x = p /\ e = d THEN 1 ELSE 0)
  <2>1. x \in Keys
    OBVIOUS
  <2>2. ch[x][e] \in Pointer
    BY <2>1
  <2>3. h[ch[x][e]] \in Nat
    BY <1>3, <2>2
  <2>. QED
    BY <1>2, <2>1, <2>3
<1>. QED
  BY <1>4

(* The same when no node is short.                                         *)
LEMMA HeightsNone ==
  ASSUME NEW ch \in [Keys -> [Sides -> Pointer]], NEW C \in SUBSET Keys,
         NEW h, NEW red
  PROVE  Heights(ch, C, h, Weight(red, NULL, "left")) <=> Even(ch, C, h, red)
<1>0. Heights(ch, C, h, Weight(red, NULL, "left"))
        <=> Level(ch, C, h, red, NULL, "left")
  BY HeightsIs
<1>1. SUFFICES ASSUME h \in [Pointer -> Nat]
      PROVE  (\A x \in C, e \in Sides :
                h[x] = h[ch[x][e]] + (IF red[x] THEN 0 ELSE 1)
                                   + (IF x = NULL /\ e = "left" THEN 1 ELSE 0))
             <=> (\A x \in C, e \in Sides :
                    h[x] = h[ch[x][e]] + (IF red[x] THEN 0 ELSE 1))
  BY <1>0 DEF Level, Even
<1>2. ASSUME NEW x \in C, NEW e \in Sides
      PROVE  h[ch[x][e]] + (IF red[x] THEN 0 ELSE 1)
               + (IF x = NULL /\ e = "left" THEN 1 ELSE 0)
             = h[ch[x][e]] + (IF red[x] THEN 0 ELSE 1)
  <2>1. x \in Keys /\ x # NULL
    BY KeysNat
  <2>2. ch[x][e] \in Pointer
    BY <2>1
  <2>3. h[ch[x][e]] \in Nat
    BY <1>1, <2>2
  <2>. QED
    BY <2>1, <2>3
<1>. QED
  BY <1>2

(* The side that SideOf finds is the one the key belongs to.               *)
LEMMA SideOfIs ==
  ASSUME NEW tr, NEW C, NEW lo, NEW hi, NEW M, TreeShape(tr, C, lo, hi, M),
         NEW n \in C, n # tr.root
  PROVE  /\ SideOf(tr, n) \in Sides
         /\ tr.child[tr.parent[n]][SideOf(tr, n)] = n
         /\ tr.child[tr.parent[n]][Opposite(SideOf(tr, n))] # n
<1> DEFINE p == tr.parent[n]
<1>1. p \in C /\ tr.child[p][Side(n, p)] = n /\ n # NULL
  BY ShapeLinks
<1>2. \A e \in Sides : tr.child[p][e] = n => e = Side(n, p)
  BY <1>1, ShapeLinks
<1>3. /\ "left" \in Sides /\ "right" \in Sides /\ "left" # "right"
      /\ Side(n, p) \in {"left", "right"}
  BY DEF Sides, Side
<1>. QED
  BY <1>1, <1>2, <1>3 DEF SideOf, Opposite

(* A node that is linked in the right place is the only trouble.           *)
LEMMA LinkedInserting ==
  ASSUME NEW tr, NEW C, NEW lo, NEW hi, NEW M, TreeShape(tr, C, lo, hi, M),
         NEW h, Steady(tr, C, h),
         NEW k \in Keys, k \notin C, NEW p, NEW d \in Sides, NEW u,
         Linked(tr, k, p, d, u),
         \/ p = NULL /\ tr.root = NULL
         \/ p \in C /\ tr.child[p][d] = NULL
  PROVE  Inserting(u, C \cup {k}, [h EXCEPT ![k] = 0], k)
<1> DEFINE ch == tr.child
           h2 == [h EXCEPT ![k] = 0]
           D == C \cup {k}
<1>1. /\ tr \in Tree /\ C \in SUBSET Keys /\ NULL \notin C /\ k # NULL
      /\ (C # {} => tr.root # NULL) /\ D \in SUBSET Keys
      /\ \A x \in C : x # tr.root => tr.parent[x] \in C
      /\ \A x \in C, e \in Sides : ch[x][e] # NULL => ch[x][e] \in C
  BY KeysNat, ShapeLinks
<1>2. /\ u \in Tree
      /\ u.root = IF p = NULL THEN k ELSE tr.root
      /\ \A x \in Keys, e \in Sides :
           u.child[x][e] = IF x = k THEN NULL ELSE IF x = p /\ e = d THEN k
                           ELSE ch[x][e]
      /\ \A x \in Keys : u.parent[x] = IF x = k THEN p ELSE tr.parent[x]
      /\ \A x \in Keys : u.red[x] = IF x = k THEN TRUE ELSE tr.red[x]
  BY DEF Linked
<1>3. /\ h \in [Pointer -> Nat] /\ h[NULL] = 0
      /\ \A x \in C, e \in Sides :
           h[x] = h[ch[x][e]] + (IF tr.red[x] THEN 0 ELSE 1)
  <2>1. Heights(ch, C, h, Weight(tr.red, NULL, "left"))
    BY DEF Steady
  <2>2. Even(ch, C, h, tr.red)
    BY <1>1, <2>1, HeightsNone DEF Tree
  <2>. QED
    BY <2>2 DEF Even
<1>4. /\ h2 \in [Pointer -> Nat] /\ h2[k] = 0 /\ h2[NULL] = 0
      /\ \A x \in Pointer : x # k => h2[x] = h[x]
  BY <1>1, <1>3 DEF Pointer
<1> HIDE DEF h2
<1>5. ASSUME NEW x \in D, NEW e \in Sides
      PROVE  h2[x] = h2[u.child[x][e]] + (IF u.red[x] THEN 0 ELSE 1)
  <2>1. CASE x = k
    <3>1. u.child[x][e] = NULL /\ u.red[x]
      BY <1>2, <2>1
    <3>. QED
      BY <1>4, <2>1, <3>1
  <2>2. CASE x # k
    <3>1. x \in C /\ x \in Keys /\ x \in Pointer
      BY <1>1, <2>2 DEF Pointer
    <3>2. u.red[x] = tr.red[x] /\ h2[x] = h[x]
      BY <1>2, <1>4, <2>2, <3>1
    <3>3. h2[u.child[x][e]] = h[ch[x][e]]
      <4>1. CASE x = p /\ e = d
        <5>1. u.child[x][e] = k
          BY <1>2, <2>2, <3>1, <4>1
        <5>2. ch[x][e] = NULL
          BY <1>1, <3>1, <4>1
        <5>. QED
          BY <1>3, <1>4, <5>1, <5>2
      <4>2. CASE ~(x = p /\ e = d)
        <5>1. u.child[x][e] = ch[x][e]
          BY <1>2, <2>2, <3>1, <4>2
        <5>2. ch[x][e] \in Pointer /\ ch[x][e] # k
          BY <1>1, <3>1 DEF Pointer
        <5>. QED
          BY <1>4, <5>1, <5>2
      <4>. QED
        BY <4>1, <4>2
    <3>. QED
      BY <1>3, <3>1, <3>2, <3>3
  <2>. QED
    BY <2>1, <2>2
<1>6. Heights(u.child, D, h2, Weight(u.red, NULL, "left"))
  <2>1. u.child \in [Keys -> [Sides -> Pointer]]
    BY <1>2 DEF Tree
  <2>2. Even(u.child, D, h2, u.red)
    BY <1>4, <1>5 DEF Even
  <2>. QED
    BY <1>1, <2>1, <2>2, HeightsNone
<1>7. ASSUME NEW m \in D, u.red[m], m = u.root \/ u.red[u.parent[m]], m # k
      PROVE  FALSE
  <2>1. m \in C /\ m \in Keys /\ C # {}
    BY <1>1, <1>7
  <2>2. p # NULL /\ u.root = tr.root
    BY <1>1, <1>2, <2>1
  <2>3. tr.red[m] /\ u.parent[m] = tr.parent[m]
    BY <1>2, <1>7, <2>1
  <2>4. m # tr.root /\ ~tr.red[tr.parent[m]]
    BY <2>1, <2>3 DEF Steady, Pairs
  <2>5. tr.parent[m] \in C /\ tr.parent[m] \in Keys /\ tr.parent[m] # k
    BY <1>1, <2>1, <2>4
  <2>6. ~u.red[tr.parent[m]]
    BY <1>2, <2>4, <2>5
  <2>. QED
    BY <1>7, <2>2, <2>3, <2>4, <2>6
<1>8. Pairs(u, D, {k})
  BY <1>7 DEF Pairs
<1>9. k \in D /\ u.red[k]
  BY <1>2
<1>. QED
  BY <1>6, <1>8, <1>9 DEF Inserting, h2

(* What rb_insert_color finds when its loop goes on.                       *)
LEMMA InsertNodes ==
  ASSUME NEW tr, NEW C, NEW lo, NEW hi, NEW M, TreeShape(tr, C, lo, hi, M),
         NEW h, NEW n, Inserting(tr, C, h, n),
         NEW p, NEW g, p = tr.parent[n], g = tr.parent[p],
         p # NULL, tr.red[p]
  PROVE  /\ n \in C /\ p \in C /\ g \in C /\ n # p /\ g # n /\ g # p
         /\ tr.red[n] /\ ~tr.red[g] /\ n # tr.root /\ p # tr.root
         /\ \A m \in C : m # n /\ tr.red[m] =>
              m # tr.root /\ ~tr.red[tr.parent[m]]
<1>1. n \in C /\ tr.red[n] /\ Pairs(tr, C, {n})
  BY DEF Inserting
<1>2. /\ \A m \in C : tr.parent[m] = NULL <=> m = tr.root
      /\ \A m \in C : m # tr.root => tr.parent[m] \in C /\ tr.parent[m] # m
  BY ShapeLinks
<1>3. n # tr.root /\ p \in C /\ n # p
  BY <1>1, <1>2
<1>4. \A m \in C : m # n /\ tr.red[m] => m # tr.root /\ ~tr.red[tr.parent[m]]
  BY <1>1 DEF Pairs
<1>5. p # tr.root /\ ~tr.red[g]
  BY <1>3, <1>4
<1>6. g \in C /\ g # p
  BY <1>2, <1>3, <1>5
<1>. QED
  BY <1>1, <1>3, <1>4, <1>5, <1>6


(* Links of a node, each with the parent it leads back to.                 *)
LEMMA ChildLinks ==
  ASSUME NEW tr, NEW C, NEW lo, NEW hi, NEW M, TreeShape(tr, C, lo, hi, M)
  PROVE  /\ tr \in Tree /\ C \in SUBSET Keys /\ NULL \notin C
         /\ tr.child \in [Keys -> [Sides -> Pointer]]
         /\ \A x \in C : x \in Keys /\ x \in Pointer /\ x # NULL
         /\ \A x \in C, e \in Sides : tr.child[x][e] \in Pointer
         /\ \A x \in C, e \in Sides : tr.child[x][e] # NULL =>
              /\ tr.child[x][e] \in C /\ tr.parent[tr.child[x][e]] = x
              /\ tr.child[x][e] # x /\ tr.child[x][e] # tr.root
         /\ \A x \in C, e, f \in Sides :
              tr.child[x][e] # NULL /\ tr.child[x][e] = tr.child[x][f] => e = f
         /\ \A x \in C : x # tr.root =>
              /\ tr.parent[x] \in C /\ tr.parent[x] # x
              /\ \E e \in Sides : tr.child[tr.parent[x]][e] = x
         /\ \A x \in C : tr.parent[x] = NULL <=> x = tr.root
<1>1. \A x, y : Side(x, y) \in Sides
  BY DEF Side, Sides
<1>2. tr \in Tree /\ C \in SUBSET Keys /\ NULL \notin C
  BY ShapeLinks
<1>3. /\ \A x \in C : x \in Keys /\ x \in Pointer /\ x # NULL
      /\ tr.child \in [Keys -> [Sides -> Pointer]]
  BY <1>2 DEF Pointer, Tree
<1>4. \A x \in C, e \in Sides : tr.child[x][e] \in Pointer
  BY <1>3
<1>5. \A x \in C, e \in Sides : tr.child[x][e] # NULL =>
        /\ tr.child[x][e] \in C /\ tr.parent[tr.child[x][e]] = x
        /\ tr.child[x][e] # x /\ tr.child[x][e] # tr.root
        /\ e = Side(tr.child[x][e], x)
  BY ShapeLinks
<1>6. \A x \in C : x # tr.root =>
        /\ tr.parent[x] \in C /\ tr.parent[x] # x
        /\ tr.child[tr.parent[x]][Side(x, tr.parent[x])] = x
  BY ShapeLinks
<1>7. \A x \in C : tr.parent[x] = NULL <=> x = tr.root
  BY ShapeLinks
<1>8. \A x \in C, e, f \in Sides :
        tr.child[x][e] # NULL /\ tr.child[x][e] = tr.child[x][f] => e = f
  BY <1>5
<1>9. \A x \in C : x # tr.root =>
        /\ tr.parent[x] \in C /\ tr.parent[x] # x
        /\ \E e \in Sides : tr.child[tr.parent[x]][e] = x
  BY <1>1, <1>6
<1>. QED
  BY <1>2, <1>3, <1>4, <1>5, <1>7, <1>8, <1>9

(* There are two sides.                                                    *)
LEMMA TwoSides ==
  ASSUME NEW d \in Sides
  PROVE  /\ Opposite(d) \in Sides /\ Opposite(d) # d
         /\ Opposite(Opposite(d)) = d
         /\ \A e \in Sides : e = d \/ e = Opposite(d)
BY DEF Opposite, Sides

RedUncle(tr, C, h, n, p, g, w, d, u) ==
  /\ Inserting(tr, C, h, n)
  /\ p = tr.parent[n] /\ g = tr.parent[p] /\ p # NULL /\ tr.red[p]
  /\ tr.child[g][d] = p /\ w = tr.child[g][Opposite(d)]
  /\ w # NULL /\ tr.red[w]
  /\ Recoloured(tr, {g}, {w, p}, u)

(* With a red uncle the trouble goes up two levels.                        *)
LEMMA InsertRecolourKeeps ==
  ASSUME NEW tr, NEW C, NEW lo, NEW hi, NEW M, TreeShape(tr, C, lo, hi, M),
         NEW h, NEW n, NEW p, NEW g, NEW w, NEW d \in Sides, NEW u
  PROVE  RedUncle(tr, C, h, n, p, g, w, d, u)
         => \E h2 : Inserting(u, C, h2, g)
<1> DEFINE ch == tr.child
           o == Opposite(d)
           h2 == [x \in Pointer |-> IF x = p \/ x = w THEN h[x] + 1 ELSE h[x]]
<1>a. SUFFICES ASSUME Inserting(tr, C, h, n), p = tr.parent[n],
                      g = tr.parent[p], p # NULL, tr.red[p]
               PROVE  /\ tr.child[g][d] = p /\ w = tr.child[g][Opposite(d)]
                      /\ w # NULL /\ tr.red[w]
                      /\ Recoloured(tr, {g}, {w, p}, u)
                      => \E z : Inserting(u, C, z, g)
  BY DEF RedUncle
<1>b. SUFFICES ASSUME ch[g][d] = p, w = ch[g][o], w # NULL, tr.red[w]
               PROVE  Recoloured(tr, {g}, {w, p}, u)
                      => \E z : Inserting(u, C, z, g)
  OBVIOUS
<1>c. SUFFICES ASSUME Recoloured(tr, {g}, {w, p}, u)
               PROVE  \E z : Inserting(u, C, z, g)
  OBVIOUS
<1>1. /\ n \in C /\ p \in C /\ g \in C /\ n # p /\ g # n /\ g # p
      /\ tr.red[n] /\ ~tr.red[g] /\ n # tr.root /\ p # tr.root
  BY <1>a, InsertNodes
<1>d. \A m \in C : m # n /\ tr.red[m] => m # tr.root /\ ~tr.red[tr.parent[m]]
  BY <1>a, InsertNodes
<1>2. o \in Sides /\ o # d /\ \A e \in Sides : e = d \/ e = o
  BY TwoSides
<1> HIDE DEF o
<1>3. \A x \in C, e \in Sides : ch[x][e] # NULL =>
        ch[x][e] \in C /\ tr.parent[ch[x][e]] = x /\ ch[x][e] # x
  BY ChildLinks
<1>4. w \in C /\ tr.parent[w] = g /\ w # g
  BY <1>1, <1>2, <1>3, <1>b
<1>5. w # p
  BY <1>1, <1>2, <1>b, ChildLinks
<1>6. \A x \in C, e \in Sides : ch[x][e] = p \/ ch[x][e] = w => x = g
  BY <1>3, <1>4, <1>a, <1>b, SMTT(60)
<1>7. /\ u \in Tree /\ u.root = tr.root /\ u.child = tr.child
      /\ u.parent = tr.parent
      /\ \A m \in Keys : u.red[m] <=> m \in {g} \/ (tr.red[m] /\ m \notin {w, p})
  BY <1>c DEF Recoloured
<1>e. /\ \A x \in C : x \in Keys /\ x \in Pointer /\ x # NULL
      /\ \A x \in C, e \in Sides : ch[x][e] \in Pointer
      /\ C \in SUBSET Keys /\ ch \in [Keys -> [Sides -> Pointer]]
  BY ChildLinks
<1>8. /\ \A m \in C : m # g /\ m # w /\ m # p => (u.red[m] <=> tr.red[m])
      /\ u.red[g] /\ ~u.red[w] /\ ~u.red[p]
  <2>1. \A m \in C : m # g /\ m # w /\ m # p => (u.red[m] <=> tr.red[m])
    BY <1>7, <1>e
  <2>2. g \in Keys /\ w \in Keys /\ p \in Keys
    BY <1>1, <1>4, <1>e
  <2>3. u.red[g]
    BY <1>7, <2>2
  <2>4. ~u.red[w]
    BY <1>4, <1>7, <2>2
  <2>5. ~u.red[p]
    BY <1>1, <1>7, <2>2
  <2>. QED
    BY <2>1, <2>3, <2>4, <2>5
<1>9. /\ h \in [Pointer -> Nat] /\ h[NULL] = 0
      /\ \A x \in C, e \in Sides :
           h[x] = h[ch[x][e]] + (IF tr.red[x] THEN 0 ELSE 1)
  <2>1. Heights(ch, C, h, Weight(tr.red, NULL, "left"))
    BY <1>a DEF Inserting
  <2>2. Even(ch, C, h, tr.red)
    BY <1>e, <2>1, HeightsNone
  <2>. QED
    BY <2>2 DEF Even
<1>f. p \in Pointer /\ w \in Pointer /\ g \in Pointer /\ p # NULL /\ w # NULL
  BY <1>1, <1>4, <1>e
<1>10. /\ h2 \in [Pointer -> Nat] /\ h2[NULL] = 0
       /\ \A x \in Pointer : x # p /\ x # w => h2[x] = h[x]
       /\ h2[p] = h[p] + 1 /\ h2[w] = h[w] + 1
  <2>1. NULL \in Pointer
    BY DEF Pointer
  <2>. QED
    BY <1>9, <1>f, <2>1
<1>12. \A x \in Pointer : h[x] \in Nat
  BY <1>9
<1> HIDE DEF h2
<1>13. ASSUME NEW x \in C, NEW e \in Sides
       PROVE  h2[x] = h2[ch[x][e]] + (IF u.red[x] THEN 0 ELSE 1)
  <2>a. ch[x][e] \in Pointer /\ x \in Pointer /\ h[ch[x][e]] \in Nat
    BY <1>12, <1>e
  <2>b. h[x] = h[ch[x][e]] + (IF tr.red[x] THEN 0 ELSE 1)
    BY <1>9
  <2>1. CASE x = g
    <3>1. ch[x][e] = p \/ ch[x][e] = w
      BY <1>2, <1>b, <2>1
    <3>2. h2[ch[x][e]] = h[ch[x][e]] + 1
      BY <1>10, <3>1
    <3>3. h2[x] = h[x]
      BY <1>1, <1>4, <1>10, <2>1, <2>a
    <3>4. h[x] = h[ch[x][e]] + 1
      BY <1>1, <2>1, <2>b
    <3>5. u.red[x]
      BY <1>8, <2>1
    <3>. QED
      BY <2>a, <3>2, <3>3, <3>4, <3>5
  <2>2. CASE x = p \/ x = w
    <3>1. x # g /\ tr.red[x] /\ ~u.red[x]
      BY <1>1, <1>4, <1>8, <1>a, <1>b, <2>2
    <3>2. ch[x][e] # p /\ ch[x][e] # w
      BY <1>6, <3>1
    <3>3. h2[ch[x][e]] = h[ch[x][e]] /\ h2[x] = h[x] + 1
      BY <1>10, <2>2, <2>a, <3>2
    <3>4. h[x] = h[ch[x][e]] + 0
      BY <2>b, <3>1
    <3>. QED
      BY <2>a, <3>1, <3>3, <3>4
  <2>3. CASE x # g /\ x # w /\ x # p
    <3>1. u.red[x] <=> tr.red[x]
      BY <1>8, <2>3
    <3>2. ch[x][e] # p /\ ch[x][e] # w
      BY <1>6, <2>3
    <3>3. h2[ch[x][e]] = h[ch[x][e]] /\ h2[x] = h[x]
      BY <1>10, <2>3, <2>a, <3>2
    <3>. QED
      BY <2>b, <3>1, <3>3
  <2>. QED
    BY <2>1, <2>2, <2>3
<1>14. Heights(u.child, C, h2, Weight(u.red, NULL, "left"))
  <2>1. u.child = ch
    BY <1>7
  <2>2. Even(ch, C, h2, u.red)
    BY <1>10, <1>13 DEF Even
  <2>3. Heights(ch, C, h2, Weight(u.red, NULL, "left"))
    BY <1>e, <2>2, HeightsNone
  <2>. QED
    BY <2>1, <2>3
<1>15. ASSUME NEW m \in C, u.red[m], m = u.root \/ u.red[u.parent[m]], m # g
       PROVE  FALSE
  <2>1. m # w /\ m # p /\ tr.red[m]
    BY <1>8, <1>15
  <2>2. m # tr.root
    BY <1>1, <1>d, <2>1
  <2>3. tr.parent[m] \in C /\ u.red[tr.parent[m]]
    BY <1>7, <1>15, <2>2, ChildLinks
  <2>4. tr.parent[m] # g
    <3>1. SUFFICES ASSUME tr.parent[m] = g PROVE FALSE
      OBVIOUS
    <3>2. \E e \in Sides : ch[g][e] = m
      BY <2>2, <3>1, ChildLinks
    <3>. QED
      BY <1>2, <1>b, <2>1, <3>2
  <2>5. tr.red[tr.parent[m]] /\ tr.parent[m] # p
    BY <1>8, <2>3, <2>4
  <2>6. m = n
    BY <1>d, <2>1, <2>5
  <2>. QED
    BY <1>a, <2>5, <2>6
<1>16. Pairs(u, C, {g})
  BY <1>15 DEF Pairs
<1>17. Inserting(u, C, h2, g)
  BY <1>1, <1>8, <1>14, <1>16 DEF Inserting
<1>. QED
  BY <1>17

(* Weights depend on the colours, node for node.                           *)
LEMMA WeightSame ==
  ASSUME NEW red, NEW red2, NEW p, NEW d, NEW D \in SUBSET Keys,
         \A x \in D : red[x] <=> red2[x]
  PROVE  \A x \in D, e \in Sides :
           Weight(red2, p, d)[x][e] = Weight(red, p, d)[x][e]
<1>1. \A x \in D : Unit(~red2[x]) = Unit(~red[x])
  BY DEF Unit
<1>2. \A x \in D, e \in Sides :
        /\ Weight(red2, p, d)[x][e] = Unit(~red2[x]) + Unit(x = p /\ e = d)
        /\ Weight(red, p, d)[x][e] = Unit(~red[x]) + Unit(x = p /\ e = d)
  BY WeightIs
<1>. QED
  BY <1>1, <1>2

(* The weight of a link, as a number.                                      *)
LEMMA WeightOf ==
  ASSUME NEW red, NEW p, NEW d, NEW x \in Keys, NEW e \in Sides
  PROVE  /\ Weight(red, p, d)[x][e] \in Nat
         /\ ~(x = p /\ e = d) =>
              Weight(red, p, d)[x][e] = IF red[x] THEN 0 ELSE 1
         /\ x = p /\ e = d =>
              Weight(red, p, d)[x][e] = IF red[x] THEN 1 ELSE 2
<1>1. Weight(red, p, d)[x][e] = Unit(~red[x]) + Unit(x = p /\ e = d)
  BY WeightIs
<1>. QED
  BY <1>1 DEF Unit

(* A weight elsewhere, when no node is short.                              *)
LEMMA WeightNone ==
  ASSUME NEW red, NEW x \in Keys, NEW e \in Sides
  PROVE  Weight(red, NULL, "left")[x][e] = IF red[x] THEN 0 ELSE 1
<1>1. ~(x = NULL /\ e = "left")
  BY KeysNat
<1>. QED
  BY <1>1, WeightOf

LinkHeight(tr, h, p, d, x, e) ==
  /\ h[x] \in Nat /\ h[tr.child[x][e]] \in Nat
  /\ ~(x = p /\ e = d) =>
       h[x] = h[tr.child[x][e]] + (IF tr.red[x] THEN 0 ELSE 1)
  /\ x = p /\ e = d =>
       h[x] = h[tr.child[x][e]] + (IF tr.red[x] THEN 1 ELSE 2)

(* The height of a node, from that of a child.                             *)
LEMMA HeightOf ==
  ASSUME NEW tr, NEW C, NEW lo, NEW hi, NEW M, TreeShape(tr, C, lo, hi, M),
         NEW h, NEW p, NEW d,
         Heights(tr.child, C, h, Weight(tr.red, p, d)),
         NEW x \in C, NEW e \in Sides
  PROVE  LinkHeight(tr, h, p, d, x, e)
<1>1. x \in Keys /\ x \in Pointer /\ tr.child[x][e] \in Pointer
  BY ChildLinks
<1>2. /\ h \in [Pointer -> Nat]
      /\ h[x] = h[tr.child[x][e]] + Weight(tr.red, p, d)[x][e]
  BY DEF Heights
<1>3. h[x] \in Nat /\ h[tr.child[x][e]] \in Nat
  BY <1>1, <1>2
<1>4. /\ ~(x = p /\ e = d) =>
           Weight(tr.red, p, d)[x][e] = IF tr.red[x] THEN 0 ELSE 1
      /\ x = p /\ e = d =>
           Weight(tr.red, p, d)[x][e] = IF tr.red[x] THEN 1 ELSE 2
  BY <1>1, WeightOf
<1>. QED
  BY <1>2, <1>3, <1>4 DEF LinkHeight

(* The same when no node is short.                                         *)
LEMMA HeightNone ==
  ASSUME NEW tr, NEW C, NEW lo, NEW hi, NEW M, TreeShape(tr, C, lo, hi, M),
         NEW h, Heights(tr.child, C, h, Weight(tr.red, NULL, "left")),
         NEW x \in C, NEW e \in Sides
  PROVE  /\ h[x] \in Nat /\ h[tr.child[x][e]] \in Nat
         /\ h[x] = h[tr.child[x][e]] + (IF tr.red[x] THEN 0 ELSE 1)
<1>1. x \in Keys /\ x \in Pointer /\ tr.child[x][e] \in Pointer
  BY ChildLinks
<1>2. /\ h \in [Pointer -> Nat]
      /\ h[x] = h[tr.child[x][e]] + Weight(tr.red, NULL, "left")[x][e]
  BY DEF Heights
<1>3. Weight(tr.red, NULL, "left")[x][e] = IF tr.red[x] THEN 0 ELSE 1
  BY <1>1, WeightNone
<1>. QED
  BY <1>1, <1>2, <1>3

(* Heights outside two nodes, when only their colours change.              *)
LEMMA HeightsBut ==
  ASSUME NEW tr, NEW C, NEW lo, NEW hi, NEW M, TreeShape(tr, C, lo, hi, M),
         NEW h, NEW p, NEW d, NEW n, NEW c, NEW v,
         Heights(tr.child, C, h, Weight(tr.red, p, d)),
         v.child = tr.child,
         \A x \in C : x # n /\ x # c => (v.red[x] <=> tr.red[x])
  PROVE  Heights(v.child, C \ {n, c}, h, Weight(v.red, p, d))
<1> DEFINE D == C \ {n, c}
<1>1. D \in SUBSET Keys /\ D \in SUBSET C /\ C \in SUBSET Keys
  BY ChildLinks
<1>2. \A x \in D : tr.red[x] <=> v.red[x]
  OBVIOUS
<1> HIDE DEF D
<1>3. \A x \in D, e \in Sides :
        Weight(v.red, p, d)[x][e] = Weight(tr.red, p, d)[x][e]
  BY <1>1, <1>2, WeightSame
<1>4. Heights(v.child, D, h, Weight(v.red, p, d))
  BY <1>1, <1>3, HeightsSame
<1>. QED
  BY <1>4 DEF D

(* The heights, and the colours, around a rotation that may be done.       *)
TurnFits(tr, n, d, c, h, wt, a) ==
  LET o == Opposite(d)
  IN /\ a \in Nat
     /\ a = h[tr.child[n][d]] + wt[n][d] /\ a = h[tr.child[c][d]] + wt[n][o]
     /\ h[n] = a + wt[c][d] /\ h[n] = h[tr.child[c][o]] + wt[c][o]
ColoursFit(tr, C, n, d, c, X) ==
  LET y == tr.child[c][d]
      g == tr.parent[n]
  IN /\ \A x \in C \ {n, c, y} :
          tr.red[x] /\ (x = tr.root \/ tr.red[tr.parent[x]]) => x \in X
     /\ tr.red[n] /\ tr.red[c] => n \in X
     /\ tr.red[c] /\ (g = NULL \/ tr.red[g]) => c \in X
     /\ y # NULL /\ tr.red[y] /\ tr.red[n] => y \in X

(* The heights after it.                                                   *)
LEMMA TurnHeights ==
  ASSUME NEW tr, NEW C, NEW lo, NEW hi, NEW M, TreeShape(tr, C, lo, hi, M),
         NEW n \in C, NEW d \in Sides, NEW c, NEW u, NEW h, NEW wt, NEW a,
         c = tr.child[n][Opposite(d)], c # NULL, Rotated(tr, n, d, u),
         Heights(tr.child, C \ {n, c}, h, wt),
         TurnFits(tr, n, d, c, h, wt, a)
  PROVE  Heights(u.child, C, [h EXCEPT ![c] = h[n], ![n] = a], wt)
<1> DEFINE o == Opposite(d)
<1>1. /\ a \in Nat
      /\ a = h[tr.child[n][d]] + wt[n][d] /\ a = h[tr.child[c][d]] + wt[n][o]
      /\ h[n] = a + wt[c][d] /\ h[n] = h[tr.child[c][o]] + wt[c][o]
  BY DEF TurnFits
<1>. QED
  BY <1>1, RotateHeights

(* And the red nodes with a red parent.                                    *)
LEMMA TurnPairs ==
  ASSUME NEW tr, NEW C, NEW lo, NEW hi, NEW M, TreeShape(tr, C, lo, hi, M),
         NEW n \in C, NEW d \in Sides, NEW c, NEW u, NEW X,
         c = tr.child[n][Opposite(d)], c # NULL, Rotated(tr, n, d, u),
         ColoursFit(tr, C, n, d, c, X)
  PROVE  Pairs(u, C, X)
<1> DEFINE y == tr.child[c][d]
           g == tr.parent[n]
<1>1. /\ \A x \in C \ {n, c, y} :
           tr.red[x] /\ (x = tr.root \/ tr.red[tr.parent[x]]) => x \in X
      /\ tr.red[n] /\ tr.red[c] => n \in X
      /\ tr.red[c] /\ (g = NULL \/ tr.red[g]) => c \in X
      /\ y # NULL /\ tr.red[y] /\ tr.red[n] => y \in X
  BY DEF ColoursFit
<1>2. y = tr.child[c][d] /\ g = tr.parent[n]
  OBVIOUS
<1> HIDE DEF y, g
<1>. QED
  BY <1>1, <1>2, RotatePairs

(* What it leaves: p is the node now, below n, which took its place.       *)
InnerDone(tr, C, h, n, p, g, d, u) ==
  /\ \E h2 : Inserting(u, C, h2, p)
  /\ u.red = tr.red /\ u.parent[p] = n /\ u.parent[n] = g
  /\ u.child[g][d] = n /\ u.child[n][d] = p
  /\ u.child[g][Opposite(d)] = tr.child[g][Opposite(d)]

(* The rotation that turns an inner grandchild into an outer one.          *)
LEMMA InnerKeeps ==
  ASSUME NEW tr, NEW C, NEW lo, NEW hi, NEW M, TreeShape(tr, C, lo, hi, M),
         NEW h, NEW n, NEW p, NEW g, NEW d \in Sides, NEW u
  PROVE  /\ Inserting(tr, C, h, n)
         /\ p = tr.parent[n] /\ g = tr.parent[p] /\ p # NULL /\ tr.red[p]
         /\ tr.child[g][d] = p /\ tr.child[p][Opposite(d)] = n
         /\ Rotated(tr, p, d, u)
         => InnerDone(tr, C, h, n, p, g, d, u)
<1> DEFINE ch == tr.child
           o == Opposite(d)
           y == tr.child[n][d]
           wt == Weight(tr.red, NULL, "left")
<1>a. SUFFICES ASSUME Inserting(tr, C, h, n), p = tr.parent[n],
                      g = tr.parent[p], p # NULL, tr.red[p]
               PROVE  /\ ch[g][d] = p /\ ch[p][o] = n /\ Rotated(tr, p, d, u)
                      => InnerDone(tr, C, h, n, p, g, d, u)
  OBVIOUS
<1>b. SUFFICES ASSUME ch[g][d] = p, ch[p][o] = n, Rotated(tr, p, d, u)
               PROVE  InnerDone(tr, C, h, n, p, g, d, u)
  OBVIOUS
<1>1. /\ n \in C /\ p \in C /\ g \in C /\ n # p /\ g # n /\ g # p
      /\ tr.red[n] /\ ~tr.red[g] /\ n # tr.root /\ p # tr.root
  BY <1>a, InsertNodes
<1>2. \A m \in C : m # n /\ tr.red[m] => m # tr.root /\ ~tr.red[tr.parent[m]]
  BY <1>a, InsertNodes
<1>3. o \in Sides /\ o # d /\ \A e \in Sides : e = d \/ e = o
  BY TwoSides
<1>4. n # NULL /\ g # NULL /\ C \in SUBSET Keys
  BY <1>1, ChildLinks
<1>5. Heights(ch, C, h, wt)
  BY <1>a DEF Inserting
<1> HIDE DEF o
<1>6. h[p] \in Nat /\ h[p] = h[ch[p][d]] /\ h[p] = h[n]
  <2>1. ASSUME NEW e \in Sides
        PROVE  /\ h[p] \in Nat /\ h[ch[p][e]] \in Nat
               /\ h[p] = h[ch[p][e]] + (IF tr.red[p] THEN 0 ELSE 1)
    BY <1>1, <1>5, HeightNone
  <2>2. ASSUME NEW e \in Sides PROVE h[p] \in Nat /\ h[p] = h[ch[p][e]]
    BY <1>a, <2>1
  <2>. QED
    BY <1>3, <1>b, <2>2
<1>7. h[n] = h[ch[n][d]] /\ h[n] = h[ch[n][o]]
  <2>1. ASSUME NEW e \in Sides
        PROVE  /\ h[n] \in Nat /\ h[ch[n][e]] \in Nat
               /\ h[n] = h[ch[n][e]] + (IF tr.red[n] THEN 0 ELSE 1)
    BY <1>1, <1>5, HeightNone
  <2>2. ASSUME NEW e \in Sides PROVE h[n] = h[ch[n][e]]
    BY <1>1, <2>1
  <2>. QED
    BY <1>3, <2>2
<1>8. wt[p][d] = 0 /\ wt[p][o] = 0 /\ wt[n][d] = 0 /\ wt[n][o] = 0
  <2>1. \A x \in C, e \in Sides : wt[x][e] = IF tr.red[x] THEN 0 ELSE 1
    BY <1>4, WeightNone
  <2> HIDE DEF wt
  <2>. QED
    BY <1>1, <1>3, <1>a, <2>1
<1>9. Heights(ch, C \ {p, n}, h, wt)
  BY <1>5 DEF Heights
<1> HIDE DEF wt
<1>10. Heights(u.child, C, [h EXCEPT ![n] = h[p], ![p] = h[p]], wt)
  <2>1. /\ h[p] = h[ch[p][d]] + wt[p][d] /\ h[p] = h[ch[n][d]] + wt[p][o]
        /\ h[p] = h[p] + wt[n][d] /\ h[p] = h[ch[n][o]] + wt[n][o]
    BY <1>6, <1>7, <1>8
  <2>. QED
    BY <1>1, <1>4, <1>6, <1>9, <1>b, <2>1, RotateHeights DEF o
<1>11. Pairs(u, C, {p})
  <2>1. \A x \in C : x \notin {p, n, y} =>
          ~(tr.red[x] /\ (x = tr.root \/ tr.red[tr.parent[x]]))
    BY <1>2
  <2>2. y # NULL => y \in C /\ tr.parent[y] = n /\ y # n
    BY <1>1, ChildLinks
  <2>3. ~(y # NULL /\ tr.red[y])
    BY <1>1, <1>2, <2>2
  <2>. QED
    BY <1>1, <1>4, <1>a, <1>b, <2>1, <2>3, RotatePairs DEF o
<1>12. RotateAround(tr, C, p, d, u)
  BY <1>1, <1>4, <1>b, RotateLinks DEF o
<1>13. /\ u.red = tr.red
       /\ \A x \in Keys :
            u.parent[x] = IF x = p THEN n ELSE IF x = n THEN g
                          ELSE IF x = y THEN p ELSE tr.parent[x]
  BY <1>a, <1>b DEF Rotated, o
<1>14. \A x \in Keys, e \in Sides :
          u.child[x][e] = IF x = p /\ e = o THEN y
                          ELSE IF x = n /\ e = d THEN p
                          ELSE IF x = g /\ ch[g][e] = p THEN n
                          ELSE ch[x][e]
  BY <1>12, <1>a, <1>b DEF RotateAround, o
<1>15. n \in Keys /\ p \in Keys /\ g \in Keys
  BY <1>1, <1>4
<1>16. u.parent[p] = n /\ u.parent[n] = g
  BY <1>1, <1>13, <1>15
<1>17. u.child[g][d] = n /\ u.child[n][d] = p
  BY <1>1, <1>3, <1>14, <1>15, <1>b
<1>18. ch[g][o] # p
  BY <1>1, <1>3, <1>b, ChildLinks
<1>19. u.child[g][o] = ch[g][o]
  BY <1>1, <1>3, <1>14, <1>15, <1>18
<1>20. \E h2 : Inserting(u, C, h2, p)
  BY <1>1, <1>10, <1>11, <1>13, <1>a DEF Inserting, wt
<1>. QED
  BY <1>13, <1>16, <1>17, <1>19, <1>20 DEF InnerDone, o

(* The rotation at the grandparent, which ends the loop.                   *)
LEMMA OuterKeeps ==
  ASSUME NEW tr, NEW C, NEW lo, NEW hi, NEW M, TreeShape(tr, C, lo, hi, M),
         NEW h, NEW n, NEW p, NEW g, NEW d \in Sides, NEW v, NEW u
  PROVE  /\ Inserting(tr, C, h, n)
         /\ p = tr.parent[n] /\ g = tr.parent[p] /\ p # NULL /\ tr.red[p]
         /\ tr.child[g][d] = p /\ tr.child[p][d] = n
         /\ IsBlack(tr, tr.child[g][Opposite(d)])
         /\ Recoloured(tr, {g}, {p}, v)
         /\ Rotated(v, g, Opposite(d), u)
         => \E h2 : Inserting(u, C, h2, n)
<1> DEFINE ch == tr.child
           o == Opposite(d)
           w == tr.child[g][o]
           y == tr.child[p][o]
           wv == Weight(v.red, NULL, "left")
<1>a. SUFFICES ASSUME Inserting(tr, C, h, n), p = tr.parent[n],
                      g = tr.parent[p], p # NULL, tr.red[p]
               PROVE  /\ ch[g][d] = p /\ ch[p][d] = n /\ IsBlack(tr, w)
                      /\ Recoloured(tr, {g}, {p}, v) /\ Rotated(v, g, o, u)
                      => \E h2 : Inserting(u, C, h2, n)
  OBVIOUS
<1>b. SUFFICES ASSUME ch[g][d] = p, ch[p][d] = n, IsBlack(tr, w)
               PROVE  /\ Recoloured(tr, {g}, {p}, v) /\ Rotated(v, g, o, u)
                      => \E h2 : Inserting(u, C, h2, n)
  OBVIOUS
<1>c. SUFFICES ASSUME Recoloured(tr, {g}, {p}, v), Rotated(v, g, o, u)
               PROVE  \E h2 : Inserting(u, C, h2, n)
  OBVIOUS
<1>1. /\ n \in C /\ p \in C /\ g \in C /\ n # p /\ g # n /\ g # p
      /\ tr.red[n] /\ ~tr.red[g] /\ n # tr.root /\ p # tr.root
  BY <1>a, InsertNodes
<1>2. \A m \in C : m # n /\ tr.red[m] => m # tr.root /\ ~tr.red[tr.parent[m]]
  BY <1>a, InsertNodes
<1>3. /\ o \in Sides /\ o # d /\ Opposite(o) = d
      /\ \A e \in Sides : e = d \/ e = o
  BY TwoSides
<1> HIDE DEF o
<1>4. C \in SUBSET Keys
  BY ChildLinks
<1>5. /\ v \in Tree /\ v.root = tr.root /\ v.child = tr.child
      /\ v.parent = tr.parent
      /\ \A m \in Keys : v.red[m] <=> m \in {g} \/ (tr.red[m] /\ m \notin {p})
  BY <1>c DEF Recoloured
<1>6. TreeShape(v, C, lo, hi, M)
  BY <1>5, SameLinks
<1>7. /\ \A m \in C : m # g /\ m # p => (v.red[m] <=> tr.red[m])
      /\ v.red[g] /\ ~v.red[p]
  <2>1. \A m \in C : m # g /\ m # p => (v.red[m] <=> tr.red[m])
    BY <1>4, <1>5
  <2>2. v.red[g] /\ ~v.red[p]
    BY <1>1, <1>4, <1>5
  <2>. QED
    BY <2>1, <2>2
<1>8. Heights(ch, C, h, Weight(tr.red, NULL, "left"))
  BY <1>a DEF Inserting
<1>9. h[g] \in Nat /\ h[p] \in Nat /\ h[g] = h[p] + 1 /\ h[g] = h[w] + 1
      /\ h[w] \in Nat
  <2>1. ASSUME NEW e \in Sides
        PROVE  /\ h[g] \in Nat /\ h[ch[g][e]] \in Nat
               /\ h[g] = h[ch[g][e]] + (IF tr.red[g] THEN 0 ELSE 1)
    BY <1>1, <1>8, HeightNone
  <2>2. ASSUME NEW e \in Sides
        PROVE  h[ch[g][e]] \in Nat /\ h[g] \in Nat /\ h[g] = h[ch[g][e]] + 1
    BY <1>1, <2>1
  <2>. QED
    BY <1>3, <1>b, <2>2
<1>10. h[p] = h[n] /\ h[p] = h[y]
  <2>1. ASSUME NEW e \in Sides
        PROVE  /\ h[p] \in Nat /\ h[ch[p][e]] \in Nat
               /\ h[p] = h[ch[p][e]] + (IF tr.red[p] THEN 0 ELSE 1)
    BY <1>1, <1>8, HeightNone
  <2>2. ASSUME NEW e \in Sides PROVE h[p] = h[ch[p][e]]
    BY <1>a, <2>1
  <2>. QED
    BY <1>3, <1>b, <2>2
<1>11. wv[g][d] = 0 /\ wv[g][o] = 0 /\ wv[p][d] = 1 /\ wv[p][o] = 1
  <2>1. \A x \in C, e \in Sides : wv[x][e] = IF v.red[x] THEN 0 ELSE 1
    BY <1>4, WeightNone
  <2> HIDE DEF wv
  <2>. QED
    BY <1>1, <1>3, <1>7, <2>1
<1>12. Heights(v.child, C \ {g, p}, h, wv)
  BY <1>5, <1>7, <1>8, HeightsBut
<1> HIDE DEF wv
<1>13. Heights(u.child, C, [h EXCEPT ![p] = h[g], ![g] = h[w]], wv)
  <2>1. /\ h[w] = h[w] + wv[g][o] /\ h[w] = h[y] + wv[g][d]
        /\ h[g] = h[w] + wv[p][o] /\ h[g] = h[n] + wv[p][d]
    BY <1>9, <1>10, <1>11
  <2>2. /\ d = Opposite(o) /\ v.child[g][o] = w
        /\ v.child[p][o] = y /\ v.child[p][d] = n
    BY <1>3, <1>5, <1>b
  <2> HIDE DEF w, y
  <2>3. TurnFits(v, g, o, p, h, wv, h[w])
    BY <1>9, <2>1, <2>2 DEF TurnFits
  <2>4. p = v.child[g][Opposite(o)]
    BY <1>3, <1>5, <1>b
  <2>. QED
    BY <1>1, <1>3, <1>6, <1>12, <1>a, <1>c, <2>3, <2>4, TurnHeights
<1>14. Pairs(u, C, {n})
  <2>1. ASSUME NEW x \in C, x # g, x # p, v.red[x],
               x = v.root \/ v.red[v.parent[x]]
        PROVE  x \in {n}
    <3>1. SUFFICES ASSUME x # n PROVE FALSE
      OBVIOUS
    <3>2. tr.red[x]
      BY <1>7, <2>1
    <3>3. x # tr.root /\ ~tr.red[tr.parent[x]]
      BY <1>2, <3>1, <3>2
    <3>4. /\ tr.parent[x] \in C /\ v.red[tr.parent[x]]
          /\ \E e \in Sides : ch[tr.parent[x]][e] = x
      BY <1>5, <2>1, <3>3, ChildLinks
    <3>5. tr.parent[x] = g
      BY <1>7, <3>3, <3>4
    <3>6. x = w
      BY <1>3, <1>b, <2>1, <3>4, <3>5
    <3>7. x # NULL
      BY ChildLinks
    <3>. QED
      BY <1>b, <3>2, <3>6, <3>7 DEF IsBlack
  <2>2. y # NULL /\ tr.red[y] => y = n
    <3>1. y # NULL => y \in C /\ tr.parent[y] = p
      BY <1>1, <1>3, ChildLinks
    <3>. QED
      BY <1>2, <1>a, <3>1
  <2>3. y # NULL => y \in C /\ y # p /\ tr.parent[y] = p
    BY <1>1, <1>3, ChildLinks
  <2>4. y # g
    <3>1. RotateAround(v, C, g, o, u)
      BY <1>1, <1>3, <1>5, <1>6, <1>a, <1>b, <1>c, RotateLinks
    <3>. QED
      BY <1>3, <1>5, <1>b, <3>1 DEF RotateAround
  <2>5. y # NULL /\ v.red[y] => y \in {n}
    BY <1>7, <2>2, <2>3, <2>4
  <2>6. p = v.child[g][Opposite(o)] /\ y = v.child[p][o]
    BY <1>3, <1>5, <1>b
  <2>7. \A x \in C \ {g, p, y} :
          v.red[x] /\ (x = v.root \/ v.red[v.parent[x]]) => x \in {n}
    BY <2>1
  <2> HIDE DEF y
  <2>8. ColoursFit(v, C, g, o, p, {n})
    BY <1>7, <2>5, <2>6, <2>7 DEF ColoursFit
  <2>9. p = v.child[g][Opposite(o)]
    BY <2>6
  <2>. QED
    BY <1>1, <1>3, <1>6, <1>a, <1>c, <2>8, <2>9, TurnPairs
<1>15. u.red = v.red
  BY <1>c DEF Rotated
<1>16. u.red[n]
  BY <1>1, <1>7, <1>15
<1>. QED
  BY <1>1, <1>13, <1>14, <1>15, <1>16 DEF Inserting, wv

(* Heights when no colour changes.                                         *)
LEMMA HeightsKept ==
  ASSUME NEW tr, NEW C, NEW lo, NEW hi, NEW M, TreeShape(tr, C, lo, hi, M),
         NEW h, NEW d \in Sides, NEW v,
         Heights(tr.child, C, h, Weight(tr.red, NULL, d)),
         v.child = tr.child, \A x \in C : v.red[x] <=> tr.red[x]
  PROVE  Heights(v.child, C, h, Weight(v.red, NULL, "left"))
<1>1. C \in SUBSET Keys /\ \A x \in C : x \in Keys /\ x # NULL
  BY ChildLinks
<1>2. ASSUME NEW x \in C, NEW e \in Sides
      PROVE  Weight(v.red, NULL, "left")[x][e] = Weight(tr.red, NULL, d)[x][e]
  <2>1. x \in Keys /\ ~(x = NULL /\ e = d)
    BY <1>1
  <2>2. Weight(tr.red, NULL, d)[x][e] = IF tr.red[x] THEN 0 ELSE 1
    BY <2>1, WeightOf
  <2>3. Weight(v.red, NULL, "left")[x][e] = IF v.red[x] THEN 0 ELSE 1
    BY <2>1, WeightNone
  <2>. QED
    BY <2>2, <2>3
<1>. QED
  BY <1>1, <1>2, HeightsSame

(* Making a red node black makes up for what it was short of.              *)
LEMMA Blacken ==
  ASSUME NEW tr, NEW C, NEW lo, NEW hi, NEW M, TreeShape(tr, C, lo, hi, M),
         NEW h, NEW p, NEW d \in Sides, NEW n \in C, NEW v
  PROVE  /\ Heights(tr.child, C, h, Weight(tr.red, p, d)) /\ tr.red[n]
         /\ p = NULL => n = tr.root
         /\ p # NULL => p \in C /\ tr.child[p][d] = n
         /\ Recoloured(tr, {}, {n}, v)
         => \E h2 : Heights(v.child, C, h2, Weight(v.red, NULL, "left"))
<1> DEFINE ch == tr.child
           h2 == [x \in Pointer |-> IF x = n THEN h[x] + 1 ELSE h[x]]
<1>a. SUFFICES ASSUME Heights(ch, C, h, Weight(tr.red, p, d)), tr.red[n]
      PROVE  /\ p = NULL => n = tr.root
             /\ p # NULL => p \in C /\ tr.child[p][d] = n
             /\ Recoloured(tr, {}, {n}, v)
             => \E z : Heights(v.child, C, z, Weight(v.red, NULL, "left"))
  OBVIOUS
<1>b. SUFFICES ASSUME p = NULL => n = tr.root,
                      p # NULL => p \in C /\ tr.child[p][d] = n
      PROVE  /\ Recoloured(tr, {}, {n}, v)
             => \E z : Heights(v.child, C, z, Weight(v.red, NULL, "left"))
  OBVIOUS
<1>c. SUFFICES ASSUME Recoloured(tr, {}, {n}, v)
      PROVE  \E z : Heights(v.child, C, z, Weight(v.red, NULL, "left"))
  OBVIOUS
<1>1. /\ \A x \in C : x \in Keys /\ x \in Pointer /\ x # NULL
      /\ \A x \in C, e \in Sides : ch[x][e] \in Pointer
      /\ C \in SUBSET Keys /\ ch \in [Keys -> [Sides -> Pointer]]
  BY ChildLinks
<1>2. /\ \A x \in C, e \in Sides : ch[x][e] # NULL =>
           tr.parent[ch[x][e]] = x /\ ch[x][e] # x /\ ch[x][e] # tr.root
      /\ \A x \in C, e, f \in Sides :
           ch[x][e] # NULL /\ ch[x][e] = ch[x][f] => e = f
  BY ChildLinks
<1>3. /\ v.child = ch
      /\ \A m \in Keys : v.red[m] <=> m \in {} \/ (tr.red[m] /\ m \notin {n})
  BY <1>c DEF Recoloured
<1>4. ~v.red[n] /\ \A m \in C : m # n => (v.red[m] <=> tr.red[m])
  BY <1>1, <1>3
<1>5. n # p
  BY <1>1, <1>2, <1>b
<1>6. ASSUME NEW x \in C, NEW e \in Sides, ch[x][e] = n PROVE x = p /\ e = d
  <2>1. n # NULL
    BY <1>1
  <2>2. tr.parent[n] = x /\ n # tr.root
    BY <1>2, <1>6, <2>1
  <2>3. p \in C /\ ch[p][d] = n
    BY <1>b, <2>2
  <2>4. x = p
    BY <1>2, <2>1, <2>2, <2>3
  <2>. QED
    BY <1>2, <1>6, <2>1, <2>3, <2>4
<1>7. h \in [Pointer -> Nat] /\ h[NULL] = 0
  BY <1>a DEF Heights
<1>8. NULL \in Pointer /\ n \in Pointer /\ n # NULL
  BY <1>1 DEF Pointer
<1>9. /\ h2 \in [Pointer -> Nat] /\ h2[NULL] = 0 /\ h2[n] = h[n] + 1
      /\ \A x \in Pointer : x # n => h2[x] = h[x]
  BY <1>7, <1>8
<1> HIDE DEF h2
<1>10. ASSUME NEW x \in C, NEW e \in Sides
       PROVE  h2[x] = h2[ch[x][e]] + (IF v.red[x] THEN 0 ELSE 1)
  <2>1. /\ h[x] \in Nat /\ h[ch[x][e]] \in Nat
        /\ ~(x = p /\ e = d) =>
             h[x] = h[ch[x][e]] + (IF tr.red[x] THEN 0 ELSE 1)
        /\ x = p /\ e = d => h[x] = h[ch[x][e]] + (IF tr.red[x] THEN 1 ELSE 2)
    <3>1. LinkHeight(tr, h, p, d, x, e)
      BY <1>a, HeightOf
    <3>. QED
      BY <3>1 DEF LinkHeight
  <2>2. x \in Pointer /\ ch[x][e] \in Pointer
    BY <1>1
  <2>3. CASE x = n
    <3>1. ch[x][e] # n
      BY <1>5, <1>6, <2>3
    <3>2. h2[ch[x][e]] = h[ch[x][e]] /\ h2[x] = h[x] + 1
      BY <1>9, <2>2, <2>3, <3>1
    <3>3. h[x] = h[ch[x][e]]
      BY <1>5, <1>a, <2>1, <2>3
    <3>. QED
      BY <1>4, <2>1, <2>3, <3>2, <3>3
  <2>4. CASE x # n /\ x = p /\ e = d
    <3>1. ch[x][e] = n
      BY <1>1, <1>b, <2>4
    <3>2. h2[ch[x][e]] = h[ch[x][e]] + 1 /\ h2[x] = h[x]
      BY <1>9, <2>2, <2>4, <3>1
    <3>3. v.red[x] <=> tr.red[x]
      BY <1>4, <2>4
    <3>. QED
      BY <2>1, <2>4, <3>2, <3>3
  <2>5. CASE x # n /\ ~(x = p /\ e = d)
    <3>1. ch[x][e] # n
      BY <1>6, <2>5
    <3>2. h2[ch[x][e]] = h[ch[x][e]] /\ h2[x] = h[x]
      BY <1>9, <2>2, <2>5, <3>1
    <3>3. v.red[x] <=> tr.red[x]
      BY <1>4, <2>5
    <3>. QED
      BY <2>1, <2>5, <3>2, <3>3
  <2>. QED
    BY <2>3, <2>4, <2>5
<1>11. Even(ch, C, h2, v.red)
  BY <1>9, <1>10 DEF Even
<1>12. Heights(ch, C, h2, Weight(v.red, NULL, "left"))
  BY <1>1, <1>11, HeightsNone
<1>. QED
  BY <1>3, <1>12

(* rb_insert_color ends with a black root and a balanced tree.             *)
LEMMA InsertDoneKeeps ==
  ASSUME NEW tr, NEW C, NEW lo, NEW hi, NEW M, TreeShape(tr, C, lo, hi, M),
         NEW h, NEW n, NEW v
  PROVE  /\ Inserting(tr, C, h, n)
         /\ ~(tr.parent[n] # NULL /\ tr.red[tr.parent[n]])
         /\ Recoloured(tr, {}, {tr.root}, v)
         => \E h2 : Steady(v, C, h2)
<1>a. SUFFICES ASSUME Inserting(tr, C, h, n),
                      ~(tr.parent[n] # NULL /\ tr.red[tr.parent[n]])
               PROVE  Recoloured(tr, {}, {tr.root}, v) => \E z : Steady(v, C, z)
  OBVIOUS
<1>b. SUFFICES ASSUME Recoloured(tr, {}, {tr.root}, v)
               PROVE  \E z : Steady(v, C, z)
  OBVIOUS
<1>1. /\ v.child = tr.child /\ v.root = tr.root /\ v.parent = tr.parent
      /\ \A m \in Keys :
           v.red[m] <=> m \in {} \/ (tr.red[m] /\ m \notin {tr.root})
  BY <1>b DEF Recoloured
<1>2. /\ \A x \in C : x \in Keys /\ x # NULL
      /\ \A x \in C : x # tr.root => tr.parent[x] \in C
      /\ \A x \in C : tr.parent[x] = NULL <=> x = tr.root
  BY ChildLinks
<1>3. \A m \in C : v.red[m] <=> tr.red[m] /\ m # tr.root
  BY <1>1, <1>2
<1>4. /\ n \in C /\ Pairs(tr, C, {n})
      /\ Heights(tr.child, C, h, Weight(tr.red, NULL, "left"))
  BY <1>a DEF Inserting
<1>5. tr.root \in C
  BY <1>4, ShapeLinks
<1>6. ASSUME NEW m \in C, v.red[m], m = v.root \/ v.red[v.parent[m]]
      PROVE  FALSE
  <2>1. tr.red[m] /\ m # tr.root /\ v.red[tr.parent[m]]
    BY <1>1, <1>3, <1>6
  <2>2. tr.parent[m] \in C /\ tr.parent[m] # NULL
    BY <1>2, <2>1
  <2>3. tr.red[tr.parent[m]]
    BY <1>3, <2>1, <2>2
  <2>4. m = n
    BY <1>4, <2>1, <2>3 DEF Pairs
  <2>. QED
    BY <1>a, <2>2, <2>3, <2>4
<1>7. Pairs(v, C, {})
  BY <1>6 DEF Pairs
<1>8. "left" \in Sides
  BY DEF Sides
<1>9. \E z : Heights(v.child, C, z, Weight(v.red, NULL, "left"))
  <2>1. CASE tr.red[tr.root]
    BY <1>4, <1>5, <1>8, <1>b, <2>1, Blacken
  <2>2. CASE ~tr.red[tr.root]
    <3>1. \A x \in C : v.red[x] <=> tr.red[x]
      BY <1>3, <2>2
    <3>. QED
      BY <1>1, <1>4, <1>8, <3>1, HeightsKept
  <2>. QED
    BY <2>1, <2>2
<1>. QED
  BY <1>7, <1>9 DEF Steady

(* __rb_erase_color ends with a balanced tree.                             *)
LEMMA EraseDoneKeeps ==
  ASSUME NEW tr, NEW C, NEW lo, NEW hi, NEW M, TreeShape(tr, C, lo, hi, M),
         NEW h, NEW n, NEW p, NEW d, NEW v
  PROVE  /\ Erasing(tr, C, h, n, p, d)
         /\ ~(IsBlack(tr, n) /\ n # tr.root)
         /\ Recoloured(tr, {}, {n}, v)
         => \E h2 : Steady(v, C, h2)
<1>a. SUFFICES ASSUME Erasing(tr, C, h, n, p, d),
                      ~(IsBlack(tr, n) /\ n # tr.root)
               PROVE  Recoloured(tr, {}, {n}, v) => \E z : Steady(v, C, z)
  OBVIOUS
<1>b. SUFFICES ASSUME Recoloured(tr, {}, {n}, v)
               PROVE  \E z : Steady(v, C, z)
  OBVIOUS
<1>1. /\ v.child = tr.child /\ v.root = tr.root /\ v.parent = tr.parent
      /\ \A m \in Keys : v.red[m] <=> m \in {} \/ (tr.red[m] /\ m \notin {n})
  BY <1>b DEF Recoloured
<1>2. /\ \A x \in C : x \in Keys /\ x # NULL
      /\ \A x \in C : x # tr.root => tr.parent[x] \in C
  BY ChildLinks
<1>3. \A m \in C : v.red[m] <=> tr.red[m] /\ m # n
  BY <1>1, <1>2
<1>4. /\ n \in C \cup {NULL} /\ p \in C \cup {NULL} /\ d \in Sides
      /\ p = NULL => n = tr.root
      /\ p # NULL => tr.child[p][d] = n
      /\ Heights(tr.child, C, h, Weight(tr.red, p, d))
      /\ Pairs(tr, C, {m \in C : m = n \/ (m # tr.root /\ tr.parent[m] = n)})
  BY <1>a DEF Erasing
<1>5. ASSUME NEW m \in C, v.red[m], m = v.root \/ v.red[v.parent[m]]
      PROVE  FALSE
  <2>1. tr.red[m] /\ m # n /\ (m = tr.root \/ v.red[tr.parent[m]])
    BY <1>1, <1>3, <1>5
  <2>2. m # tr.root => tr.red[tr.parent[m]] /\ tr.parent[m] # n
    BY <1>2, <1>3, <2>1
  <2>3. m = n \/ (m # tr.root /\ tr.parent[m] = n)
    BY <1>4, <2>1, <2>2 DEF Pairs
  <2>. QED
    BY <2>1, <2>2, <2>3
<1>6. Pairs(v, C, {})
  BY <1>5 DEF Pairs
<1>7. \E z : Heights(v.child, C, z, Weight(v.red, NULL, "left"))
  <2>1. CASE n \in C /\ tr.red[n]
    <3>1. p # NULL => p \in C
      BY <1>4
    <3>. QED
      BY <1>4, <1>b, <2>1, <3>1, Blacken
  <2>2. CASE ~(n \in C /\ tr.red[n])
    <3>1. IsBlack(tr, n)
      BY <1>4, <2>2 DEF IsBlack
    <3>2. n = tr.root
      BY <1>a, <3>1
    <3>3. p = NULL
      <4>1. SUFFICES ASSUME p # NULL PROVE FALSE
        OBVIOUS
      <4>2. p \in C /\ tr.child[p][d] = tr.root
        BY <1>4, <3>2, <4>1
      <4>3. tr.root # NULL
        BY <4>2, ShapeLinks
      <4>. QED
        BY <1>4, <4>2, <4>3, ChildLinks
    <3>4. \A x \in C : v.red[x] <=> tr.red[x]
      BY <1>3, <2>2
    <3>. QED
      BY <1>1, <1>4, <3>3, <3>4, HeightsKept
  <2>. QED
    BY <2>1, <2>2
<1>. QED
  BY <1>6, <1>7 DEF Steady

(* The loop of __rb_erase_color goes on: n is black, and p its parent.     *)
Lacking(tr, C, h, n, p, d) ==
  /\ n \in C \cup {NULL} /\ p \in C /\ d \in Sides
  /\ tr.child[p][d] = n /\ IsBlack(tr, n)
  /\ Heights(tr.child, C, h, Weight(tr.red, p, d))
  /\ Pairs(tr, C, {})
SiblingOf(tr, C, h, n, p, d) ==
  LET o == Opposite(d)
      s == tr.child[p][o]
  IN /\ s \in C /\ s # p /\ s # n /\ tr.parent[s] = p
     /\ h[n] \in Nat /\ h[s] = h[n] + 1 /\ h[p] \in Nat
     /\ h[p] = h[s] + (IF tr.red[p] THEN 0 ELSE 1)
     /\ (IF tr.child[p]["left"] = n THEN "left" ELSE "right") = d
     /\ \A e \in Sides :
          /\ h[tr.child[s][e]] \in Nat
          /\ h[s] = h[tr.child[s][e]] + (IF tr.red[s] THEN 0 ELSE 1)
     /\ tr.red[s] => /\ ~tr.red[p]
                     /\ \A e \in Sides : tr.child[s][e] \in C
                                         /\ ~tr.red[tr.child[s][e]]

(* Then only the black n is short.                                         *)
LEMMA LackingIs ==
  ASSUME NEW tr, NEW C, NEW lo, NEW hi, NEW M, TreeShape(tr, C, lo, hi, M),
         NEW h, NEW n, NEW p, NEW d,
         Erasing(tr, C, h, n, p, d), IsBlack(tr, n), n # tr.root
  PROVE  Lacking(tr, C, h, n, p, d)
<1>1. /\ n \in C \cup {NULL} /\ p \in C /\ d \in Sides
      /\ tr.child[p][d] = n
      /\ Heights(tr.child, C, h, Weight(tr.red, p, d))
      /\ Pairs(tr, C, {m \in C : m = n \/ (m # tr.root /\ tr.parent[m] = n)})
  BY DEF Erasing
<1>2. \A x \in C : x # NULL /\ (tr.parent[x] = NULL <=> x = tr.root)
  BY ChildLinks
<1>3. n # NULL => ~tr.red[n]
  BY DEF IsBlack
<1>4. ASSUME NEW m \in C, tr.red[m], m = tr.root \/ tr.red[tr.parent[m]]
      PROVE  FALSE
  <2>1. m = n \/ (m # tr.root /\ tr.parent[m] = n)
    BY <1>1, <1>4 DEF Pairs
  <2>2. m # n
    BY <1>2, <1>3, <1>4
  <2>3. m # tr.root /\ tr.parent[m] = n
    BY <2>1, <2>2
  <2>. QED
    BY <1>2, <1>3, <1>4, <2>3
<1>5. Pairs(tr, C, {})
  BY <1>4 DEF Pairs
<1>. QED
  BY <1>1, <1>5 DEF Lacking

(* There is a sibling, with nodes below it when it is red, and the side of *)
(* n is the one the code finds, also when n is NULL.                       *)
LEMMA SiblingIs ==
  ASSUME NEW tr, NEW C, NEW lo, NEW hi, NEW M, TreeShape(tr, C, lo, hi, M),
         NEW h, NEW n, NEW p, NEW d, Lacking(tr, C, h, n, p, d)
  PROVE  SiblingOf(tr, C, h, n, p, d)
<1> DEFINE ch == tr.child
           o == Opposite(d)
           s == ch[p][o]
<1>1. /\ n \in C \cup {NULL} /\ p \in C /\ d \in Sides
      /\ ch[p][d] = n /\ IsBlack(tr, n)
      /\ Heights(ch, C, h, Weight(tr.red, p, d))
      /\ Pairs(tr, C, {})
  BY DEF Lacking
<1>2. o \in Sides /\ o # d
  BY <1>1, TwoSides
<1>3. h[NULL] = 0
  BY <1>1 DEF Heights
<1> HIDE DEF o
<1>4. \A x \in C, e \in Sides : LinkHeight(tr, h, p, d, x, e)
  BY <1>1, HeightOf
<1>5. /\ h[p] \in Nat /\ h[n] \in Nat
      /\ h[p] = h[n] + (IF tr.red[p] THEN 1 ELSE 2)
  <2>1. LinkHeight(tr, h, p, d, p, d)
    BY <1>1, <1>4
  <2>. QED
    BY <1>1, <2>1 DEF LinkHeight
<1>6. h[s] \in Nat /\ h[p] = h[s] + (IF tr.red[p] THEN 0 ELSE 1)
  <2>1. LinkHeight(tr, h, p, d, p, o)
    BY <1>1, <1>2, <1>4
  <2>. QED
    BY <1>2, <2>1 DEF LinkHeight
<1>7. h[s] = h[n] + 1
  BY <1>5, <1>6
<1>8. s # NULL /\ s # n
  BY <1>3, <1>5, <1>7
<1>9. s \in C /\ tr.parent[s] = p /\ s # p /\ s # tr.root
  BY <1>1, <1>2, <1>8, ChildLinks
<1>10. (IF ch[p]["left"] = n THEN "left" ELSE "right") = d
  BY <1>1, <1>8 DEF o, Opposite, Sides
<1> HIDE DEF s
<1>11. ASSUME NEW e \in Sides
       PROVE  /\ h[ch[s][e]] \in Nat
              /\ h[s] = h[ch[s][e]] + (IF tr.red[s] THEN 0 ELSE 1)
  <2>1. LinkHeight(tr, h, p, d, s, e)
    BY <1>4, <1>9
  <2>. QED
    BY <1>9, <2>1 DEF LinkHeight
<1>12. ASSUME tr.red[s], NEW e \in Sides
       PROVE  ch[s][e] \in C /\ ~tr.red[ch[s][e]]
  <2>1. h[ch[s][e]] \in Nat /\ h[s] = h[ch[s][e]]
    BY <1>11, <1>12
  <2>2. ch[s][e] # NULL
    BY <1>3, <1>5, <1>7, <2>1
  <2>3. ch[s][e] \in C /\ tr.parent[ch[s][e]] = s
    BY <1>9, <2>2, ChildLinks
  <2>. QED
    BY <1>1, <1>12, <2>3 DEF Pairs
<1>13. tr.red[s] => ~tr.red[p]
  BY <1>1, <1>9 DEF Pairs
<1>. QED
  BY <1>5, <1>6, <1>7, <1>8, <1>9, <1>10, <1>11, <1>12, <1>13
     DEF SiblingOf, s, o

(* A red sibling goes up, and a black one takes its place.                 *)
LEMMA RedSiblingKeeps ==
  ASSUME NEW tr, NEW C, NEW lo, NEW hi, NEW M, TreeShape(tr, C, lo, hi, M),
         NEW h, NEW n, NEW p, NEW d \in Sides, NEW s, NEW v, NEW u
  PROVE  /\ Lacking(tr, C, h, n, p, d)
         /\ s = tr.child[p][Opposite(d)] /\ tr.red[s]
         /\ Recoloured(tr, {p}, {s}, v) /\ Rotated(v, p, d, u)
         => /\ \E h2 : Lacking(u, C, h2, n, p, d)
            /\ ~u.red[u.child[p][Opposite(d)]]
<1> DEFINE ch == tr.child
           o == Opposite(d)
           y == ch[s][d]
           wv == Weight(v.red, p, d)
           G == /\ \E h2 : Lacking(u, C, h2, n, p, d)
                /\ ~u.red[u.child[p][o]]
<1>a. SUFFICES ASSUME Lacking(tr, C, h, n, p, d), s = ch[p][o], tr.red[s]
               PROVE  Recoloured(tr, {p}, {s}, v) /\ Rotated(v, p, d, u) => G
  OBVIOUS
<1>b. SUFFICES ASSUME Recoloured(tr, {p}, {s}, v), Rotated(v, p, d, u)
               PROVE  G
  OBVIOUS
<1> HIDE DEF G
<1>1. /\ n \in C \cup {NULL} /\ p \in C /\ ch[p][d] = n /\ IsBlack(tr, n)
      /\ Heights(ch, C, h, Weight(tr.red, p, d)) /\ Pairs(tr, C, {})
  BY <1>a DEF Lacking
<1>2. SiblingOf(tr, C, h, n, p, d)
  BY <1>a, SiblingIs
<1>3. /\ s \in C /\ s # p /\ s # n /\ tr.parent[s] = p /\ ~tr.red[p]
      /\ \A e \in Sides : ch[s][e] \in C /\ ~tr.red[ch[s][e]]
  BY <1>2, <1>a DEF SiblingOf
<1>4. /\ o \in Sides /\ o # d /\ \A e \in Sides : e = d \/ e = o
  BY TwoSides
<1> HIDE DEF o
<1>5. /\ h[n] \in Nat /\ h[s] = h[n] + 1 /\ h[p] = h[s] + 1
      /\ h[ch[s][d]] = h[s] /\ h[ch[s][o]] = h[s]
  <2>1. /\ h[n] \in Nat /\ h[s] = h[n] + 1
        /\ h[p] = h[s] + (IF tr.red[p] THEN 0 ELSE 1)
    BY <1>2, <1>a DEF SiblingOf, o
  <2>2. \A e \in Sides :
          /\ h[ch[s][e]] \in Nat
          /\ h[s] = h[ch[s][e]] + (IF tr.red[s] THEN 0 ELSE 1)
    BY <1>2, <1>a DEF SiblingOf, o
  <2>3. \A e \in Sides : h[s] = h[ch[s][e]]
    BY <1>a, <2>2
  <2>. QED
    BY <1>3, <1>4, <2>1, <2>3
<1>6. /\ v \in Tree /\ v.root = tr.root /\ v.child = ch
      /\ v.parent = tr.parent
      /\ \A m \in Keys : v.red[m] <=> m \in {p} \/ (tr.red[m] /\ m \notin {s})
  BY <1>b DEF Recoloured
<1>7. TreeShape(v, C, lo, hi, M)
  BY <1>6, SameLinks
<1>8. C \in SUBSET Keys /\ s # NULL
  BY <1>3, ChildLinks
<1>9. /\ \A m \in C : m # p /\ m # s => (v.red[m] <=> tr.red[m])
      /\ v.red[p] /\ ~v.red[s]
  <2>1. \A m \in C : m # p /\ m # s => (v.red[m] <=> tr.red[m])
    BY <1>6, <1>8
  <2>2. v.red[p] /\ ~v.red[s]
    BY <1>1, <1>3, <1>6, <1>8
  <2>. QED
    BY <2>1, <2>2
<1>10. wv[p][d] = 1 /\ wv[p][o] = 0 /\ wv[s][d] = 1 /\ wv[s][o] = 1
  <2>1. p \in Keys /\ s \in Keys
    BY <1>1, <1>3, <1>8
  <2>2. wv[p][d] = 1
    BY <1>9, <2>1, WeightOf
  <2>3. wv[p][o] = 0
    BY <1>4, <1>9, <2>1, WeightOf
  <2>4. wv[s][d] = 1 /\ wv[s][o] = 1
    BY <1>3, <1>4, <1>9, <2>1, WeightOf
  <2>. QED
    BY <2>2, <2>3, <2>4
<1>11. Heights(v.child, C \ {p, s}, h, wv)
  BY <1>1, <1>6, <1>9, HeightsBut
<1> HIDE DEF wv
<1>c. s = v.child[p][o] /\ v.child[p][d] = n /\ y = v.child[s][d]
  BY <1>1, <1>6, <1>a
<1>12. Heights(u.child, C, [h EXCEPT ![s] = h[p], ![p] = h[s]], wv)
  <2>1. /\ h[s] \in Nat
        /\ h[s] = h[n] + wv[p][d] /\ h[s] = h[ch[s][d]] + wv[p][o]
        /\ h[p] = h[s] + wv[s][d] /\ h[p] = h[ch[s][o]] + wv[s][o]
    BY <1>5, <1>10
  <2>2. TurnFits(v, p, d, s, h, wv, h[s])
    BY <1>1, <1>6, <2>1 DEF TurnFits, o
  <2>. QED
    BY <1>1, <1>7, <1>8, <1>11, <1>b, <1>c, <2>2, TurnHeights DEF o
<1>13. Pairs(u, C, {})
  <2>1. ASSUME NEW x \in C, x # p, x # s, v.red[x],
               x = v.root \/ v.red[v.parent[x]]
        PROVE  FALSE
    <3>1. tr.red[x]
      BY <1>9, <2>1
    <3>2. x # tr.root /\ ~tr.red[tr.parent[x]]
      BY <1>1, <3>1 DEF Pairs
    <3>3. /\ tr.parent[x] \in C /\ v.red[tr.parent[x]] /\ x # NULL
          /\ \E e \in Sides : ch[tr.parent[x]][e] = x
      BY <1>6, <2>1, <3>2, ChildLinks
    <3>4. tr.parent[x] = p
      BY <1>9, <3>2, <3>3
    <3>5. x = n
      BY <1>1, <1>4, <1>a, <2>1, <3>3, <3>4
    <3>. QED
      BY <1>1, <3>1, <3>3, <3>5 DEF IsBlack
  <2>2. y \in C /\ ~tr.red[y]
    BY <1>3
  <2>3. y # p /\ y # s
    <3>1. RotateAround(v, C, p, d, u)
      BY <1>1, <1>7, <1>8, <1>b, <1>c, RotateLinks DEF o
    <3>. QED
      BY <1>c, <3>1 DEF RotateAround, o
  <2>4. ~v.red[y]
    BY <1>9, <2>2, <2>3
  <2>5. \A x \in C \ {p, s, y} :
          v.red[x] /\ (x = v.root \/ v.red[v.parent[x]]) => x \in {}
    BY <2>1
  <2> HIDE DEF y
  <2>6. ColoursFit(v, C, p, d, s, {})
    BY <1>9, <1>c, <2>4, <2>5 DEF ColoursFit
  <2>. QED
    BY <1>1, <1>7, <1>8, <1>b, <1>c, <2>6, TurnPairs DEF o
<1>14. RotateAround(v, C, p, d, u)
  BY <1>1, <1>7, <1>8, <1>b, <1>c, RotateLinks DEF o
<1>15. y # p /\ y # s /\ tr.parent[p] # p /\ tr.parent[p] # s
  BY <1>6, <1>14, <1>c DEF RotateAround, o
<1>16. u.child[p][o] = y /\ u.child[p][d] = n
  <2>1. \A x \in Keys, e \in Sides :
          u.child[x][e] = IF x = p /\ e = o THEN y
                          ELSE IF x = s /\ e = d THEN p
                          ELSE IF x = v.parent[p] /\ v.child[v.parent[p]][e] = p
                          THEN s ELSE v.child[x][e]
    BY <1>14, <1>c DEF RotateAround, o
  <2>2. p \in Keys /\ p # s /\ p # v.parent[p]
    BY <1>1, <1>3, <1>6, <1>8, <1>15
  <2>. QED
    BY <1>4, <1>c, <2>1, <2>2
<1>17. u.red = v.red
  BY <1>b DEF Rotated
<1>18. ~u.red[y]
  BY <1>3, <1>9, <1>15, <1>17
<1>19. IsBlack(u, n)
  <2>1. n # p
    BY <1>1, <1>8, ChildLinks
  <2>2. n # NULL => n \in C /\ ~tr.red[n]
    BY <1>1 DEF IsBlack
  <2>. QED
    BY <1>3, <1>9, <1>17, <2>1, <2>2 DEF IsBlack
<1>20. \E h2 : Lacking(u, C, h2, n, p, d)
  BY <1>1, <1>12, <1>13, <1>16, <1>17, <1>19 DEF Lacking, wv
<1>. QED
  BY <1>16, <1>18, <1>20 DEF G

(* What the rotation at the sibling leaves: a sibling whose far child is   *)
(* red.                                                                    *)
NearDone(C, n, p, d, u) ==
  LET o == Opposite(d)
      s == u.child[p][o]
  IN /\ \E h2 : Lacking(u, C, h2, n, p, d)
     /\ s \in C /\ ~u.red[s] /\ u.child[s][o] # NULL /\ u.red[u.child[s][o]]

(* A red near child of the sibling goes up, and the sibling below it.      *)
LEMMA NearKeeps ==
  ASSUME NEW tr, NEW C, NEW lo, NEW hi, NEW M, TreeShape(tr, C, lo, hi, M),
         NEW h, NEW n, NEW p, NEW d \in Sides, NEW s, NEW y, NEW v, NEW u
  PROVE  /\ Lacking(tr, C, h, n, p, d)
         /\ s = tr.child[p][Opposite(d)] /\ ~tr.red[s]
         /\ y = tr.child[s][d] /\ y # NULL /\ tr.red[y]
         /\ IsBlack(tr, tr.child[s][Opposite(d)])
         /\ Recoloured(tr, {s}, {y}, v) /\ Rotated(v, s, Opposite(d), u)
         => NearDone(C, n, p, d, u)
<1> DEFINE ch == tr.child
           o == Opposite(d)
           z == ch[y][o]
           wv == Weight(v.red, p, d)
<1>a. SUFFICES ASSUME Lacking(tr, C, h, n, p, d), s = ch[p][o], ~tr.red[s]
               PROVE  /\ y = tr.child[s][d] /\ y # NULL /\ tr.red[y]
                      /\ IsBlack(tr, ch[s][o])
                      /\ Recoloured(tr, {s}, {y}, v) /\ Rotated(v, s, o, u)
                      => NearDone(C, n, p, d, u)
  OBVIOUS
<1>b. SUFFICES ASSUME y = tr.child[s][d], y # NULL, tr.red[y],
                      IsBlack(tr, ch[s][o])
               PROVE  /\ Recoloured(tr, {s}, {y}, v) /\ Rotated(v, s, o, u)
                      => NearDone(C, n, p, d, u)
  OBVIOUS
<1>c. SUFFICES ASSUME Recoloured(tr, {s}, {y}, v), Rotated(v, s, o, u)
               PROVE  NearDone(C, n, p, d, u)
  OBVIOUS
<1>1. /\ n \in C \cup {NULL} /\ p \in C /\ ch[p][d] = n /\ IsBlack(tr, n)
      /\ Heights(ch, C, h, Weight(tr.red, p, d)) /\ Pairs(tr, C, {})
  BY <1>a DEF Lacking
<1>2. SiblingOf(tr, C, h, n, p, d)
  BY <1>a, SiblingIs
<1>3. s \in C /\ s # p /\ s # n /\ tr.parent[s] = p
  BY <1>2, <1>a DEF SiblingOf
<1>4. /\ o \in Sides /\ o # d /\ Opposite(o) = d
      /\ \A e \in Sides : e = d \/ e = o
  BY TwoSides
<1>5. /\ h[s] \in Nat /\ h[y] \in Nat /\ h[ch[s][o]] \in Nat
      /\ h[s] = h[y] + 1 /\ h[s] = h[ch[s][o]] + 1
  <2>1. /\ \A e \in Sides :
             /\ h[ch[s][e]] \in Nat
             /\ h[s] = h[ch[s][e]] + (IF tr.red[s] THEN 0 ELSE 1)
        /\ h[n] \in Nat /\ h[s] = h[n] + 1
    BY <1>2, <1>a DEF SiblingOf
  <2>2. \A e \in Sides : h[ch[s][e]] \in Nat /\ h[s] = h[ch[s][e]] + 1
    BY <1>a, <2>1
  <2>. QED
    BY <1>4, <1>b, <2>1, <2>2
<1> HIDE DEF o
<1>6. y \in C /\ tr.parent[y] = s /\ y # s
  BY <1>3, <1>b, ChildLinks
<1>7. /\ v \in Tree /\ v.root = tr.root /\ v.child = ch
      /\ v.parent = tr.parent
      /\ \A m \in Keys : v.red[m] <=> m \in {s} \/ (tr.red[m] /\ m \notin {y})
  BY <1>c DEF Recoloured
<1>8. TreeShape(v, C, lo, hi, M)
  BY <1>7, SameLinks
<1>9. y = v.child[s][Opposite(o)] /\ v.child[y][o] = z /\ v.parent[s] = p
  BY <1>3, <1>4, <1>7, <1>b
<1>10. RotateAround(v, C, s, o, u)
  BY <1>3, <1>4, <1>8, <1>9, <1>b, <1>c, RotateLinks
<1>11. y # p /\ z # s /\ z # y
  BY <1>9, <1>10 DEF RotateAround
<1>12. C \in SUBSET Keys
  BY ChildLinks
<1>13. /\ \A m \in C : m # s /\ m # y => (v.red[m] <=> tr.red[m])
       /\ v.red[s] /\ ~v.red[y]
  <2>1. \A m \in C : m # s /\ m # y => (v.red[m] <=> tr.red[m])
    BY <1>7, <1>12
  <2>2. v.red[s] /\ ~v.red[y]
    BY <1>3, <1>6, <1>7, <1>12
  <2>. QED
    BY <2>1, <2>2
<1>14. wv[s][d] = 0 /\ wv[s][o] = 0 /\ wv[y][d] = 1 /\ wv[y][o] = 1
  <2>1. y \in Keys /\ s \in Keys
    BY <1>3, <1>6, <1>12
  <2>2. wv[s][d] = 0 /\ wv[s][o] = 0
    BY <1>3, <1>4, <1>13, <2>1, WeightOf
  <2>3. wv[y][d] = 1 /\ wv[y][o] = 1
    BY <1>4, <1>11, <1>13, <2>1, WeightOf
  <2>. QED
    BY <2>2, <2>3
<1>15. Heights(v.child, C \ {s, y}, h, wv)
  BY <1>1, <1>7, <1>13, HeightsBut
<1> HIDE DEF wv
<1>16. h[y] = h[ch[y][d]] /\ h[y] = h[z]
  <2>1. ASSUME NEW e \in Sides PROVE h[y] = h[ch[y][e]]
    <3>1. LinkHeight(tr, h, p, d, y, e)
      BY <1>1, <1>6, HeightOf
    <3>. QED
      BY <1>11, <1>b, <3>1 DEF LinkHeight
  <2>. QED
    BY <1>4, <2>1
<1>17. Heights(u.child, C, [h EXCEPT ![y] = h[s], ![s] = h[y]], wv)
  <2>1. /\ h[y] = h[ch[s][o]] + wv[s][o] /\ h[y] = h[z] + wv[s][d]
        /\ h[s] = h[y] + wv[y][o] /\ h[s] = h[ch[y][d]] + wv[y][d]
    BY <1>5, <1>14, <1>16
  <2>2. TurnFits(v, s, o, y, h, wv, h[y])
    BY <1>4, <1>5, <1>7, <2>1 DEF TurnFits
  <2>. QED
    BY <1>3, <1>4, <1>8, <1>9, <1>15, <1>b, <1>c, <2>2, TurnHeights
<1>18. Pairs(u, C, {})
  <2>1. ASSUME NEW x \in C, x # s, x # y, v.red[x],
               x = v.root \/ v.red[v.parent[x]]
        PROVE  FALSE
    <3>1. tr.red[x]
      BY <1>13, <2>1
    <3>2. x # tr.root /\ ~tr.red[tr.parent[x]]
      BY <1>1, <3>1 DEF Pairs
    <3>3. /\ tr.parent[x] \in C /\ v.red[tr.parent[x]] /\ x # NULL
          /\ \E e \in Sides : ch[tr.parent[x]][e] = x
      BY <1>7, <2>1, <3>2, ChildLinks
    <3>4. tr.parent[x] = s
      BY <1>13, <3>2, <3>3
    <3>5. x = ch[s][o]
      BY <1>4, <1>b, <2>1, <3>3, <3>4
    <3>. QED
      BY <1>b, <3>1, <3>3, <3>5 DEF IsBlack
  <2>2. z # NULL => z \in C /\ tr.parent[z] = y
    BY <1>4, <1>6, ChildLinks
  <2>3. ~(z # NULL /\ tr.red[z])
    BY <1>1, <1>b, <2>2 DEF Pairs
  <2>4. ~(z # NULL /\ v.red[z])
    BY <1>11, <1>13, <2>2, <2>3
  <2>5. \A x \in C \ {s, y, z} :
          v.red[x] /\ (x = v.root \/ v.red[v.parent[x]]) => x \in {}
    BY <2>1
  <2> HIDE DEF z
  <2>6. ColoursFit(v, C, s, o, y, {})
    BY <1>9, <1>13, <2>4, <2>5 DEF ColoursFit
  <2>. QED
    BY <1>3, <1>4, <1>8, <1>9, <1>b, <1>c, <2>6, TurnPairs
<1>19. \A x \in Keys, e \in Sides :
         u.child[x][e] = IF x = s /\ e = d THEN z
                         ELSE IF x = y /\ e = o THEN s
                         ELSE IF x = p /\ v.child[p][e] = s THEN y
                         ELSE v.child[x][e]
  BY <1>4, <1>9, <1>10, SMTT(60) DEF RotateAround
<1>20. p \in Keys /\ y \in Keys
  BY <1>1, <1>6, <1>12
<1>21. u.child[p][o] = y /\ u.child[p][d] = n /\ u.child[y][o] = s
  <2>1. v.child[p][o] = s /\ v.child[p][d] = n
    BY <1>1, <1>7, <1>a
  <2>2. u.child[p][o] = y
    BY <1>3, <1>4, <1>11, <1>19, <1>20, <2>1
  <2>3. u.child[p][d] = n
    BY <1>3, <1>4, <1>11, <1>19, <1>20, <2>1
  <2>4. u.child[y][o] = s
    BY <1>4, <1>6, <1>19, <1>20
  <2>. QED
    BY <2>2, <2>3, <2>4
<1>22. u.red = v.red
  BY <1>c DEF Rotated
<1>23. IsBlack(u, n)
  <2>1. n # NULL => n \in C /\ ~tr.red[n]
    BY <1>1 DEF IsBlack
  <2>2. n # NULL => n # y
    BY <1>b, <2>1
  <2>. QED
    BY <1>3, <1>13, <1>22, <2>1, <2>2 DEF IsBlack
<1>24. \E h2 : Lacking(u, C, h2, n, p, d)
  BY <1>1, <1>17, <1>18, <1>21, <1>22, <1>23 DEF Lacking, wv
<1>25. s # NULL
  BY <1>3, ChildLinks
<1>. QED
  BY <1>6, <1>13, <1>21, <1>22, <1>24, <1>25 DEF NearDone, o

(* The colours before the last rotation: the sibling has that of p, and p  *)
(* and the far child f are black.                                          *)
FarColours(tr, p, s, f, v) ==
  /\ v \in Tree /\ v.root = tr.root /\ v.child = tr.child
  /\ v.parent = tr.parent
  /\ v.red[s] <=> tr.red[p]
  /\ ~v.red[p] /\ ~v.red[f]
  /\ \A m \in Keys : m # s /\ m # p /\ m # f => (v.red[m] <=> tr.red[m])

(* A red far child ends the loop with one rotation.                        *)
LEMMA FarKeeps ==
  ASSUME NEW tr, NEW C, NEW lo, NEW hi, NEW M, TreeShape(tr, C, lo, hi, M),
         NEW h, NEW n, NEW p, NEW d \in Sides, NEW s, NEW f, NEW v, NEW u
  PROVE  /\ Lacking(tr, C, h, n, p, d)
         /\ s = tr.child[p][Opposite(d)] /\ ~tr.red[s]
         /\ f = tr.child[s][Opposite(d)] /\ f # NULL /\ tr.red[f]
         /\ FarColours(tr, p, s, f, v) /\ Rotated(v, p, d, u)
         => \E h2 : Steady(u, C, h2)
<1> DEFINE ch == tr.child
           o == Opposite(d)
           y == ch[s][d]
           g == tr.parent[p]
           wv == Weight(v.red, NULL, "left")
           h1 == [x \in Pointer |-> IF x = f THEN h[x] + 1 ELSE h[x]]
<1>a. SUFFICES ASSUME Lacking(tr, C, h, n, p, d), s = ch[p][o], ~tr.red[s]
               PROVE  /\ f = ch[s][o] /\ f # NULL /\ tr.red[f]
                      /\ FarColours(tr, p, s, f, v) /\ Rotated(v, p, d, u)
                      => \E h2 : Steady(u, C, h2)
  OBVIOUS
<1>b. SUFFICES ASSUME f = ch[s][o], f # NULL, tr.red[f]
               PROVE  /\ FarColours(tr, p, s, f, v) /\ Rotated(v, p, d, u)
                      => \E h2 : Steady(u, C, h2)
  OBVIOUS
<1>c. SUFFICES ASSUME FarColours(tr, p, s, f, v), Rotated(v, p, d, u)
               PROVE  \E h2 : Steady(u, C, h2)
  OBVIOUS
<1>1. /\ n \in C \cup {NULL} /\ p \in C /\ ch[p][d] = n
      /\ Heights(ch, C, h, Weight(tr.red, p, d)) /\ Pairs(tr, C, {})
  BY <1>a DEF Lacking
<1>2. SiblingOf(tr, C, h, n, p, d)
  BY <1>a, SiblingIs
<1>3. s \in C /\ s # p /\ s # n /\ tr.parent[s] = p
  BY <1>2, <1>a DEF SiblingOf
<1>4. /\ o \in Sides /\ o # d /\ \A e \in Sides : e = d \/ e = o
  BY TwoSides
<1>5. /\ h[n] \in Nat /\ h[s] = h[n] + 1 /\ h[p] \in Nat
      /\ h[p] = h[s] + (IF tr.red[p] THEN 0 ELSE 1)
      /\ h[f] \in Nat /\ h[y] \in Nat /\ h[s] = h[f] + 1 /\ h[s] = h[y] + 1
  <2>1. /\ \A e \in Sides :
             /\ h[ch[s][e]] \in Nat
             /\ h[s] = h[ch[s][e]] + (IF tr.red[s] THEN 0 ELSE 1)
        /\ h[n] \in Nat /\ h[s] = h[n] + 1 /\ h[p] \in Nat
        /\ h[p] = h[s] + (IF tr.red[p] THEN 0 ELSE 1)
    BY <1>2, <1>a DEF SiblingOf
  <2>2. \A e \in Sides : h[ch[s][e]] \in Nat /\ h[s] = h[ch[s][e]] + 1
    BY <1>a, <2>1
  <2>. QED
    BY <1>4, <1>b, <2>1, <2>2
<1> HIDE DEF o
<1>6. f \in C /\ tr.parent[f] = s /\ f # s
  BY <1>3, <1>4, <1>b, ChildLinks
<1>7. /\ v \in Tree /\ v.root = tr.root /\ v.child = ch
      /\ v.parent = tr.parent
      /\ v.red[s] <=> tr.red[p]
      /\ ~v.red[p] /\ ~v.red[f]
      /\ \A m \in Keys : m # s /\ m # p /\ m # f => (v.red[m] <=> tr.red[m])
  BY <1>c DEF FarColours
<1>8. TreeShape(v, C, lo, hi, M)
  BY <1>7, SameLinks
<1>9. s = v.child[p][o] /\ v.child[s][d] = y /\ v.parent[p] = g /\ s # NULL
  BY <1>3, <1>7, <1>a, ChildLinks
<1>10. RotateAround(v, C, p, d, u)
  BY <1>1, <1>8, <1>9, <1>c, RotateLinks DEF o
<1>11. g # p /\ g # s /\ y # p /\ y # s /\ ch[s][o] # p
  BY <1>7, <1>9, <1>10 DEF RotateAround, o
<1>12. /\ C \in SUBSET Keys /\ ch \in [Keys -> [Sides -> Pointer]]
       /\ \A x \in C : x \in Keys /\ x \in Pointer /\ x # NULL
       /\ \A x \in C, e \in Sides : ch[x][e] \in Pointer
  BY ChildLinks
<1>13. y # f /\ n # f
  <2>1. y # f
    BY <1>3, <1>4, <1>b, ChildLinks
  <2>2. n # NULL => tr.parent[n] = p
    BY <1>1, ChildLinks
  <2>. QED
    BY <1>3, <1>6, <1>b, <2>1, <2>2
<1>14. wv[p][d] = 1 /\ wv[p][o] = 1
       /\ wv[s][d] = (IF tr.red[p] THEN 0 ELSE 1)
       /\ wv[s][o] = (IF tr.red[p] THEN 0 ELSE 1)
  <2>1. p \in Keys /\ s \in Keys
    BY <1>1, <1>3, <1>12
  <2>2. wv[p][d] = 1 /\ wv[p][o] = 1
    BY <1>4, <1>7, <2>1, WeightNone
  <2>3. wv[s][d] = (IF v.red[s] THEN 0 ELSE 1)
        /\ wv[s][o] = (IF v.red[s] THEN 0 ELSE 1)
    BY <1>4, <2>1, WeightNone
  <2>4. wv[s][d] = (IF tr.red[p] THEN 0 ELSE 1)
        /\ wv[s][o] = (IF tr.red[p] THEN 0 ELSE 1)
    BY <1>7, <2>3
  <2>. QED
    BY <2>2, <2>4
<1>15. h \in [Pointer -> Nat] /\ h[NULL] = 0
  BY <1>1 DEF Heights
<1>16. /\ h1 \in [Pointer -> Nat] /\ h1[NULL] = 0 /\ h1[f] = h[f] + 1
       /\ \A x \in Pointer : x # f => h1[x] = h[x]
  <2>1. NULL \in Pointer /\ f \in Pointer /\ f # NULL
    BY <1>6, <1>12 DEF Pointer
  <2>. QED
    BY <1>15, <2>1
<1> HIDE DEF h1, wv
<1>17. Heights(v.child, C \ {p, s}, h1, wv)
  <2>1. ASSUME NEW x \in C \ {p, s}, NEW e \in Sides
        PROVE  h1[x] = h1[ch[x][e]] + wv[x][e]
    <3>1. LinkHeight(tr, h, p, d, x, e)
      BY <1>1, HeightOf
    <3>2. /\ h[x] \in Nat /\ h[ch[x][e]] \in Nat
          /\ h[x] = h[ch[x][e]] + (IF tr.red[x] THEN 0 ELSE 1)
      BY <2>1, <3>1 DEF LinkHeight
    <3>3. x \in Keys /\ x \in Pointer /\ ch[x][e] \in Pointer
      BY <1>12, <2>1
    <3>4. wv[x][e] = IF v.red[x] THEN 0 ELSE 1
      BY <3>3, WeightNone DEF wv
    <3>5. ch[x][e] # f
      BY <1>6, <1>b, <2>1, ChildLinks
    <3>6. h1[ch[x][e]] = h[ch[x][e]]
      BY <1>16, <3>3, <3>5
    <3>7. CASE x = f
      <4>1. h1[x] = h[x] + 1 /\ ~v.red[x] /\ tr.red[x]
        BY <1>7, <1>16, <1>b, <3>7
      <4>. QED
        BY <3>2, <3>4, <3>6, <4>1
    <3>8. CASE x # f
      <4>1. h1[x] = h[x] /\ (v.red[x] <=> tr.red[x])
        BY <1>7, <1>16, <2>1, <3>3, <3>8
      <4>. QED
        BY <3>2, <3>4, <3>6, <4>1
    <3>. QED
      BY <3>7, <3>8
  <2>. QED
    BY <1>7, <1>16, <2>1 DEF Heights
<1>18. Heights(u.child, C, [h1 EXCEPT ![s] = h1[p], ![p] = h[s]], wv)
  <2>1. h1[p] = h[p] /\ h1[n] = h[n] /\ h1[y] = h[y] /\ h1[f] = h[f] + 1
    <3>1. p \in Pointer /\ n \in Pointer /\ y \in Pointer /\ p # f
      BY <1>1, <1>3, <1>4, <1>11, <1>12, <1>b
    <3>. QED
      BY <1>13, <1>16, <3>1
  <2>2. /\ h[s] = h1[n] + wv[p][d] /\ h[s] = h1[y] + wv[p][o]
        /\ h1[p] = h[s] + wv[s][d] /\ h1[p] = h1[f] + wv[s][o]
        /\ h[s] \in Nat
    BY <1>5, <1>14, <2>1
  <2>3. v.child[p][d] = n /\ v.child[s][o] = f
    BY <1>1, <1>7, <1>b
  <2>4. TurnFits(v, p, d, s, h1, wv, h[s])
    BY <1>9, <2>2, <2>3 DEF TurnFits, o
  <2>. QED
    BY <1>1, <1>8, <1>9, <1>17, <1>c, <2>4, TurnHeights DEF o
<1>19. Pairs(u, C, {})
  <2>1. ASSUME NEW x \in C, x # p, x # s, x # y, v.red[x],
               x = v.root \/ v.red[v.parent[x]]
        PROVE  FALSE
    <3>1. tr.red[x] /\ x # f
      BY <1>7, <1>12, <2>1
    <3>2. x # tr.root /\ ~tr.red[tr.parent[x]]
      BY <1>1, <3>1 DEF Pairs
    <3>3. /\ tr.parent[x] \in C /\ v.red[tr.parent[x]] /\ x # NULL
          /\ \E e \in Sides : ch[tr.parent[x]][e] = x
      BY <1>7, <2>1, <3>2, ChildLinks
    <3>4. tr.parent[x] = s
      BY <1>7, <1>12, <3>2, <3>3
    <3>. QED
      BY <1>4, <1>b, <2>1, <3>1, <3>3, <3>4
  <2>2. ~(v.red[s] /\ (g = NULL \/ v.red[g]))
    <3>1. SUFFICES ASSUME v.red[s], g = NULL \/ v.red[g] PROVE FALSE
      OBVIOUS
    <3>2. tr.red[p]
      BY <1>7, <3>1
    <3>3. p # tr.root /\ ~tr.red[g]
      BY <1>1, <3>2 DEF Pairs
    <3>4. g \in C
      BY <1>1, <3>3, ChildLinks
    <3>5. g # NULL /\ v.red[g] /\ g # f
      BY <1>7, <1>12, <3>1, <3>4
    <3>. QED
      BY <1>7, <1>11, <1>12, <3>3, <3>4, <3>5
  <2>3. \A x \in C \ {p, s, y} :
          v.red[x] /\ (x = v.root \/ v.red[v.parent[x]]) => x \in {}
    BY <2>1
  <2> HIDE DEF y, g
  <2>4. ColoursFit(v, C, p, d, s, {})
    BY <1>7, <1>9, <2>2, <2>3 DEF ColoursFit
  <2>. QED
    BY <1>1, <1>8, <1>9, <1>c, <2>4, TurnPairs DEF o
<1>20. u.red = v.red
  BY <1>c DEF Rotated
<1>. QED
  BY <1>18, <1>19, <1>20 DEF Steady, wv

(* With no red node around, the sibling turns red and what is short moves  *)
(* up.                                                                     *)
LEMMA EraseRecolourKeeps ==
  ASSUME NEW tr, NEW C, NEW lo, NEW hi, NEW M, TreeShape(tr, C, lo, hi, M),
         NEW h, NEW n, NEW p, NEW d \in Sides, NEW s, NEW v
  PROVE  /\ Lacking(tr, C, h, n, p, d)
         /\ s = tr.child[p][Opposite(d)] /\ ~tr.red[s]
         /\ \A e \in Sides : IsBlack(tr, tr.child[s][e])
         /\ Recoloured(tr, {s}, {}, v)
         => \E h2, d2 : Erasing(v, C, h2, p, tr.parent[p], d2)
<1> DEFINE ch == tr.child
           o == Opposite(d)
           g == tr.parent[p]
           f == IF p = tr.root THEN "left" ELSE SideOf(tr, p)
           h2 == [x \in Pointer |-> IF x = p \/ x = s THEN h[x] - 1 ELSE h[x]]
           G == \E z, d2 : Erasing(v, C, z, p, tr.parent[p], d2)
<1>a. SUFFICES ASSUME Lacking(tr, C, h, n, p, d), s = ch[p][o], ~tr.red[s]
               PROVE  /\ \A e \in Sides : IsBlack(tr, ch[s][e])
                      /\ Recoloured(tr, {s}, {}, v)
                      => G
  OBVIOUS
<1>b. SUFFICES ASSUME \A e \in Sides : IsBlack(tr, ch[s][e])
               PROVE  Recoloured(tr, {s}, {}, v) => G
  OBVIOUS
<1>c. SUFFICES ASSUME Recoloured(tr, {s}, {}, v)
               PROVE  G
  OBVIOUS
<1> HIDE DEF G
<1>1. /\ n \in C \cup {NULL} /\ p \in C /\ ch[p][d] = n
      /\ Heights(ch, C, h, Weight(tr.red, p, d)) /\ Pairs(tr, C, {})
  BY <1>a DEF Lacking
<1>2. SiblingOf(tr, C, h, n, p, d)
  BY <1>a, SiblingIs
<1>3. s \in C /\ s # p /\ s # n /\ tr.parent[s] = p
  BY <1>2, <1>a DEF SiblingOf
<1>4. /\ h[n] \in Nat /\ h[s] = h[n] + 1 /\ h[p] \in Nat
      /\ h[p] = h[s] + (IF tr.red[p] THEN 0 ELSE 1)
  BY <1>2, <1>a DEF SiblingOf
<1>5. /\ o \in Sides /\ o # d /\ \A e \in Sides : e = d \/ e = o
  BY TwoSides
<1>6. /\ C \in SUBSET Keys /\ ch \in [Keys -> [Sides -> Pointer]]
      /\ \A x \in C : x \in Keys /\ x \in Pointer /\ x # NULL
      /\ \A x \in C, e \in Sides : ch[x][e] \in Pointer
  BY ChildLinks
<1>7. g # p /\ g # s
  <2>1. Shape(tr.root, ch, tr.parent, C, lo, hi, M)
    BY DEF TreeShape
  <2>2. s # NULL
    BY <1>3, <1>6
  <2>. QED
    BY <1>1, <1>a, <2>1, <2>2, RotateNodes
<1>8. /\ g = NULL <=> p = tr.root
      /\ g # NULL => g \in C /\ ch[g][f] = p
      /\ f \in Sides /\ g \in C \cup {NULL}
  <2>1. (g = NULL <=> p = tr.root) /\ (p # tr.root => g \in C)
    BY <1>1, ChildLinks
  <2>2. p # tr.root => f \in Sides /\ ch[g][f] = p
    BY <1>1, SideOfIs
  <2>3. p = tr.root => f \in Sides
    BY DEF Sides
  <2> HIDE DEF f
  <2>. QED
    BY <2>1, <2>2, <2>3
<1> HIDE DEF o, f
<1>9. ASSUME NEW x \in C, NEW e \in Sides, ch[x][e] = p PROVE x = g /\ e = f
  <2>1. p # NULL
    BY <1>1, <1>6
  <2>2. x = g /\ p # tr.root
    BY <1>9, <2>1, ChildLinks
  <2>3. ch[g][f] = p /\ g \in C /\ f \in Sides
    BY <1>8, <2>2
  <2>. QED
    BY <1>9, <2>1, <2>2, <2>3, ChildLinks
<1>10. ASSUME NEW x \in C, NEW e \in Sides, ch[x][e] = s PROVE x = p
  <2>1. s # NULL
    BY <1>3, <1>6
  <2>. QED
    BY <1>3, <1>10, <2>1, ChildLinks
<1>11. /\ v.root = tr.root /\ v.child = ch /\ v.parent = tr.parent
       /\ \A m \in Keys : v.red[m] <=> m \in {s} \/ (tr.red[m] /\ m \notin {})
  BY <1>c DEF Recoloured
<1>12. v.red[s] /\ \A m \in C : m # s => (v.red[m] <=> tr.red[m])
  BY <1>3, <1>6, <1>11
<1>13. h \in [Pointer -> Nat] /\ h[NULL] = 0
  BY <1>1 DEF Heights
<1>14. /\ h2 \in [Pointer -> Nat] /\ h2[NULL] = 0
       /\ h2[p] = h[p] - 1 /\ h2[s] = h[s] - 1
       /\ \A x \in Pointer : x # p /\ x # s => h2[x] = h[x]
  <2>1. /\ NULL \in Pointer /\ p \in Pointer /\ s \in Pointer
        /\ p # NULL /\ s # NULL
    BY <1>1, <1>3, <1>6 DEF Pointer
  <2>2. h[p] - 1 \in Nat /\ h[s] - 1 \in Nat
    BY <1>4
  <2>3. \A x \in Pointer : h2[x] \in Nat
    BY <1>13, <2>2
  <2>. QED
    BY <1>13, <2>1, <2>2, <2>3
<1> HIDE DEF h2
<1>15. ASSUME NEW x \in C, NEW e \in Sides
       PROVE  h2[x] = h2[ch[x][e]] + (IF v.red[x] THEN 0 ELSE 1)
                                   + (IF x = g /\ e = f THEN 1 ELSE 0)
  <2>1. /\ h[x] \in Nat /\ h[ch[x][e]] \in Nat
        /\ ~(x = p /\ e = d) =>
             h[x] = h[ch[x][e]] + (IF tr.red[x] THEN 0 ELSE 1)
        /\ x = p /\ e = d => h[x] = h[ch[x][e]] + (IF tr.red[x] THEN 1 ELSE 2)
    <3>1. LinkHeight(tr, h, p, d, x, e)
      BY <1>1, HeightOf
    <3>. QED
      BY <3>1 DEF LinkHeight
  <2>2. x \in Pointer /\ ch[x][e] \in Pointer
    BY <1>6
  <2>3. CASE x = p /\ e = d
    <3>1. ch[x][e] = n /\ n # p
      BY <1>1, <1>7, <1>9, <2>3
    <3>2. h2[ch[x][e]] = h[ch[x][e]] /\ h2[x] = h[x] - 1
      BY <1>3, <1>14, <2>2, <2>3, <3>1
    <3>3. (v.red[x] <=> tr.red[x]) /\ x # g
      BY <1>3, <1>7, <1>12, <2>3
    <3>. QED
      BY <2>1, <2>3, <3>2, <3>3
  <2>4. CASE x = p /\ e = o
    <3>1. ch[x][e] = s
      BY <1>a, <2>4
    <3>2. h2[ch[x][e]] = h[ch[x][e]] - 1 /\ h2[x] = h[x] - 1
      BY <1>14, <2>4, <3>1
    <3>3. (v.red[x] <=> tr.red[x]) /\ x # g
      BY <1>3, <1>7, <1>12, <2>4
    <3>. QED
      BY <1>5, <2>1, <2>4, <3>2, <3>3
  <2>5. CASE x = s
    <3>1. ch[x][e] # p /\ ch[x][e] # s
      BY <1>3, <1>7, <1>9, <1>10, <2>5
    <3>2. h2[ch[x][e]] = h[ch[x][e]] /\ h2[x] = h[x] - 1
      BY <1>14, <2>2, <2>5, <3>1
    <3>3. v.red[x] /\ ~tr.red[x] /\ x # g /\ x # p
      BY <1>3, <1>7, <1>12, <1>a, <2>5
    <3>. QED
      BY <2>1, <3>2, <3>3
  <2>6. CASE x # p /\ x # s /\ x = g /\ e = f
    <3>1. ch[x][e] = p
      BY <1>6, <1>8, <2>6
    <3>2. h2[ch[x][e]] = h[ch[x][e]] - 1 /\ h2[x] = h[x]
      BY <1>14, <2>2, <2>6, <3>1
    <3>3. v.red[x] <=> tr.red[x]
      BY <1>12, <2>6
    <3>. QED
      BY <2>1, <2>6, <3>2, <3>3
  <2>7. CASE x # p /\ x # s /\ ~(x = g /\ e = f)
    <3>1. ch[x][e] # p /\ ch[x][e] # s
      BY <1>9, <1>10, <2>7
    <3>2. h2[ch[x][e]] = h[ch[x][e]] /\ h2[x] = h[x]
      BY <1>14, <2>2, <2>7, <3>1
    <3>3. v.red[x] <=> tr.red[x]
      BY <1>12, <2>7
    <3>. QED
      BY <2>1, <2>7, <3>2, <3>3
  <2>. QED
    BY <1>5, <2>3, <2>4, <2>5, <2>6, <2>7
<1>16. Heights(v.child, C, h2, Weight(v.red, g, f))
  <2>1. Level(ch, C, h2, v.red, g, f)
    BY <1>14, <1>15 DEF Level
  <2>2. Heights(ch, C, h2, Weight(v.red, g, f))
    BY <1>6, <2>1, HeightsIs
  <2>. QED
    BY <1>11, <2>2
<1>17. ASSUME NEW m \in C, v.red[m], m = v.root \/ v.red[v.parent[m]]
       PROVE  m = p \/ (m # v.root /\ v.parent[m] = p)
  <2>1. CASE m = s
    <3>1. p # NULL
      BY <1>1, <1>6
    <3>2. s # tr.root
      BY <1>3, <3>1, ChildLinks
    <3>. QED
      BY <1>3, <1>11, <2>1, <3>2
  <2>2. CASE m # s
    <3>1. tr.red[m]
      BY <1>12, <1>17, <2>2
    <3>2. m # tr.root /\ ~tr.red[tr.parent[m]]
      BY <1>1, <3>1 DEF Pairs
    <3>3. /\ tr.parent[m] \in C /\ v.red[tr.parent[m]] /\ m # NULL
          /\ \E e \in Sides : ch[tr.parent[m]][e] = m
      BY <1>11, <1>17, <3>2, ChildLinks
    <3>4. tr.parent[m] = s
      BY <1>12, <3>2, <3>3
    <3>. QED
      BY <1>b, <3>1, <3>3, <3>4 DEF IsBlack
  <2>. QED
    BY <2>1, <2>2
<1>18. Pairs(v, C, {m \in C : m = p \/ (m # v.root /\ v.parent[m] = p)})
  BY <1>17 DEF Pairs
<1>19. Erasing(v, C, h2, p, g, f)
  <2>1. p \in C \cup {NULL} /\ (g = NULL => p = v.root)
    BY <1>1, <1>8, <1>11
  <2>2. g # NULL => v.child[g][f] = p
    BY <1>8, <1>11
  <2>. QED
    BY <1>8, <1>16, <1>18, <2>1, <2>2 DEF Erasing
<1>. QED
  BY <1>19 DEF G

(* A node with at most one child is taken out: the balance is kept when it *)
(* is red, and its child is short of one when it is black.                 *)
LEMMA RemovedKeeps ==
  ASSUME NEW tr, NEW C, NEW lo, NEW hi, NEW M, TreeShape(tr, C, lo, hi, M),
         NEW h, NEW k \in C, NEW s \in Sides, NEW c, NEW p, NEW u
  PROVE  /\ Steady(tr, C, h) /\ p = tr.parent[k]
         /\ c = tr.child[k][s] /\ tr.child[k][Opposite(s)] = NULL
         /\ Removed(tr, k, c, u)
         => /\ tr.red[k] => Steady(u, C \ {k}, h)
            /\ ~tr.red[k] => Erasing(u, C \ {k}, h, c, p, Side(k, p))
<1> DEFINE ch == tr.child
           d == Side(k, p)
           D == C \ {k}
           G == /\ tr.red[k] => Steady(u, D, h)
                /\ ~tr.red[k] => Erasing(u, D, h, c, p, d)
<1>a. SUFFICES ASSUME Steady(tr, C, h), p = tr.parent[k]
               PROVE  /\ c = ch[k][s] /\ ch[k][Opposite(s)] = NULL
                      /\ Removed(tr, k, c, u)
                      => G
  OBVIOUS
<1>b. SUFFICES ASSUME c = ch[k][s], ch[k][Opposite(s)] = NULL
               PROVE  Removed(tr, k, c, u) => G
  OBVIOUS
<1>c. SUFFICES ASSUME Removed(tr, k, c, u)
               PROVE  G
  OBVIOUS
<1> HIDE DEF G
<1>1. /\ Heights(ch, C, h, Weight(tr.red, NULL, "left")) /\ Pairs(tr, C, {})
  BY <1>a DEF Steady
<1>2. /\ C \in SUBSET Keys /\ D \in SUBSET Keys
      /\ \A x \in C : x \in Keys /\ x \in Pointer /\ x # NULL
      /\ \A x \in C, e \in Sides : ch[x][e] \in Pointer
  BY ChildLinks
<1>3. d \in Sides /\ \A e \in Sides : e = s \/ e = Opposite(s)
  BY TwoSides DEF Side, Sides
<1>4. /\ p = NULL <=> k = tr.root
      /\ p # NULL => p \in C /\ p # k /\ ch[p][d] = k
  BY <1>a, ShapeLinks
<1>5. c # NULL => c \in C /\ tr.parent[c] = k /\ c # k /\ c # tr.root
  BY <1>b, ChildLinks
<1>6. ASSUME NEW x \in C, NEW e \in Sides, ch[x][e] = k PROVE x = p /\ e = d
  <2>1. k # NULL
    BY <1>2
  <2>. QED
    BY <1>6, <1>a, <2>1, ShapeLinks
<1> HIDE DEF d, D
<1>7. /\ u \in Tree
      /\ u.root = IF p = NULL THEN c ELSE tr.root
      /\ \A x \in Keys, e \in Sides :
           u.child[x][e] = IF x = k THEN NULL
                           ELSE IF x = p /\ ch[p][e] = k THEN c
                           ELSE ch[x][e]
      /\ \A x \in Keys : u.parent[x] = IF x = k THEN NULL
                                       ELSE IF x = c THEN p ELSE tr.parent[x]
  BY <1>a, <1>c DEF Removed
<1>8. \A x \in D : x \in C /\ x \in Keys /\ x # k /\ x # NULL
  BY <1>2 DEF D
<1>9. \A x \in D : u.red[x] <=> tr.red[x]
  <2>1. \A x \in Keys : u.red[x] = IF x = k THEN FALSE ELSE tr.red[x]
    BY <1>c DEF Removed
  <2>. QED
    BY <1>8, <2>1
<1>10. h \in [Pointer -> Nat] /\ h[NULL] = 0
  BY <1>1 DEF Heights
<1>11. /\ h[k] \in Nat /\ h[c] \in Nat
       /\ h[k] = h[c] + (IF tr.red[k] THEN 0 ELSE 1)
  BY <1>1, <1>b, HeightNone
<1>12. ASSUME NEW x \in D, NEW e \in Sides
       PROVE  /\ h[u.child[x][e]] \in Nat
              /\ ~(x = p /\ e = d) =>
                   h[x] = h[u.child[x][e]] + (IF u.red[x] THEN 0 ELSE 1)
              /\ x = p /\ e = d =>
                   h[x] = h[u.child[x][e]] + (IF u.red[x] THEN 0 ELSE 1)
                                           + (IF tr.red[k] THEN 0 ELSE 1)
  <2>1. x \in C /\ x \in Keys /\ x # k /\ (u.red[x] <=> tr.red[x])
    BY <1>8, <1>9
  <2>2. /\ h[x] \in Nat /\ h[ch[x][e]] \in Nat
        /\ h[x] = h[ch[x][e]] + (IF tr.red[x] THEN 0 ELSE 1)
    BY <1>1, <2>1, HeightNone
  <2>3. CASE x = p /\ e = d
    <3>1. ch[x][e] = k /\ u.child[x][e] = c
      BY <1>2, <1>4, <1>7, <2>1, <2>3
    <3>. QED
      BY <1>11, <2>1, <2>2, <2>3, <3>1
  <2>4. CASE ~(x = p /\ e = d)
    <3>1. ch[x][e] # k
      BY <1>6, <2>1, <2>4
    <3>2. u.child[x][e] = ch[x][e]
      BY <1>7, <2>1, <3>1
    <3>. QED
      BY <2>1, <2>2, <2>4, <3>2
  <2>. QED
    BY <2>3, <2>4
<1>13. u.child \in [Keys -> [Sides -> Pointer]]
  BY <1>7 DEF Tree
<1>14. ASSUME NEW m \in D, u.red[m], m = u.root \/ u.red[u.parent[m]], m # c
       PROVE  FALSE
  <2>1. m \in C /\ m \in Keys /\ m # k /\ tr.red[m]
    BY <1>8, <1>9, <1>14
  <2>2. m # tr.root /\ ~tr.red[tr.parent[m]]
    BY <1>1, <2>1 DEF Pairs
  <2>3. u.parent[m] = tr.parent[m] /\ m # u.root
    BY <1>7, <1>14, <2>1, <2>2
  <2>4. /\ tr.parent[m] \in C /\ m # NULL
        /\ \E e \in Sides : ch[tr.parent[m]][e] = m
    BY <2>1, <2>2, ChildLinks
  <2>5. tr.parent[m] # k
    BY <1>3, <1>14, <1>b, <2>4
  <2>6. tr.parent[m] \in D
    BY <2>4, <2>5 DEF D
  <2>. QED
    BY <1>9, <1>14, <2>2, <2>3, <2>6
<1>15. ASSUME tr.red[k] PROVE Steady(u, D, h)
  <2>1. Even(u.child, D, h, u.red)
    <3>1. ASSUME NEW x \in D, NEW e \in Sides
          PROVE  h[x] = h[u.child[x][e]] + (IF u.red[x] THEN 0 ELSE 1)
      BY <1>12, <1>15
    <3>. QED
      BY <1>10, <3>1 DEF Even
  <2>2. Heights(u.child, D, h, Weight(u.red, NULL, "left"))
    BY <1>2, <1>13, <2>1, HeightsNone
  <2>3. c # NULL => ~tr.red[c]
    BY <1>1, <1>15, <1>5 DEF Pairs
  <2>4. \A m \in D : m = c => ~u.red[m]
    BY <1>8, <1>9, <2>3
  <2>5. Pairs(u, D, {})
    BY <1>14, <2>4 DEF Pairs
  <2>. QED
    BY <2>2, <2>5 DEF Steady
<1>16. ASSUME ~tr.red[k] PROVE Erasing(u, D, h, c, p, d)
  <2>1. Level(u.child, D, h, u.red, p, d)
    <3>1. ASSUME NEW x \in D, NEW e \in Sides
          PROVE  h[x] = h[u.child[x][e]] + (IF u.red[x] THEN 0 ELSE 1)
                                         + (IF x = p /\ e = d THEN 1 ELSE 0)
      BY <1>12, <1>16
    <3>. QED
      BY <1>10, <3>1 DEF Level
  <2>2. Heights(u.child, D, h, Weight(u.red, p, d))
    BY <1>2, <1>13, <2>1, HeightsIs
  <2>3. Pairs(u, D, {m \in D : m = c \/ (m # u.root /\ u.parent[m] = c)})
    BY <1>14 DEF Pairs
  <2>4. c \in D \cup {NULL} /\ p \in D \cup {NULL}
    BY <1>4, <1>5 DEF D
  <2>5. p = NULL => c = u.root
    BY <1>7
  <2>6. p # NULL => u.child[p][d] = c
    BY <1>2, <1>3, <1>4, <1>7
  <2>. QED
    BY <1>3, <2>2, <2>3, <2>4, <2>5, <2>6 DEF Erasing
<1>. QED
  BY <1>15, <1>16 DEF G, D, d

(* One node takes the place of another: every node y has that of Turn(y).  *)
Turn(v, new, x) == IF x = v THEN new ELSE x
SamePlaces(tr, C, v, new, u, D) ==
  /\ u.root = Turn(v, new, tr.root)
  /\ \A y \in D :
       LET m == Turn(new, v, y)
       IN /\ m \in C /\ y = Turn(v, new, m)
          /\ u.red[y] <=> tr.red[m]
          /\ u.parent[y] = Turn(v, new, tr.parent[m])
          /\ \A e \in Sides : u.child[y][e] = Turn(v, new, tr.child[m][e])
  /\ \A x \in C \cup {NULL} :
       Turn(v, new, x) \in D \cup {NULL} /\ Turn(new, v, Turn(v, new, x)) = x
  /\ \A x \in C : Turn(v, new, x) \in D
  /\ Turn(v, new, NULL) = NULL

(* Renamed nodes are such.                                                 *)
LEMMA RenamedPlaces ==
  ASSUME NEW tr, NEW C, NEW lo, NEW hi, NEW M, TreeShape(tr, C, lo, hi, M),
         NEW v \in C, NEW new \in Keys, new \notin C, NEW u,
         Renamed(tr, v, new, u)
  PROVE  SamePlaces(tr, C, v, new, u, (C \ {v}) \cup {new})
<1> DEFINE ch == tr.child
           q == tr.parent[v]
           D == (C \ {v}) \cup {new}
<1>1. /\ u.root = IF q = NULL THEN new ELSE tr.root
      /\ \A x \in Keys, e \in Sides :
           u.child[x][e] = IF x = v THEN NULL
                           ELSE IF x = new THEN ch[v][e]
                           ELSE IF x = q /\ ch[q][e] = v THEN new
                           ELSE ch[x][e]
      /\ \A x \in Keys :
           u.parent[x] = IF x = v THEN NULL ELSE IF x = new THEN q
                         ELSE IF \E e \in Sides : x = ch[v][e] THEN new
                         ELSE tr.parent[x]
  BY DEF Renamed
<1>2. \A x \in Keys : u.red[x] = IF x = v THEN FALSE
                                 ELSE IF x = new THEN tr.red[v] ELSE tr.red[x]
  BY Zenon DEF Renamed
<1>3. /\ \A x \in C : x \in Keys /\ x # NULL
      /\ \A x \in C, e \in Sides : ch[x][e] # NULL =>
           tr.parent[ch[x][e]] = x /\ ch[x][e] # x
      /\ \A x \in C : x # tr.root =>
           tr.parent[x] # x /\ \E e \in Sides : ch[tr.parent[x]][e] = x
      /\ \A x \in C : tr.parent[x] = NULL <=> x = tr.root
  BY ChildLinks
<1>4. v # new /\ v # NULL /\ new # NULL
  BY <1>3, KeysNat
<1>5. q # v
  BY <1>3, <1>4
<1>6. u.root = Turn(v, new, tr.root)
  BY <1>1, <1>3 DEF Turn
<1>7. ASSUME NEW y \in D
      PROVE  LET m == Turn(new, v, y)
             IN /\ m \in C /\ y = Turn(v, new, m)
                /\ u.red[y] <=> tr.red[m]
                /\ u.parent[y] = Turn(v, new, tr.parent[m])
                /\ \A e \in Sides : u.child[y][e] = Turn(v, new, tr.child[m][e])
  <2> DEFINE m == Turn(new, v, y)
  <2>1. CASE y = new
    <3>1. m = v /\ y = Turn(v, new, m)
      BY <2>1 DEF Turn
    <3>2. u.red[y] <=> tr.red[m]
      BY <1>2, <1>4, <2>1, <3>1
    <3>3. u.parent[y] = Turn(v, new, tr.parent[m])
      BY <1>1, <1>4, <1>5, <2>1, <3>1 DEF Turn
    <3>4. \A e \in Sides : ch[v][e] # v
      BY <1>3, <1>4
    <3>5. \A e \in Sides : u.child[y][e] = Turn(v, new, ch[m][e])
      BY <1>1, <1>4, <2>1, <3>1, <3>4 DEF Turn
    <3>. QED
      BY <3>1, <3>2, <3>3, <3>5
  <2>2. CASE y # new
    <3>1. m = y /\ y \in C /\ y # v /\ y \in Keys /\ y = Turn(v, new, m)
      BY <1>3, <2>2 DEF Turn
    <3>2. u.red[y] <=> tr.red[m]
      BY <1>2, <2>2, <3>1
    <3>3. (\E e \in Sides : y = ch[v][e]) <=> tr.parent[y] = v
      BY <1>3, <1>4, <3>1
    <3>4. u.parent[y] = Turn(v, new, tr.parent[m])
      BY <1>1, <2>2, <3>1, <3>3 DEF Turn
    <3>5. \A e \in Sides : ch[y][e] = v => y = q
      BY <1>3, <1>4, <3>1
    <3>6. \A e \in Sides : u.child[y][e] = Turn(v, new, ch[m][e])
      BY <1>1, <2>2, <3>1, <3>5 DEF Turn
    <3>. QED
      BY <3>1, <3>2, <3>4, <3>6
  <2>. QED
    BY <2>1, <2>2
<1>8. ASSUME NEW x \in C \cup {NULL}
      PROVE  /\ Turn(v, new, x) \in D \cup {NULL}
             /\ Turn(new, v, Turn(v, new, x)) = x
  <2>1. x # new
    BY <1>4
  <2>. QED
    BY <2>1 DEF Turn
<1>9. (\A x \in C : Turn(v, new, x) \in D) /\ Turn(v, new, NULL) = NULL
  BY <1>4 DEF Turn
<1>. QED
  BY <1>6, <1>7, <1>8, <1>9 DEF SamePlaces

(* The heights are those of the places.                                    *)
LEMMA RenamedHeights ==
  ASSUME NEW tr, NEW C, NEW lo, NEW hi, NEW M, TreeShape(tr, C, lo, hi, M),
         NEW v \in C, NEW new \in Keys, new \notin C, NEW u, NEW D,
         NEW h, NEW p \in C \cup {NULL}, NEW d
  PROVE  /\ u \in Tree /\ D = (C \ {v}) \cup {new}
         /\ SamePlaces(tr, C, v, new, u, D)
         /\ Heights(tr.child, C, h, Weight(tr.red, p, d))
         => \E h2 : Heights(u.child, D, h2, Weight(u.red, Turn(v, new, p), d))
<1> DEFINE ch == tr.child
           f(x) == Turn(v, new, x)
           h2 == [x \in Pointer |-> IF x = new THEN h[v] ELSE h[x]]
           G == \E z : Heights(u.child, D, z, Weight(u.red, f(p), d))
<1>a. SUFFICES ASSUME u \in Tree, D = (C \ {v}) \cup {new},
                      SamePlaces(tr, C, v, new, u, D),
                      Heights(ch, C, h, Weight(tr.red, p, d))
               PROVE  G
  OBVIOUS
<1> HIDE DEF G
<1>1. /\ C \in SUBSET Keys /\ ch \in [Keys -> [Sides -> Pointer]]
      /\ \A x \in C : x \in Keys /\ x \in Pointer /\ x # NULL
      /\ \A x \in C, e \in Sides : ch[x][e] \in C \cup {NULL}
  <2>1. \A x \in C, e \in Sides : ch[x][e] # NULL => ch[x][e] \in C
    BY ChildLinks
  <2>2. /\ C \in SUBSET Keys /\ ch \in [Keys -> [Sides -> Pointer]]
        /\ \A x \in C : x \in Keys /\ x \in Pointer /\ x # NULL
    BY ChildLinks
  <2>. QED
    BY <2>1, <2>2
<1>2. D \in SUBSET Keys /\ u.child \in [Keys -> [Sides -> Pointer]]
  BY <1>1, <1>a DEF Tree
<1>3. Level(ch, C, h, tr.red, p, d)
  BY <1>1, <1>a, HeightsIs
<1>4. /\ h \in [Pointer -> Nat] /\ h[NULL] = 0
      /\ \A x \in C, e \in Sides :
           h[x] = h[ch[x][e]] + (IF tr.red[x] THEN 0 ELSE 1)
                              + (IF x = p /\ e = d THEN 1 ELSE 0)
  BY <1>3 DEF Level
<1>5. /\ NULL \in Pointer /\ v \in Pointer /\ new \in Pointer
      /\ NULL # new /\ v # new
  BY <1>1, KeysNat DEF Pointer
<1>6. /\ h2 \in [Pointer -> Nat] /\ h2[NULL] = 0 /\ h2[new] = h[v]
      /\ \A x \in Pointer : x # new => h2[x] = h[x]
  BY <1>4, <1>5
<1> HIDE DEF h2
<1>7. \A x \in C \cup {NULL} : h2[f(x)] = h[x]
  <2>1. \A x \in C \cup {NULL} : x \in Pointer /\ x # new
    BY <1>1, <1>5
  <2>. QED
    BY <1>6, <2>1 DEF Turn
<1>8. ASSUME NEW y \in D, NEW e \in Sides
      PROVE  h2[y] = h2[u.child[y][e]] + (IF u.red[y] THEN 0 ELSE 1)
                                       + (IF y = f(p) /\ e = d THEN 1 ELSE 0)
  <2> DEFINE m == Turn(new, v, y)
  <2>1. /\ m \in C /\ y = f(m) /\ (u.red[y] <=> tr.red[m])
        /\ u.child[y][e] = f(ch[m][e])
    BY <1>a DEF SamePlaces
  <2>2. Turn(new, v, f(p)) = p
    BY <1>a DEF SamePlaces
  <2>3. y = f(p) <=> m = p
    BY <2>1, <2>2
  <2> HIDE DEF m, f
  <2>4. ch[m][e] \in C \cup {NULL} /\ m \in C \cup {NULL}
    BY <1>1, <2>1
  <2>5. h2[y] = h[m]
    BY <1>7, <2>1, <2>4
  <2>6. h2[u.child[y][e]] = h[ch[m][e]]
    BY <1>7, <2>1, <2>4
  <2>7. h[m] = h[ch[m][e]] + (IF tr.red[m] THEN 0 ELSE 1)
                           + (IF m = p /\ e = d THEN 1 ELSE 0)
    BY <1>4, <2>1
  <2>. QED
    BY <2>1, <2>3, <2>5, <2>6, <2>7
<1> HIDE DEF f
<1>9. Level(u.child, D, h2, u.red, f(p), d)
  BY <1>6, <1>8 DEF Level
<1>10. Heights(u.child, D, h2, Weight(u.red, f(p), d))
  BY <1>2, <1>9, HeightsIs
<1>. QED
  BY <1>10 DEF G

(* And so are the red nodes that have a red parent.                        *)
LEMMA RenamedPairs ==
  ASSUME NEW tr, NEW C, NEW lo, NEW hi, NEW M, TreeShape(tr, C, lo, hi, M),
         NEW v, NEW new, NEW u, NEW D, SamePlaces(tr, C, v, new, u, D),
         NEW X, Pairs(tr, C, X),
         NEW y \in D, u.red[y], y = u.root \/ u.red[u.parent[y]]
  PROVE  Turn(new, v, y) \in X
<1> DEFINE f(x) == Turn(v, new, x)
           b(x) == Turn(new, v, x)
           m == b(y)
<1>1. /\ m \in C /\ y = f(m) /\ tr.red[m]
      /\ u.parent[y] = f(tr.parent[m]) /\ u.root = f(tr.root)
  BY DEF SamePlaces
<1>2. tr.root \in C \cup {NULL}
  BY ShapeLinks
<1>3. \A x \in C \cup {NULL} : b(f(x)) = x
  BY DEF SamePlaces
<1>4. \A x \in C : f(x) \in D /\ (u.red[f(x)] <=> tr.red[b(f(x))])
  BY DEF SamePlaces
<1> HIDE DEF f, b
<1>5. m = tr.root \/ tr.red[tr.parent[m]]
  <2>1. SUFFICES ASSUME m # tr.root PROVE tr.red[tr.parent[m]]
    OBVIOUS
  <2>2. y # u.root
    BY <1>1, <1>2, <1>3, <2>1
  <2>3. u.red[f(tr.parent[m])]
    BY <1>1, <2>2
  <2>4. tr.parent[m] \in C
    BY <1>1, <2>1, ChildLinks
  <2>. QED
    BY <1>3, <1>4, <2>3, <2>4
<1>6. m \in X
  BY <1>1, <1>5 DEF Pairs
<1>. QED
  BY <1>6 DEF b

(* So the balance is what it was.                                          *)
LEMMA RenamedKeeps ==
  ASSUME NEW tr, NEW C, NEW lo, NEW hi, NEW M, TreeShape(tr, C, lo, hi, M),
         NEW v \in C, NEW new \in Keys, new \notin C, NEW u,
         Renamed(tr, v, new, u), NEW h
  PROVE  LET D == (C \ {v}) \cup {new}
         IN /\ Steady(tr, C, h) => \E h2 : Steady(u, D, h2)
            /\ \A n, p, d : Erasing(tr, C, h, n, p, d) =>
                 \E h2 : Erasing(u, D, h2, Turn(v, new, n), Turn(v, new, p), d)
<1> DEFINE D == (C \ {v}) \cup {new}
           f(x) == Turn(v, new, x)
<1>1. SamePlaces(tr, C, v, new, u, D)
  BY RenamedPlaces
<1>2. u \in Tree
  BY DEF Renamed
<1>3. D = (C \ {v}) \cup {new}
  OBVIOUS
<1> HIDE DEF D
<1>4. ASSUME Steady(tr, C, h) PROVE \E h2 : Steady(u, D, h2)
  <2>1. Heights(tr.child, C, h, Weight(tr.red, NULL, "left")) /\ Pairs(tr, C, {})
    BY <1>4 DEF Steady
  <2>2. Turn(v, new, NULL) = NULL /\ NULL \in C \cup {NULL}
    BY <1>1 DEF SamePlaces
  <2>3. \E h2 : Heights(u.child, D, h2, Weight(u.red, Turn(v, new, NULL), "left"))
    BY <1>1, <1>2, <1>3, <2>1, <2>2, RenamedHeights
  <2>4. \E h2 : Heights(u.child, D, h2, Weight(u.red, NULL, "left"))
    BY <2>2, <2>3
  <2>5. ASSUME NEW y \in D, u.red[y], y = u.root \/ u.red[u.parent[y]]
        PROVE  y \in {}
    <3>1. Turn(new, v, y) \in {}
      BY <1>1, <2>1, <2>5, RenamedPairs
    <3>. QED
      BY <3>1
  <2>6. Pairs(u, D, {})
    BY <2>5 DEF Pairs
  <2>. QED
    BY <2>4, <2>6 DEF Steady
<1>5. ASSUME NEW n, NEW p, NEW d, Erasing(tr, C, h, n, p, d)
      PROVE  \E h2 : Erasing(u, D, h2, f(n), f(p), d)
  <2> DEFINE X == {m \in C : m = n \/ (m # tr.root /\ tr.parent[m] = n)}
             Y == {m \in D : m = f(n) \/ (m # u.root /\ u.parent[m] = f(n))}
  <2>1. /\ n \in C \cup {NULL} /\ p \in C \cup {NULL} /\ d \in Sides
        /\ p = NULL => n = tr.root
        /\ p # NULL => tr.child[p][d] = n
        /\ Heights(tr.child, C, h, Weight(tr.red, p, d))
        /\ Pairs(tr, C, X)
    BY <1>5 DEF Erasing
  <2>2. \E h2 : Heights(u.child, D, h2, Weight(u.red, f(p), d))
    BY <1>1, <1>2, <1>3, <2>1, RenamedHeights
  <2>3. ASSUME NEW y \in D, u.red[y], y = u.root \/ u.red[u.parent[y]]
        PROVE  y \in Y
    <3> DEFINE m == Turn(new, v, y)
    <3> HIDE DEF X, Y
    <3>1. m \in X
      BY <1>1, <2>1, <2>3, RenamedPairs
    <3>2. /\ y = f(m) /\ u.parent[y] = f(tr.parent[m]) /\ u.root = f(tr.root)
      BY <1>1 DEF SamePlaces
    <3>3. \A x \in C \cup {NULL} : Turn(new, v, f(x)) = x
      BY <1>1 DEF SamePlaces
    <3>4. m \in C /\ (m = n \/ (m # tr.root /\ tr.parent[m] = n))
      BY <3>1 DEF X
    <3>5. tr.root \in C \cup {NULL}
      BY ShapeLinks
    <3> HIDE DEF m, f
    <3>6. CASE m = n
      BY <3>2, <3>6 DEF Y
    <3>7. CASE m # tr.root /\ tr.parent[m] = n
      <4>1. y # u.root
        BY <3>2, <3>3, <3>4, <3>5, <3>7
      <4>. QED
        BY <3>2, <3>7, <4>1 DEF Y
    <3>. QED
      BY <3>4, <3>6, <3>7
  <2> HIDE DEF X
  <2>4. Pairs(u, D, Y)
    BY <2>3 DEF Pairs
  <2>5. f(n) \in D \cup {NULL} /\ f(p) \in D \cup {NULL}
    BY <1>1, <2>1 DEF SamePlaces
  <2>6. f(p) = NULL => f(n) = u.root
    <3>1. f(NULL) = NULL /\ u.root = f(tr.root)
      BY <1>1 DEF SamePlaces
    <3>2. f(p) = NULL => p = NULL
      BY <2>1, ChildLinks, KeysNat DEF Turn
    <3>. QED
      BY <2>1, <3>1, <3>2
  <2>7. f(p) # NULL => u.child[f(p)][d] = f(n)
    <3>1. SUFFICES ASSUME f(p) # NULL PROVE u.child[f(p)][d] = f(n)
      OBVIOUS
    <3>2. p # NULL /\ p \in C
      BY <1>1, <2>1, <3>1 DEF SamePlaces
    <3>3. f(p) \in D /\ Turn(new, v, f(p)) = p
      BY <1>1, <3>2 DEF SamePlaces
    <3>4. \A y \in D, e \in Sides :
            u.child[y][e] = f(tr.child[Turn(new, v, y)][e])
      BY <1>1 DEF SamePlaces
    <3> HIDE DEF f
    <3>. QED
      BY <2>1, <3>2, <3>3, <3>4
  <2> HIDE DEF f
  <2>. QED
    BY <2>1, <2>2, <2>4, <2>5, <2>6, <2>7 DEF Erasing, Y
<1>. QED
  BY <1>4, <1>5 DEF D

-----------------------------------------------------------------------------
(* The invariant: the links are those of a tree with nodes C, and its      *)
(* balance is right but for what the call that is running has to repair.   *)

Shaped(tr, C) == \E lo, hi, M : TreeShape(tr, C, lo, hi, M)
Balanced(tr, C, c, n, p) ==
  \/ c = "idle" /\ n = NULL /\ p = NULL /\ \E h : Steady(tr, C, h)
  \/ c = "rb_insert_color" /\ p = NULL /\ \E h : Inserting(tr, C, h, n)
  \/ c = "rb_erase_color" /\ \E h, d : Erasing(tr, C, h, n, p, d)
Sound(tr, C, c, n, p) == Shaped(tr, C) /\ Balanced(tr, C, c, n, p)
IInv == \E C : Sound(t, C, pc, node, parent)

(* Keys are bounded.                                                       *)
LEMMA KeysBounded == \E M \in Nat : \A k \in Keys : k < M
<1> DEFINE Bad == {T \in SUBSET Keys : ~\E M \in Nat : \A k \in T : k < M}
           W == {Cardinality(T) : T \in Bad}
<1>1. SUFFICES ASSUME Bad # {} PROVE FALSE
  <2>1. Keys \in SUBSET Keys
    OBVIOUS
  <2>. QED
    BY <2>1
<1>2. \A T \in Bad : IsFiniteSet(T) /\ Cardinality(T) \in Nat
  BY KeysAssumption, FS_Subset, FS_CardinalityType
<1>3. W \in SUBSET Nat /\ W # {}
  <2> HIDE DEF Bad
  <2>. QED
    BY <1>1, <1>2
<1>4. PICK m \in W : \A n \in W : m <= n
  BY <1>3, LeastExists
<1>5. PICK T \in Bad : m = Cardinality(T)
  BY <1>4
<1>6. T \in SUBSET Keys /\ ~\E M \in Nat : \A k \in T : k < M
  BY <1>5
<1>7. T # {}
  <2>1. SUFFICES ASSUME T = {} PROVE FALSE
    OBVIOUS
  <2>2. 0 \in Nat /\ \A k \in T : k < 0
    BY <2>1
  <2>. QED
    BY <1>6, <2>2
<1>8. PICK x \in T : TRUE
  BY <1>7
<1>9. x \in Nat /\ \A k \in T : k \in Nat
  BY <1>6, <1>8, KeysNat
<1>10. T \ {x} \notin Bad
  <2>1. Cardinality(T \ {x}) = Cardinality(T) - 1
    BY <1>2, <1>5, <1>8, FS_RemoveElement
  <2>2. SUFFICES ASSUME T \ {x} \in Bad PROVE FALSE
    OBVIOUS
  <2>3. Cardinality(T \ {x}) \in W
    BY <2>2
  <2>4. m <= Cardinality(T \ {x}) /\ m \in Nat
    BY <1>3, <1>4, <2>3
  <2> HIDE DEF W, Bad
  <2>. QED
    BY <1>5, <2>1, <2>4
<1>11. PICK M \in Nat : \A k \in T \ {x} : k < M
  BY <1>6, <1>10
<1> DEFINE N == IF x < M THEN M ELSE x + 1
<1>12. N \in Nat /\ M <= N /\ x < N
  BY <1>9
<1> HIDE DEF N
<1>13. \A k \in T : k < N
  BY <1>9, <1>11, <1>12
<1>. QED
  BY <1>6, <1>12, <1>13

(* The empty tree.                                                         *)
LEMMA InitSound ==
  ASSUME Init
  PROVE  Sound(t, {}, pc, node, parent)
<1>1. PICK M \in Nat : \A k \in Keys : k < M
  BY KeysBounded
<1> DEFINE z == [k \in Keys |-> 0]
           h == [x \in Pointer |-> 0]
<1>2. /\ t \in Tree /\ t.root = NULL /\ pc = "idle" /\ node = NULL
      /\ parent = NULL
      /\ \A k \in Keys : t.parent[k] = NULL /\ \A d \in Sides : t.child[k][d] = NULL
  BY DEF Init, Tree, NoChildren, Pointer
<1>3. z \in [Keys -> 0..M]
  OBVIOUS
<1>4. TreeShape(t, {}, z, z, M)
  <2> HIDE DEF z
  <2>1. /\ t.child \in [Keys -> [Sides -> Pointer]]
        /\ t.parent \in [Keys -> Pointer]
    BY <1>2 DEF Tree
  <2>2. Links(t.root, t.child, t.parent, {})
    BY <1>2, <2>1 DEF Links
  <2>3. Ranges(t.root, t.child, {}, z, z, M)
    BY <1>1, <1>2, <1>3 DEF Ranges
  <2>. QED
    BY <1>2, <2>2, <2>3 DEF TreeShape, Shape
<1>5. Steady(t, {}, h)
  <2>1. h \in [Pointer -> Nat] /\ h[NULL] = 0
    BY DEF Pointer
  <2> HIDE DEF h
  <2>. QED
    BY <2>1 DEF Steady, Heights, Pairs
<1>. QED
  BY <1>2, <1>4, <1>5 DEF Sound, Shaped, Balanced

(* An insertion links the node where the search ended.                     *)
LEMMA InsertStep ==
  ASSUME NEW C, Sound(t, C, pc, node, parent), NEW k \in Keys, my_insert(k)
  PROVE  k \notin C /\ Sound(t', C \cup {k}, pc', node', parent')
<1> DEFINE p == Descend(t, k)[1]
           d == Descend(t, k)[2]
           u == rb_link_node(t, k, p, d)
<1>1. /\ pc = "idle" /\ p # k /\ t' = u /\ node' = k
      /\ pc' = "rb_insert_color" /\ parent' = parent
  BY DEF my_insert
<1>2. PICK lo, hi, M : TreeShape(t, C, lo, hi, M)
  BY DEF Sound, Shaped
<1>3. parent = NULL /\ \E h : Steady(t, C, h)
  BY <1>1 DEF Sound, Balanced
<1>4. PICK h : Steady(t, C, h)
  BY <1>3
<1>5. /\ t.root = NULL => p = NULL /\ d = "left"
      /\ t.root # NULL =>
           /\ p \in C /\ d = Side(k, p) /\ Within(lo, hi, p, k)
           /\ p = k \/ t.child[p][d] = NULL
      /\ p = k <=> k \in C
  <2>1. /\ t.root = NULL => Descend(t, k) = <<NULL, "left">>
        /\ t.root # NULL =>
             /\ p \in C /\ d = Side(k, p) /\ Within(lo, hi, p, k)
             /\ p = k \/ t.child[p][d] = NULL
        /\ p = k <=> k \in C
    BY <1>2, DescendIs
  <2>2. t.root = NULL => p = NULL /\ d = "left"
    BY <2>1
  <2>. QED
    BY <2>1, <2>2
<1> HIDE DEF p, d
<1>6. k \notin C
  BY <1>1, <1>5
<1>7. t \in Tree /\ C \in SUBSET Keys
  BY <1>2, ChildLinks
<1>8. d \in Sides /\ p \in Pointer
  BY <1>5, <1>7 DEF Side, Sides, Pointer
<1>9. Linked(t, k, p, d, u)
  BY <1>1, <1>7, <1>8, LinkIs
<1> HIDE DEF u
<1>10. \/ p = NULL /\ t.root = NULL
       \/ /\ p \in C /\ d = Side(k, p) /\ Within(lo, hi, p, k)
          /\ t.child[p][d] = NULL
  BY <1>1, <1>5
<1>11. \E lo2, hi2 : TreeShape(u, C \cup {k}, lo2, hi2, M)
  BY <1>2, <1>6, <1>8, <1>9, <1>10, LinkedShape
<1>12. Inserting(u, C \cup {k}, [h EXCEPT ![k] = 0], k)
  BY <1>2, <1>4, <1>6, <1>8, <1>9, <1>10, LinkedInserting
<1>13. Shaped(u, C \cup {k})
  BY <1>11 DEF Shaped
<1>14. Balanced(u, C \cup {k}, "rb_insert_color", k, NULL)
  BY <1>12 DEF Balanced
<1>. QED
  BY <1>1, <1>3, <1>6, <1>13, <1>14 DEF Sound

(* What the three steps of rb_insert_color start from.                     *)
LEMMA InsertingNow ==
  ASSUME NEW C, Sound(t, C, pc, node, parent), pc = "rb_insert_color"
  PROVE  /\ parent = NULL
         /\ \E lo, hi, M, h : TreeShape(t, C, lo, hi, M)
                              /\ Inserting(t, C, h, node)
BY DEF Sound, Shaped, Balanced

(* And where they end.                                                     *)
LEMMA InsertingThen ==
  ASSUME NEW C, NEW u, NEW n, NEW lo, NEW hi, NEW M, NEW h,
         TreeShape(u, C, lo, hi, M), Inserting(u, C, h, n)
  PROVE  Sound(u, C, "rb_insert_color", n, NULL)
BY DEF Sound, Shaped, Balanced

LoopNodes(tr, C, n, p, g, d) ==
  /\ n \in C /\ p \in C /\ g \in C /\ n # p /\ g # n /\ g # p
  /\ p # tr.root /\ n # tr.root /\ d \in Sides /\ tr.child[g][d] = p
  /\ p # NULL /\ g # NULL /\ tr.child[g][Opposite(d)] # p
  /\ tr.child[p][Opposite(d)] # n => tr.child[p][d] = n

(* The nodes the loop looks at.                                            *)
LEMMA LoopNodesAre ==
  ASSUME NEW tr, NEW C, NEW lo, NEW hi, NEW M, TreeShape(tr, C, lo, hi, M),
         NEW h, NEW n, NEW p, NEW g, NEW d
  PROVE  /\ Inserting(tr, C, h, n)
         /\ p = tr.parent[n] /\ g = tr.parent[p] /\ p # NULL /\ tr.red[p]
         /\ d = SideOf(tr, p)
         => LoopNodes(tr, C, n, p, g, d)
<1>a. SUFFICES ASSUME Inserting(tr, C, h, n), p = tr.parent[n],
                      g = tr.parent[p], p # NULL, tr.red[p], d = SideOf(tr, p)
               PROVE  LoopNodes(tr, C, n, p, g, d)
  OBVIOUS
<1>1. /\ n \in C /\ p \in C /\ g \in C /\ n # p /\ g # n /\ g # p
      /\ p # tr.root /\ n # tr.root
  BY <1>a, InsertNodes
<1>2. d \in Sides /\ tr.child[g][d] = p /\ tr.child[g][Opposite(d)] # p
  BY <1>1, <1>a, SideOfIs
<1>3. /\ g # NULL /\ \E e \in Sides : tr.child[p][e] = n
  BY <1>1, <1>a, ChildLinks
<1>4. \A e \in Sides : e = d \/ e = Opposite(d)
  BY <1>2, TwoSides
<1>5. tr.child[p][Opposite(d)] # n => tr.child[p][d] = n
  BY <1>3, <1>4
<1>. QED
  BY <1>1, <1>2, <1>3, <1>5, <1>a DEF LoopNodes

(* A red uncle.                                                            *)
LEMMA InsertRecolourStep ==
  ASSUME NEW C, Sound(t, C, pc, node, parent), InsertRecolour
  PROVE  Sound(t', C, pc', node', parent')
<1> DEFINE p == t.parent[node]
           g == t.parent[p]
           d == SideOf(t, p)
           w == t.child[g][Opposite(d)]
           u == Recolour(t, {g}, {w, p})
<1>1. /\ pc = "rb_insert_color" /\ pc' = pc /\ parent' = parent
      /\ p # NULL /\ t.red[p] /\ ~IsBlack(t, w) /\ node' = g /\ t' = u
  BY DEF InsertRecolour, InsertLoop, Gparent, Uncle
<1>2. /\ parent = NULL
      /\ \E lo, hi, M, h : TreeShape(t, C, lo, hi, M)
                           /\ Inserting(t, C, h, node)
  BY <1>1, InsertingNow
<1>3. PICK lo, hi, M, h : TreeShape(t, C, lo, hi, M) /\ Inserting(t, C, h, node)
  BY <1>2
<1>4. p = t.parent[node] /\ g = t.parent[p] /\ d = SideOf(t, p)
      /\ w = t.child[g][Opposite(d)]
  OBVIOUS
<1>5. w # NULL /\ t.red[w]
  BY <1>1 DEF IsBlack
<1>6. t \in Tree
  BY <1>3, ChildLinks
<1>7. Recoloured(t, {g}, {w, p}, u)
  BY <1>6, RecolourIs
<1> HIDE DEF p, g, d, w, u
<1>8. LoopNodes(t, C, node, p, g, d)
  BY <1>1, <1>3, <1>4, LoopNodesAre
<1>9. d \in Sides /\ t.child[g][d] = p
  BY <1>8 DEF LoopNodes
<1>10. \E h2 : Inserting(u, C, h2, g)
  <2>1. RedUncle(t, C, h, node, p, g, w, d, u)
    BY <1>1, <1>3, <1>4, <1>5, <1>7, <1>9 DEF RedUncle
  <2>2. TreeShape(t, C, lo, hi, M) /\ d \in Sides
    BY <1>3, <1>9
  <2>. QED
    BY <2>1, <2>2, InsertRecolourKeeps
<1>11. TreeShape(u, C, lo, hi, M)
  <2>1. u \in Tree /\ u.root = t.root /\ u.child = t.child /\ u.parent = t.parent
    BY <1>7 DEF Recoloured
  <2>. QED
    BY <1>3, <2>1, SameLinks
<1>. QED
  BY <1>1, <1>2, <1>10, <1>11, InsertingThen

(* A rotation keeps the shape.                                             *)
LEMMA RotateKeepsShape ==
  ASSUME NEW tr, NEW C, NEW lo, NEW hi, NEW M, TreeShape(tr, C, lo, hi, M),
         NEW n \in C, NEW d \in Sides, tr.child[n][Opposite(d)] # NULL,
         NEW u, Rotated(tr, n, d, u)
  PROVE  \E lo2, hi2 : TreeShape(u, C, lo2, hi2, M)
<1> DEFINE c == tr.child[n][Opposite(d)]
           lo2 == [x \in Keys |-> IF x = c THEN lo[n]
                           ELSE IF x = n /\ d = "right" THEN c ELSE lo[x]]
           hi2 == [x \in Keys |-> IF x = c THEN hi[n]
                           ELSE IF x = n /\ d = "left" THEN c ELSE hi[x]]
<1>1. TreeShape(u, C, lo2, hi2, M)
  BY RotateShape
<1> HIDE DEF lo2, hi2
<1>. QED
  BY <1>1

(* The rotation at the grandparent, with the colours before it.            *)
LEMMA OuterStep ==
  ASSUME NEW tr, NEW C, NEW lo, NEW hi, NEW M, TreeShape(tr, C, lo, hi, M),
         NEW h, NEW n, NEW p, NEW g, NEW d \in Sides, NEW u
  PROVE  /\ Inserting(tr, C, h, n)
         /\ p = tr.parent[n] /\ g = tr.parent[p] /\ p # NULL /\ tr.red[p]
         /\ tr.child[g][d] = p /\ tr.child[p][d] = n
         /\ IsBlack(tr, tr.child[g][Opposite(d)])
         /\ u = Rotate(Recolour(tr, {g}, {p}), g, Opposite(d))
         => Sound(u, C, "rb_insert_color", n, NULL)
<1> DEFINE v == Recolour(tr, {g}, {p})
           o == Opposite(d)
<1>a. SUFFICES ASSUME Inserting(tr, C, h, n), p = tr.parent[n],
                      g = tr.parent[p], p # NULL, tr.red[p],
                      tr.child[g][d] = p, tr.child[p][d] = n,
                      IsBlack(tr, tr.child[g][o]), u = Rotate(v, g, o)
               PROVE  Sound(u, C, "rb_insert_color", n, NULL)
  OBVIOUS
<1>1. Recoloured(tr, {g}, {p}, v)
  <2>1. tr \in Tree
    BY ChildLinks
  <2>. QED
    BY <2>1, RecolourIs
<1>2. g \in C /\ p # NULL
  BY <1>a, InsertNodes
<1>3. o \in Sides /\ Opposite(o) = d
  BY TwoSides
<1> HIDE DEF v
<1>4. v \in Tree /\ v.root = tr.root /\ v.child = tr.child
      /\ v.parent = tr.parent
  BY <1>1 DEF Recoloured
<1>5. TreeShape(v, C, lo, hi, M)
  BY <1>4, SameLinks
<1>6. v.child[g][Opposite(o)] = p
  BY <1>3, <1>4, <1>a
<1>7. Rotated(v, g, o, u)
  BY <1>2, <1>3, <1>5, <1>6, <1>a, RotateIs
<1>8. \E h2 : Inserting(u, C, h2, n)
  BY <1>1, <1>7, <1>a, OuterKeeps
<1>9. \E lo2, hi2 : TreeShape(u, C, lo2, hi2, M)
  BY <1>2, <1>3, <1>5, <1>6, <1>7, RotateKeepsShape
<1>. QED
  BY <1>8, <1>9, InsertingThen

(* A black uncle: one rotation or two.                                     *)
LEMMA InsertRotateStep ==
  ASSUME NEW C, Sound(t, C, pc, node, parent), InsertRotate
  PROVE  Sound(t', C, pc', node', parent')
<1> DEFINE p == t.parent[node]
           g == t.parent[p]
           d == SideOf(t, p)
           o == Opposite(d)
           inner == t.child[p][o] = node
           t1 == IF inner THEN Rotate(t, p, d) ELSE t
           t2 == Recolour(t1, {g}, {IF inner THEN node ELSE p})
<1>1. /\ pc = "rb_insert_color" /\ pc' = pc /\ parent' = parent
      /\ p # NULL /\ t.red[p] /\ IsBlack(t, t.child[g][o])
      /\ t' = Rotate(t2, g, o) /\ node' = IF inner THEN p ELSE node
  BY DEF InsertRotate, InsertLoop, Gparent, Uncle, InnerRotation
<1>2. /\ parent = NULL
      /\ \E lo, hi, M, h : TreeShape(t, C, lo, hi, M)
                           /\ Inserting(t, C, h, node)
  BY <1>1, InsertingNow
<1>3. PICK lo, hi, M, h : TreeShape(t, C, lo, hi, M) /\ Inserting(t, C, h, node)
  BY <1>2
<1>4. p = t.parent[node] /\ g = t.parent[p] /\ d = SideOf(t, p)
  OBVIOUS
<1> HIDE DEF p, g, d
<1>5. LoopNodes(t, C, node, p, g, d)
  BY <1>1, <1>3, <1>4, LoopNodesAre
<1>6. /\ node \in C /\ p \in C /\ node # p /\ g # node /\ d \in Sides
      /\ t.child[g][d] = p /\ t.child[p][o] # node => t.child[p][d] = node
      /\ node # NULL
  BY <1>3, <1>5, ChildLinks DEF LoopNodes
<1>7. CASE ~inner
  <2>1. t' = Rotate(Recolour(t, {g}, {p}), g, o) /\ node' = node
    BY <1>1, <1>7
  <2>2. t.child[g][d] = p /\ t.child[p][d] = node
    BY <1>5, <1>7 DEF LoopNodes
  <2>3. Sound(t', C, "rb_insert_color", node, NULL)
    BY <1>1, <1>3, <1>4, <1>6, <2>1, <2>2, OuterStep
  <2>. QED
    BY <1>1, <1>2, <2>1, <2>3
<1>8. CASE inner
  <2> DEFINE u == Rotate(t, p, d)
  <2>1. t' = Rotate(Recolour(u, {g}, {node}), g, o) /\ node' = p
    BY <1>1, <1>8
  <2>2. t.child[p][o] = node /\ t.child[g][d] = p
    BY <1>5, <1>8 DEF LoopNodes
  <2>3. Rotated(t, p, d, u)
    BY <1>3, <1>6, <2>2, RotateIs
  <2> HIDE DEF u
  <2>4. InnerDone(t, C, h, node, p, g, d, u)
    BY <1>1, <1>3, <1>4, <1>6, <2>2, <2>3, InnerKeeps
  <2>5. \E lo2, hi2 : TreeShape(u, C, lo2, hi2, M)
    BY <1>3, <1>6, <2>2, <2>3, RotateKeepsShape
  <2>6. PICK lo2, hi2 : TreeShape(u, C, lo2, hi2, M)
    BY <2>5
  <2>7. \E h2 : Inserting(u, C, h2, p)
    BY <2>4 DEF InnerDone
  <2>8. PICK h2 : Inserting(u, C, h2, p)
    BY <2>7
  <2>9. /\ u.red = t.red /\ u.parent[p] = node /\ u.parent[node] = g
        /\ u.child[g][d] = node /\ u.child[node][d] = p
        /\ u.child[g][o] = t.child[g][o]
    BY <2>4 DEF InnerDone
  <2>10. IsBlack(u, u.child[g][o]) /\ u.red[node]
    <3>1. t.red[node]
      BY <1>3 DEF Inserting
    <3>. QED
      BY <1>1, <2>9, <3>1 DEF IsBlack
  <2>11. Sound(t', C, "rb_insert_color", p, NULL)
    BY <1>6, <2>1, <2>6, <2>8, <2>9, <2>10, OuterStep
  <2>. QED
    BY <1>1, <1>2, <2>1, <2>11
<1>. QED
  BY <1>7, <1>8

(* The end of rb_insert_color.                                             *)
LEMMA InsertDoneStep ==
  ASSUME NEW C, Sound(t, C, pc, node, parent), InsertDone
  PROVE  Sound(t', C, pc', node', parent')
<1> DEFINE u == Recolour(t, {}, {t.root})
<1>1. /\ pc = "rb_insert_color" /\ pc' = "idle" /\ parent' = parent
      /\ node' = NULL /\ t' = u
      /\ ~(t.parent[node] # NULL /\ t.red[t.parent[node]])
  BY DEF InsertDone, InsertLoop
<1>2. /\ parent = NULL
      /\ \E lo, hi, M, h : TreeShape(t, C, lo, hi, M)
                           /\ Inserting(t, C, h, node)
  BY <1>1, InsertingNow
<1>3. PICK lo, hi, M, h : TreeShape(t, C, lo, hi, M) /\ Inserting(t, C, h, node)
  BY <1>2
<1>4. Recoloured(t, {}, {t.root}, u)
  <2>1. t \in Tree
    BY <1>3, ChildLinks
  <2>. QED
    BY <2>1, RecolourIs
<1> HIDE DEF u
<1>5. \E h2 : Steady(u, C, h2)
  BY <1>1, <1>3, <1>4, InsertDoneKeeps
<1>6. TreeShape(u, C, lo, hi, M)
  <2>1. u \in Tree /\ u.root = t.root /\ u.child = t.child /\ u.parent = t.parent
    BY <1>4 DEF Recoloured
  <2>. QED
    BY <1>3, <2>1, SameLinks
<1>. QED
  BY <1>1, <1>2, <1>5, <1>6 DEF Sound, Shaped, Balanced

Spliced(u, D, c, p, b) ==
  /\ Shaped(u, D)
  /\ b => \E h, d : Erasing(u, D, h, c, p, d)
  /\ ~b => \E h : Steady(u, D, h)

(* A node with at most one child is taken out.                             *)
LEMMA OneSpliced ==
  ASSUME NEW tr, NEW C, NEW lo, NEW hi, NEW M, TreeShape(tr, C, lo, hi, M),
         NEW h, Steady(tr, C, h), NEW k \in C,
         ~\A d \in Sides : tr.child[k][d] # NULL
  PROVE  LET r == SpliceOne(tr, k)
         IN Spliced(Freed(r.tree, k), C \ {k}, r.child, r.parent, r.black)
<1> DEFINE c == IF tr.child[k]["left"] = NULL THEN tr.child[k]["right"]
                ELSE tr.child[k]["left"]
           s == IF tr.child[k]["left"] = NULL THEN "right" ELSE "left"
           p == tr.parent[k]
           u == Freed(SpliceOne(tr, k).tree, k)
<1>1. /\ s \in Sides /\ c = tr.child[k][s] /\ tr.child[k][Opposite(s)] = NULL
  BY DEF Sides, Opposite
<1>2. Removed(tr, k, c, u)
  BY SpliceOneIs
<1>3. /\ SpliceOne(tr, k).child = c /\ SpliceOne(tr, k).parent = p
      /\ SpliceOne(tr, k).black = ~tr.red[k]
  BY DEF SpliceOne
<1>4. p = tr.parent[k]
  OBVIOUS
<1> HIDE DEF c, s, p, u
<1>5. \E lo2, hi2 : TreeShape(u, C \ {k}, lo2, hi2, M)
  BY <1>1, <1>2, RemovedShape
<1>6. /\ tr.red[k] => Steady(u, C \ {k}, h)
      /\ ~tr.red[k] => Erasing(u, C \ {k}, h, c, p, Side(k, p))
  BY <1>1, <1>2, <1>4, RemovedKeeps
<1>7. Spliced(u, C \ {k}, c, p, ~tr.red[k])
  BY <1>5, <1>6 DEF Spliced, Shaped
<1>. QED
  BY <1>3, <1>7 DEF u

(* A node with two children changes places with its successor.             *)
LEMMA TwoSpliced ==
  ASSUME NEW tr, NEW C, NEW lo, NEW hi, NEW M, TreeShape(tr, C, lo, hi, M),
         NEW h, Steady(tr, C, h), NEW k \in C,
         \A d \in Sides : tr.child[k][d] # NULL
  PROVE  LET r == SpliceTwo(tr, k)
         IN Spliced(Freed(r.tree, k), C \ {k}, r.child, r.parent, r.black)
<1> DEFINE s == Extreme(tr, tr.child[k]["right"], "left")
           c == tr.child[s]["right"]
           p == tr.parent[s]
           w == Freed(SpliceOne(tr, s).tree, s)
           u == Freed(SpliceTwo(tr, k).tree, k)
           B == C \ {s}
<1>1. tr.child[k]["left"] # NULL /\ tr.child[k]["right"] # NULL
  BY DEF Sides
<1>2. /\ s \in C /\ k < s /\ s # k /\ tr.child[s]["left"] = NULL
      /\ \A m \in C \ {k, s} : m < k <=> m < s
      /\ s # tr.root /\ p \in C
  BY <1>1, SuccessorIs
<1>3. "right" \in Sides /\ Opposite("right") = "left"
  BY DEF Sides, Opposite
<1>4. Removed(tr, s, c, w)
  BY <1>2, SpliceOneIs
<1>5. Renamed(w, k, s, u)
  BY <1>1, <1>4, SpliceTwoIs
<1>6. /\ SpliceTwo(tr, k).child = c
      /\ SpliceTwo(tr, k).parent = LeftParent(s, p, k)
      /\ SpliceTwo(tr, k).black = ~tr.red[s]
  BY DEF SpliceTwo
<1>7. c = tr.child[s]["right"] /\ p = tr.parent[s]
  OBVIOUS
<1> HIDE DEF s, c, p, w, u
<1>8. PICK lo2, hi2 : TreeShape(w, B, lo2, hi2, M)
  <2>1. \E lo2, hi2 : TreeShape(w, C \ {s}, lo2, hi2, M)
    BY <1>2, <1>3, <1>4, <1>7, RemovedShape
  <2>. QED
    BY <2>1
<1>9. /\ tr.red[s] => Steady(w, B, h)
      /\ ~tr.red[s] => Erasing(w, B, h, c, p, Side(s, p))
  BY <1>2, <1>3, <1>4, <1>7, RemovedKeeps
<1>10. /\ k \in B /\ s \in Keys /\ s \notin B
       /\ \A m \in B \ {k} : m < k <=> m < s
       /\ (B \ {k}) \cup {s} = C \ {k}
  <2>1. C \in SUBSET Keys
    BY ChildLinks
  <2>. QED
    BY <1>2, <2>1
<1>11. c # k
  <2>1. SUFFICES ASSUME c = k PROVE FALSE
    OBVIOUS
  <2>2. k # NULL /\ k \in Nat /\ s \in Nat
    BY <1>2, ShapeLinks
  <2>3. "right" = Side(k, s)
    <3>1. \A n \in C, d \in Sides : tr.child[n][d] # NULL =>
            d = Side(tr.child[n][d], n)
      BY ShapeLinks
    <3>2. tr.child[s]["right"] = k /\ k # NULL
      BY <1>7, <2>1, <2>2
    <3>3. tr.child[s]["right"] # NULL => "right" = Side(tr.child[s]["right"], s)
      BY <1>2, <1>3, <3>1
    <3>. QED
      BY <3>2, <3>3
  <2>. QED
    BY <1>2, <2>2, <2>3 DEF Side
<1>12. Turn(k, s, c) = c /\ Turn(k, s, p) = LeftParent(s, p, k)
  BY <1>11 DEF Turn, LeftParent
<1> HIDE DEF B
<1>13. \E lo3, hi3 : TreeShape(u, C \ {k}, lo3, hi3, M)
  <2>1. \E lo3, hi3 : TreeShape(u, (B \ {k}) \cup {s}, lo3, hi3, M)
    BY <1>5, <1>8, <1>10, RenamedShape
  <2>. QED
    BY <1>10, <2>1
<1>14. /\ Steady(w, B, h) => \E h2 : Steady(u, C \ {k}, h2)
       /\ \A x, y, d : Erasing(w, B, h, x, y, d) =>
            \E h2 : Erasing(u, C \ {k}, h2, Turn(k, s, x), Turn(k, s, y), d)
  BY <1>5, <1>8, <1>10, RenamedKeeps, SMTT(60)
<1>15. Spliced(u, C \ {k}, c, LeftParent(s, p, k), ~tr.red[s])
  <2>1. ~tr.red[s] => \E h2 : Erasing(u, C \ {k}, h2, c, LeftParent(s, p, k),
                                      Side(s, p))
    BY <1>9, <1>12, <1>14
  <2>2. tr.red[s] => \E h2 : Steady(u, C \ {k}, h2)
    BY <1>9, <1>14
  <2>3. Shaped(u, C \ {k})
    BY <1>13 DEF Shaped
  <2>. QED
    BY <2>1, <2>2, <2>3 DEF Spliced
<1>. QED
  BY <1>6, <1>15 DEF u

(* What a call starts from.                                                *)
LEMMA IdleNow ==
  ASSUME NEW C, Sound(t, C, pc, node, parent), pc = "idle"
  PROVE  /\ node = NULL /\ parent = NULL
         /\ \E lo, hi, M, h : TreeShape(t, C, lo, hi, M) /\ Steady(t, C, h)
BY DEF Sound, Shaped, Balanced

(* A removal.                                                              *)
LEMMA EraseStep ==
  ASSUME NEW C, Sound(t, C, pc, node, parent), NEW k \in Keys, rb_erase(k)
  PROVE  k \in C /\ Sound(t', C \ {k}, pc', node', parent')
<1> DEFINE two == \A d \in Sides : t.child[k][d] # NULL
           r == IF two THEN SpliceTwo(t, k) ELSE SpliceOne(t, k)
<1>1. /\ pc = "idle" /\ t.root # NULL /\ Descend(t, k)[1] = k
      /\ t' = Freed(r.tree, k)
      /\ node' = IF r.black THEN r.child ELSE NULL
      /\ parent' = IF r.black THEN r.parent ELSE NULL
      /\ pc' = IF r.black THEN "rb_erase_color" ELSE "idle"
  BY DEF rb_erase
<1>2. \E lo, hi, M, h : TreeShape(t, C, lo, hi, M) /\ Steady(t, C, h)
  BY <1>1, IdleNow
<1>3. PICK lo, hi, M, h : TreeShape(t, C, lo, hi, M) /\ Steady(t, C, h)
  BY <1>2
<1>4. k \in C
  BY <1>1, <1>3, DescendIs
<1>5. Spliced(Freed(r.tree, k), C \ {k}, r.child, r.parent, r.black)
  <2>1. CASE two
    <3>1. r = SpliceTwo(t, k)
      BY <2>1
    <3>2. Spliced(Freed(SpliceTwo(t, k).tree, k), C \ {k},
            SpliceTwo(t, k).child, SpliceTwo(t, k).parent, SpliceTwo(t, k).black)
      BY <1>3, <1>4, <2>1, TwoSpliced
    <3> HIDE DEF r
    <3>. QED
      BY <3>1, <3>2
  <2>2. CASE ~two
    <3>1. r = SpliceOne(t, k)
      BY <2>2
    <3>2. Spliced(Freed(SpliceOne(t, k).tree, k), C \ {k},
            SpliceOne(t, k).child, SpliceOne(t, k).parent, SpliceOne(t, k).black)
      BY <1>3, <1>4, <2>2, OneSpliced
    <3> HIDE DEF r
    <3>. QED
      BY <3>1, <3>2
  <2>. QED
    BY <2>1, <2>2
<1> HIDE DEF r
<1>6. Sound(t', C \ {k}, pc', node', parent')
  <2>1. CASE r.black
    BY <1>1, <1>5, <2>1 DEF Spliced, Sound, Balanced
  <2>2. CASE ~r.black
    BY <1>1, <1>5, <2>2 DEF Spliced, Sound, Balanced
  <2>. QED
    BY <2>1, <2>2
<1>. QED
  BY <1>4, <1>6

(* A new node that fits between the victim's neighbours is ordered as the  *)
(* victim was.                                                             *)
LEMMA FitsThere ==
  ASSUME NEW tr, NEW C, NEW lo, NEW hi, NEW M, TreeShape(tr, C, lo, hi, M),
         NEW v \in C, NEW new \in Keys, new \notin C,
         rb_prev(tr, v) < new,
         rb_next(tr, v) = NULL \/ new < rb_next(tr, v)
  PROVE  \A m \in C \ {v} : m < v <=> m < new
<1> DEFINE a == Neighbour(tr, v, "left")
           b == Neighbour(tr, v, "right")
<1>1. a < new /\ (b = NULL \/ new < b)
  BY DEF rb_prev, rb_next
<1>2. \/ a = NULL /\ \A m \in C : ~Beyond("left", v, m)
      \/ /\ a \in C /\ Beyond("left", v, a)
         /\ \A m \in C : Beyond("left", v, m) => m = a \/ Beyond("left", a, m)
  BY NeighbourIs DEF Sides
<1>3. \/ b = NULL /\ \A m \in C : ~Beyond("right", v, m)
      \/ /\ b \in C /\ Beyond("right", v, b)
         /\ \A m \in C : Beyond("right", v, m) => m = b \/ Beyond("right", b, m)
  BY NeighbourIs DEF Sides
<1> HIDE DEF a, b
<1>4. C \subseteq Nat /\ NULL \notin C /\ new \in Nat
  BY ShapeLinks, KeysNat
<1>5. ASSUME NEW m \in C, m < v PROVE m < new
  <2>1. a \in C /\ (m = a \/ m < a)
    BY <1>2, <1>5 DEF Beyond
  <2>2. m \in Nat /\ a \in Nat
    BY <1>4, <2>1
  <2>. QED
    BY <1>1, <1>4, <2>1, <2>2
<1>6. ASSUME NEW m \in C, v < m PROVE new < m
  <2>1. b \in C /\ (m = b \/ b < m)
    BY <1>3, <1>6 DEF Beyond
  <2>2. m \in Nat /\ b \in Nat /\ new < b
    BY <1>1, <1>4, <2>1
  <2>. QED
    BY <1>4, <2>1, <2>2
<1>7. SUFFICES ASSUME NEW m \in C, m # v PROVE m < v <=> m < new
  OBVIOUS
<1>8. m \in Nat /\ v \in Nat
  BY <1>4
<1>9. m < v => m < new
  BY <1>5
<1>10. v < m => new < m
  BY <1>6
<1>. QED
  BY <1>4, <1>7, <1>8, <1>9, <1>10

(* A replacement.                                                          *)
LEMMA ReplaceStep ==
  ASSUME NEW C, Sound(t, C, pc, node, parent), NEW v \in Keys, NEW new \in Keys,
         rb_replace_node(v, new)
  PROVE  /\ v \in C /\ new \notin C
         /\ \A m \in C \ {v} : m < v <=> m < new
         /\ Sound(t', (C \ {v}) \cup {new}, pc', node', parent')
<1> DEFINE t1 == Relink(t, t.parent[v], v, new)
           t2 == rb_set_parent(t1, t.child[v]["left"], new)
           t3 == rb_set_parent(t2, t.child[v]["right"], new)
           u == Freed([t3 EXCEPT !.child[new] = t.child[v],
                                 !.parent[new] = t.parent[v],
                                 !.red[new] = t.red[v]], v)
           D == (C \ {v}) \cup {new}
<1>1. /\ pc = "idle" /\ Descend(t, v)[1] = v /\ Descend(t, new)[1] # new
      /\ rb_prev(t, v) < new
      /\ rb_next(t, v) = NULL \/ new < rb_next(t, v)
      /\ t' = u /\ pc' = pc /\ node' = node /\ parent' = parent
  BY DEF rb_replace_node
<1>2. /\ node = NULL /\ parent = NULL
      /\ \E lo, hi, M, h : TreeShape(t, C, lo, hi, M) /\ Steady(t, C, h)
  BY <1>1, IdleNow
<1>3. PICK lo, hi, M, h : TreeShape(t, C, lo, hi, M) /\ Steady(t, C, h)
  BY <1>2
<1>4. v \in C
  BY <1>1, <1>3, DescendIs
<1>5. new \notin C
  BY <1>1, <1>3, DescendIs
<1>6. Renamed(t, v, new, u)
  BY <1>3, <1>4, <1>5, ReplaceIs
<1> HIDE DEF u
<1>7. \A m \in C \ {v} : m < v <=> m < new
  BY <1>1, <1>3, <1>4, <1>5, FitsThere
<1>8. \E lo2, hi2 : TreeShape(u, D, lo2, hi2, M)
  BY <1>3, <1>4, <1>5, <1>6, <1>7, RenamedShape
<1>9. \E h2 : Steady(u, D, h2)
  BY <1>3, <1>4, <1>5, <1>6, RenamedKeeps
<1> HIDE DEF D
<1>10. Sound(u, D, "idle", NULL, NULL)
  BY <1>8, <1>9 DEF Sound, Shaped, Balanced
<1>. QED
  BY <1>1, <1>2, <1>4, <1>5, <1>7, <1>10 DEF D

(* Rotations and colours keep the shape of the tree.                       *)
LEMMA RotatedShaped ==
  ASSUME NEW tr, NEW C, Shaped(tr, C), NEW n \in C, NEW d \in Sides,
         tr.child[n][Opposite(d)] # NULL, NEW u, Rotated(tr, n, d, u)
  PROVE  Shaped(u, C)
<1>1. PICK lo, hi, M : TreeShape(tr, C, lo, hi, M)
  BY DEF Shaped
<1>2. \E lo2, hi2 : TreeShape(u, C, lo2, hi2, M)
  BY <1>1, RotateKeepsShape
<1>. QED
  BY <1>2 DEF Shaped

(* The same for links that stay.                                           *)
LEMMA SameShaped ==
  ASSUME NEW tr, NEW C, Shaped(tr, C), NEW u \in Tree, u.root = tr.root,
         u.child = tr.child, u.parent = tr.parent
  PROVE  Shaped(u, C)
<1>1. PICK lo, hi, M : TreeShape(tr, C, lo, hi, M)
  BY DEF Shaped
<1>2. TreeShape(u, C, lo, hi, M)
  BY <1>1, SameLinks
<1>. QED
  BY <1>2 DEF Shaped

(* What a rotation does, in a tree of known shape.                         *)
LEMMA ShapedRotate ==
  ASSUME NEW tr, NEW C, Shaped(tr, C), NEW n \in C, NEW d \in Sides,
         tr.child[n][Opposite(d)] # NULL
  PROVE  Rotated(tr, n, d, Rotate(tr, n, d))
<1>1. PICK lo, hi, M : TreeShape(tr, C, lo, hi, M)
  BY DEF Shaped
<1>. QED
  BY <1>1, RotateIs

Cleared(u, C, n, p, d) ==
  /\ Shaped(u, C) /\ \E h : Lacking(u, C, h, n, p, d)
  /\ ~u.red[u.child[p][Opposite(d)]]

(* After the first test of the loop the sibling is black.                  *)
LEMMA SiblingCleared ==
  ASSUME NEW tr, NEW C, NEW lo, NEW hi, NEW M, TreeShape(tr, C, lo, hi, M),
         NEW h, NEW n, NEW p, NEW d \in Sides, Lacking(tr, C, h, n, p, d)
  PROVE  Cleared(RedSibling(tr, p, d), C, n, p, d)
<1> DEFINE o == Opposite(d)
           s == tr.child[p][o]
           v == Recolour(tr, {p}, {s})
           u == Rotate(v, p, d)
<1>1. RedSibling(tr, p, d) = IF tr.red[s] THEN u ELSE tr
  BY DEF RedSibling
<1>2. Shaped(tr, C)
  BY DEF Shaped
<1>3. CASE ~tr.red[s]
  <2>1. Cleared(tr, C, n, p, d)
    BY <1>2, <1>3 DEF Cleared
  <2>. QED
    BY <1>1, <1>3, <2>1
<1>4. CASE tr.red[s]
  <2>1. p \in C
    BY DEF Lacking
  <2>2. s \in C
    BY SiblingIs DEF SiblingOf
  <2>3. tr \in Tree /\ s # NULL
    BY <2>2, ChildLinks
  <2>4. Recoloured(tr, {p}, {s}, v)
    BY <2>3, RecolourIs
  <2>5. s = tr.child[p][Opposite(d)]
    OBVIOUS
  <2> HIDE DEF v, s
  <2>6. v \in Tree /\ v.root = tr.root /\ v.child = tr.child
        /\ v.parent = tr.parent
    BY <2>4 DEF Recoloured
  <2>7. Shaped(v, C)
    BY <1>2, <2>6, SameShaped
  <2>8. v.child[p][Opposite(d)] # NULL
    BY <2>3, <2>5, <2>6
  <2>9. Rotated(v, p, d, u)
    BY <2>1, <2>7, <2>8, ShapedRotate
  <2>10. Shaped(u, C)
    BY <2>1, <2>7, <2>8, <2>9, RotatedShaped
  <2> HIDE DEF u
  <2>11. /\ \E h2 : Lacking(u, C, h2, n, p, d)
         /\ ~u.red[u.child[p][Opposite(d)]]
    BY <1>4, <2>4, <2>5, <2>9, RedSiblingKeeps
  <2>12. Cleared(u, C, n, p, d)
    BY <2>10, <2>11 DEF Cleared
  <2>. QED
    BY <1>1, <1>4, <2>12
<1>. QED
  BY <1>3, <1>4

(* What the three steps of __rb_erase_color start from.                    *)
LEMMA ErasingNow ==
  ASSUME NEW C, Sound(t, C, pc, node, parent), pc = "rb_erase_color"
  PROVE  \E lo, hi, M, h, d : /\ TreeShape(t, C, lo, hi, M)
                              /\ Erasing(t, C, h, node, parent, d)
BY DEF Sound, Shaped, Balanced

(* The side that the loop finds is the one that is short.                  *)
LEMMA EraseLoopNow ==
  ASSUME NEW C, Sound(t, C, pc, node, parent), pc = "rb_erase_color", EraseLoop
  PROVE  /\ EraseSide \in Sides
         /\ \E lo, hi, M, h : /\ TreeShape(t, C, lo, hi, M)
                              /\ Lacking(t, C, h, node, parent, EraseSide)
<1>1. PICK lo, hi, M, h, d : /\ TreeShape(t, C, lo, hi, M)
                             /\ Erasing(t, C, h, node, parent, d)
  BY ErasingNow
<1>2. IsBlack(t, node) /\ node # t.root
  BY DEF EraseLoop
<1>3. Lacking(t, C, h, node, parent, d)
  BY <1>1, <1>2, LackingIs
<1>4. SiblingOf(t, C, h, node, parent, d)
  BY <1>1, <1>3, SiblingIs
<1>5. EraseSide = d
  BY <1>4 DEF SiblingOf, EraseSide
<1>6. d \in Sides
  BY <1>3 DEF Lacking
<1>. QED
  BY <1>1, <1>3, <1>5, <1>6

(* A sibling with two black children.                                      *)
LEMMA EraseRecolourStep ==
  ASSUME NEW C, Sound(t, C, pc, node, parent), EraseRecolour
  PROVE  Sound(t', C, pc', node', parent')
<1> DEFINE d == EraseSide
           u == RedSibling(t, parent, d)
           s == u.child[parent][Opposite(d)]
           v == Recolour(u, {s}, {})
<1>1. /\ pc = "rb_erase_color" /\ EraseLoop /\ BothBlack(u, s)
      /\ t' = v /\ node' = parent /\ parent' = u.parent[parent] /\ pc' = pc
  BY DEF EraseRecolour
<1>2. /\ d \in Sides
      /\ \E lo, hi, M, h : /\ TreeShape(t, C, lo, hi, M)
                           /\ Lacking(t, C, h, node, parent, d)
  BY <1>1, EraseLoopNow
<1> HIDE DEF d
<1>3. PICK lo, hi, M, h : /\ TreeShape(t, C, lo, hi, M)
                          /\ Lacking(t, C, h, node, parent, d)
  BY <1>2
<1>4. Cleared(u, C, node, parent, d)
  BY <1>2, <1>3, SiblingCleared
<1> HIDE DEF u
<1>5. s = u.child[parent][Opposite(d)] /\ \A e \in Sides : IsBlack(u, u.child[s][e])
  BY <1>1 DEF BothBlack
<1>6. PICK h2 : Lacking(u, C, h2, node, parent, d)
  BY <1>4 DEF Cleared
<1>7. ~u.red[s] /\ Shaped(u, C)
  BY <1>4 DEF Cleared
<1>8. PICK lo2, hi2, M2 : TreeShape(u, C, lo2, hi2, M2)
  BY <1>7 DEF Shaped
<1>9. Recoloured(u, {s}, {}, v)
  <2>1. u \in Tree
    BY <1>8, ChildLinks
  <2>. QED
    BY <2>1, RecolourIs
<1> HIDE DEF s, v
<1>10. \E h3, d3 : Erasing(v, C, h3, parent, u.parent[parent], d3)
  BY <1>2, <1>5, <1>6, <1>7, <1>8, <1>9, EraseRecolourKeeps
<1>11. Shaped(v, C)
  <2>1. v \in Tree /\ v.root = u.root /\ v.child = u.child /\ v.parent = u.parent
    BY <1>9 DEF Recoloured
  <2>. QED
    BY <1>7, <2>1, SameShaped
<1>. QED
  BY <1>1, <1>10, <1>11 DEF Sound, Balanced

(* The sibling's far child is red, after a rotation at the sibling if only *)
(* the near one was.                                                       *)
LEMMA NearStep ==
  ASSUME NEW tr, NEW C, NEW n, NEW p, NEW d \in Sides, Cleared(tr, C, n, p, d),
         NEW o, NEW s, NEW u,
         o = Opposite(d), s = tr.child[p][o], ~BothBlack(tr, s),
         u = IF IsBlack(tr, tr.child[s][o])
             THEN Rotate(Recolour(tr, {s}, {tr.child[s][d]}), s, o)
             ELSE tr
  PROVE  Shaped(u, C) /\ NearDone(C, n, p, d, u)
<1>1. Shaped(tr, C) /\ ~tr.red[s]
  BY DEF Cleared
<1>2. PICK h : Lacking(tr, C, h, n, p, d)
  BY DEF Cleared
<1>3. PICK lo, hi, M : TreeShape(tr, C, lo, hi, M)
  BY <1>1 DEF Shaped
<1>4. s \in C
  BY <1>2, <1>3, SiblingIs DEF SiblingOf
<1>5. CASE ~IsBlack(tr, tr.child[s][o])
  <2>1. u = tr
    BY <1>5
  <2>2. tr.child[s][o] # NULL /\ tr.red[tr.child[s][o]]
    BY <1>5 DEF IsBlack
  <2>3. NearDone(C, n, p, d, tr)
    BY <1>1, <1>2, <1>4, <2>2 DEF NearDone
  <2>. QED
    BY <1>1, <2>1, <2>3
<1>6. CASE IsBlack(tr, tr.child[s][o])
  <2> DEFINE y == tr.child[s][d]
             v == Recolour(tr, {s}, {y})
  <2>1. u = Rotate(v, s, o)
    BY <1>6
  <2>2. ~IsBlack(tr, y)
    <3>1. \A e \in Sides : e = d \/ e = o
      BY TwoSides
    <3>. QED
      BY <1>6, <3>1 DEF BothBlack
  <2>3. y # NULL /\ tr.red[y]
    BY <2>2 DEF IsBlack
  <2>4. Recoloured(tr, {s}, {y}, v)
    <3>1. tr \in Tree
      BY <1>3, ChildLinks
    <3>. QED
      BY <3>1, RecolourIs
  <2>5. o \in Sides /\ Opposite(o) = d /\ y = tr.child[s][d]
    BY TwoSides
  <2> HIDE DEF y, v
  <2>6. v \in Tree /\ v.root = tr.root /\ v.child = tr.child
        /\ v.parent = tr.parent
    BY <2>4 DEF Recoloured
  <2>7. Shaped(v, C)
    BY <1>1, <2>6, SameShaped
  <2>8. v.child[s][Opposite(o)] # NULL
    BY <2>3, <2>5, <2>6
  <2>9. Rotated(v, s, o, u)
    BY <1>4, <2>1, <2>5, <2>7, <2>8, ShapedRotate
  <2>10. Shaped(u, C)
    BY <1>4, <2>5, <2>7, <2>8, <2>9, RotatedShaped
  <2>11. NearDone(C, n, p, d, u)
    BY <1>1, <1>2, <1>3, <1>6, <2>3, <2>4, <2>5, <2>9, NearKeeps
  <2>. QED
    BY <2>10, <2>11
<1>. QED
  BY <1>5, <1>6

(* The colours before the last rotation.                                   *)
LEMMA FarColoursAre ==
  ASSUME NEW tr \in Tree, NEW p \in Keys, NEW s \in Keys, NEW f \in Keys,
         s # p, s # f
  PROVE  LET t3 == [tr EXCEPT !.red[s] = tr.red[p]]
         IN /\ t3.child = tr.child
            /\ FarColours(tr, p, s, f, Recolour(t3, {}, {p, f}))
<1> DEFINE q == [tr.red EXCEPT ![s] = tr.red[p]]
           t3 == [tr EXCEPT !.red[s] = tr.red[p]]
           v == Recolour(t3, {}, {p, f})
<1>1. t3 = [tr EXCEPT !.red = q]
  OBVIOUS
<1>2. tr.red \in [Keys -> BOOLEAN]
  BY DEF Tree
<1>3. q \in [Keys -> BOOLEAN]
  BY <1>2
<1>4. q[s] = tr.red[p] /\ \A m \in Keys : m # s => q[m] = tr.red[m]
  BY <1>2
<1> HIDE DEF q
<1>5. /\ [tr EXCEPT !.red = q] \in Tree /\ [tr EXCEPT !.red = q].red = q
      /\ [tr EXCEPT !.red = q].root = tr.root
      /\ [tr EXCEPT !.red = q].child = tr.child
      /\ [tr EXCEPT !.red = q].parent = tr.parent
  BY <1>3 DEF Tree
<1>6. t3 \in Tree /\ t3.red = q /\ t3.root = tr.root /\ t3.child = tr.child
      /\ t3.parent = tr.parent
  BY <1>1, <1>5
<1> HIDE DEF t3
<1>7. Recoloured(t3, {}, {p, f}, v)
  BY <1>6, RecolourIs
<1> HIDE DEF v
<1>8. /\ v \in Tree /\ v.root = tr.root /\ v.child = tr.child
      /\ v.parent = tr.parent
      /\ \A m \in Keys : v.red[m] <=> (q[m] /\ m # p /\ m # f)
  BY <1>6, <1>7 DEF Recoloured
<1>9. v.red[s] <=> tr.red[p]
  BY <1>4, <1>8
<1>10. \A m \in Keys : m # s /\ m # p /\ m # f => (v.red[m] <=> tr.red[m])
  BY <1>4, <1>8
<1>11. FarColours(tr, p, s, f, v)
  BY <1>8, <1>9, <1>10 DEF FarColours
<1>. QED
  BY <1>6, <1>11 DEF t3, v

(* Making a black root black changes nothing.                              *)
LEMMA RootStays ==
  ASSUME NEW tr, NEW C, NEW lo, NEW hi, NEW M, TreeShape(tr, C, lo, hi, M),
         NEW h, Steady(tr, C, h), NEW v, Recoloured(tr, {}, {tr.root}, v)
  PROVE  Steady(v, C, h)
<1>1. /\ v.root = tr.root /\ v.child = tr.child /\ v.parent = tr.parent
      /\ \A x \in Keys : v.red[x] <=> tr.red[x] /\ x # tr.root
  BY DEF Recoloured
<1>2. Pairs(tr, C, {}) /\ Heights(tr.child, C, h, Weight(tr.red, NULL, "left"))
  BY DEF Steady
<1>3. \A x \in C : x \in Keys
  BY ChildLinks
<1>4. \A x \in C : tr.red[x] => x # tr.root /\ ~tr.red[tr.parent[x]]
  BY <1>2 DEF Pairs
<1>5. \A x \in C : v.red[x] <=> tr.red[x]
  BY <1>1, <1>3, <1>4
<1>6. Heights(v.child, C, h, Weight(v.red, NULL, "left"))
  BY <1>1, <1>2, <1>5, HeightsKept DEF Sides
<1>7. \A x \in C : x # tr.root => tr.parent[x] \in C
  BY ChildLinks
<1>8. Pairs(v, C, {})
  BY <1>1, <1>4, <1>5, <1>7 DEF Pairs
<1>. QED
  BY <1>6, <1>8 DEF Steady

(* The rotation that ends the loop.                                        *)
LEMMA FarStep ==
  ASSUME NEW tr, NEW C, NEW n, NEW p, NEW d \in Sides, Shaped(tr, C),
         NearDone(C, n, p, d, tr), NEW o, NEW s, NEW t3, NEW t4, NEW t5, NEW v,
         o = Opposite(d), s = tr.child[p][o]
  PROVE  /\ t3 = [tr EXCEPT !.red[s] = tr.red[p]]
         /\ t4 = Recolour(t3, {}, {p, t3.child[s][o]})
         /\ t5 = Rotate(t4, p, d)
         /\ v = Recolour(t5, {}, {t5.root})
         => Sound(v, C, "idle", NULL, NULL)
<1> DEFINE f == tr.child[s][o]
<1>a. SUFFICES ASSUME t3 = [tr EXCEPT !.red[s] = tr.red[p]]
               PROVE  /\ t4 = Recolour(t3, {}, {p, t3.child[s][o]})
                      /\ t5 = Rotate(t4, p, d)
                      /\ v = Recolour(t5, {}, {t5.root})
                      => Sound(v, C, "idle", NULL, NULL)
  OBVIOUS
<1>b. SUFFICES ASSUME t4 = Recolour(t3, {}, {p, t3.child[s][o]})
               PROVE  /\ t5 = Rotate(t4, p, d)
                      /\ v = Recolour(t5, {}, {t5.root})
                      => Sound(v, C, "idle", NULL, NULL)
  OBVIOUS
<1>c. SUFFICES ASSUME t5 = Rotate(t4, p, d), v = Recolour(t5, {}, {t5.root})
               PROVE  Sound(v, C, "idle", NULL, NULL)
  OBVIOUS
<1>1. /\ s \in C /\ ~tr.red[s] /\ f # NULL /\ tr.red[f]
      /\ \E h : Lacking(tr, C, h, n, p, d)
  BY DEF NearDone
<1>2. PICK h : Lacking(tr, C, h, n, p, d)
  BY <1>1
<1>3. PICK lo, hi, M : TreeShape(tr, C, lo, hi, M)
  BY DEF Shaped
<1>4. o \in Sides
  BY TwoSides
<1>5. p \in C /\ s # p
  <2>1. SiblingOf(tr, C, h, n, p, d)
    BY <1>2, <1>3, SiblingIs
  <2>. QED
    BY <1>2, <2>1 DEF SiblingOf, Lacking
<1>6. f \in C /\ s # f
  BY <1>1, <1>3, <1>4, ChildLinks
<1>7. tr \in Tree /\ p \in Keys /\ s \in Keys /\ f \in Keys /\ s # NULL
  <2> HIDE DEF f
  <2>. QED
    BY <1>1, <1>3, <1>5, <1>6, ChildLinks
<1>8. t3.child = tr.child /\ FarColours(tr, p, s, f, Recolour(t3, {}, {p, f}))
  BY <1>5, <1>6, <1>7, <1>a, FarColoursAre
<1>9. FarColours(tr, p, s, f, t4)
  BY <1>8, <1>b
<1>10. f = tr.child[s][o]
  OBVIOUS
<1> HIDE DEF f
<1>11. t4 \in Tree /\ t4.root = tr.root /\ t4.child = tr.child
       /\ t4.parent = tr.parent
  BY <1>9 DEF FarColours
<1>12. Shaped(t4, C)
  BY <1>11, SameShaped
<1>13. t4.child[p][Opposite(d)] # NULL
  BY <1>7, <1>11
<1>14. Rotated(t4, p, d, t5)
  BY <1>5, <1>12, <1>13, <1>c, ShapedRotate
<1>15. Shaped(t5, C)
  BY <1>5, <1>12, <1>13, <1>14, RotatedShaped
<1>16. \E h2 : Steady(t5, C, h2)
  BY <1>1, <1>2, <1>3, <1>9, <1>10, <1>14, FarKeeps
<1>17. PICK lo2, hi2, M2 : TreeShape(t5, C, lo2, hi2, M2)
  BY <1>15 DEF Shaped
<1>18. PICK h2 : Steady(t5, C, h2)
  BY <1>16
<1>19. Recoloured(t5, {}, {t5.root}, v)
  <2>1. t5 \in Tree
    BY <1>17, ChildLinks
  <2>. QED
    BY <1>c, <2>1, RecolourIs
<1>20. Steady(v, C, h2)
  BY <1>17, <1>18, <1>19, RootStays
<1>21. Shaped(v, C)
  <2>1. v \in Tree /\ v.root = t5.root /\ v.child = t5.child
        /\ v.parent = t5.parent
    BY <1>19 DEF Recoloured
  <2>. QED
    BY <1>15, <2>1, SameShaped
<1>. QED
  BY <1>20, <1>21 DEF Sound, Balanced

(* A sibling with a red child.                                             *)
LEMMA EraseRotateStep ==
  ASSUME NEW C, Sound(t, C, pc, node, parent), EraseRotate
  PROVE  Sound(t', C, pc', node', parent')
<1> DEFINE d == EraseSide
           o == Opposite(d)
           t1 == RedSibling(t, parent, d)
           s == t1.child[parent][o]
           t2 == IF IsBlack(t1, t1.child[s][o])
                 THEN Rotate(Recolour(t1, {s}, {t1.child[s][d]}), s, o)
                 ELSE t1
           other == t2.child[parent][o]
           t3 == [t2 EXCEPT !.red[other] = t2.red[parent]]
           t4 == Recolour(t3, {}, {parent, t3.child[other][o]})
           t5 == Rotate(t4, parent, d)
<1>1. /\ pc = "rb_erase_color" /\ EraseLoop /\ ~BothBlack(t1, s)
      /\ t' = Recolour(t5, {}, {t5.root})
      /\ pc' = "idle" /\ node' = NULL /\ parent' = NULL
  BY DEF EraseRotate
<1>2. /\ d \in Sides
      /\ \E lo, hi, M, h : /\ TreeShape(t, C, lo, hi, M)
                           /\ Lacking(t, C, h, node, parent, d)
  BY <1>1, EraseLoopNow
<1> HIDE DEF d
<1>3. PICK lo, hi, M, h : /\ TreeShape(t, C, lo, hi, M)
                          /\ Lacking(t, C, h, node, parent, d)
  BY <1>2
<1>4. Cleared(t1, C, node, parent, d)
  BY <1>2, <1>3, SiblingCleared
<1>5. t2 = IF IsBlack(t1, t1.child[s][o])
           THEN Rotate(Recolour(t1, {s}, {t1.child[s][d]}), s, o)
           ELSE t1
  OBVIOUS
<1>6. o = Opposite(d) /\ s = t1.child[parent][o] /\ other = t2.child[parent][o]
  OBVIOUS
<1>7. /\ t3 = [t2 EXCEPT !.red[other] = t2.red[parent]]
      /\ t4 = Recolour(t3, {}, {parent, t3.child[other][o]})
      /\ t5 = Rotate(t4, parent, d)
  OBVIOUS
<1> HIDE DEF o, t1, s, t2, other, t3, t4, t5
<1>8. Shaped(t2, C) /\ NearDone(C, node, parent, d, t2)
  BY <1>1, <1>2, <1>4, <1>5, <1>6, NearStep
<1>9. Sound(t', C, "idle", NULL, NULL)
  BY <1>1, <1>2, <1>6, <1>7, <1>8, FarStep
<1>. QED
  BY <1>1, <1>9

(* The end of __rb_erase_color.                                            *)
LEMMA EraseDoneStep ==
  ASSUME NEW C, Sound(t, C, pc, node, parent), EraseDone
  PROVE  Sound(t', C, pc', node', parent')
<1> DEFINE v == Recolour(t, {}, {node})
<1>1. /\ pc = "rb_erase_color" /\ ~(IsBlack(t, node) /\ node # t.root)
      /\ t' = v /\ pc' = "idle" /\ node' = NULL /\ parent' = NULL
  BY DEF EraseDone, EraseLoop
<1>2. PICK lo, hi, M, h, d : /\ TreeShape(t, C, lo, hi, M)
                             /\ Erasing(t, C, h, node, parent, d)
  BY <1>1, ErasingNow
<1>3. Recoloured(t, {}, {node}, v)
  <2>1. t \in Tree
    BY <1>2, ChildLinks
  <2>. QED
    BY <2>1, RecolourIs
<1> HIDE DEF v
<1>4. \E h2 : Steady(v, C, h2)
  BY <1>1, <1>2, <1>3, EraseDoneKeeps
<1>5. v \in Tree /\ v.root = t.root /\ v.child = t.child /\ v.parent = t.parent
  BY <1>3 DEF Recoloured
<1>6. Shaped(v, C)
  <2>1. TreeShape(v, C, lo, hi, M)
    BY <1>2, <1>5, SameLinks
  <2>. QED
    BY <2>1 DEF Shaped
<1>. QED
  BY <1>1, <1>4, <1>6 DEF Sound, Balanced

-----------------------------------------------------------------------------
(* The black nodes on the way down to a node, and the heights.             *)

(* The nodes above x, x included.                                          *)
Ups(C, lo, hi, x) == {m \in C : Within(lo, hi, m, x)}
BlackUps(tr, C, lo, hi, x) == {m \in Ups(C, lo, hi, x) : ~tr.red[m]}

(* The way to the root is the root.                                        *)
LEMMA UpsRoot ==
  ASSUME NEW tr, NEW C, NEW lo, NEW hi, NEW M, TreeShape(tr, C, lo, hi, M),
         C # {}
  PROVE  tr.root \in C /\ Ups(C, lo, hi, tr.root) = {tr.root}
<1> DEFINE r == tr.root
<1>1. r \in C
  BY ShapeLinks
<1>2. Shape(r, tr.child, tr.parent, C, lo, hi, M)
  BY DEF TreeShape
<1>3. lo[r] < r /\ r < hi[r]
  BY <1>1, <1>2 DEF Shape, Ranges
<1>4. ASSUME NEW m \in C, m # r, Within(lo, hi, m, r) PROVE FALSE
  <2>1. m \in Above(r, tr.parent, C, r)
    BY <1>1, <1>2, <1>4, Toward
  <2>2. Above(r, tr.parent, C, r) = {r}
    BY <1>1, FollowStop DEF Above
  <2>. QED
    BY <1>4, <2>1, <2>2
<1>. QED
  BY <1>1, <1>3, <1>4 DEF Ups, Within

(* The way to another node goes over its parent.                           *)
LEMMA UpsParent ==
  ASSUME NEW tr, NEW C, NEW lo, NEW hi, NEW M, TreeShape(tr, C, lo, hi, M),
         NEW x \in C, x # tr.root, NEW y, y = tr.parent[x]
  PROVE  /\ Ups(C, lo, hi, x) = {x} \cup Ups(C, lo, hi, y)
         /\ x \notin Ups(C, lo, hi, y)
<1> DEFINE r == tr.root
<1>1. Shape(r, tr.child, tr.parent, C, lo, hi, M)
  BY DEF TreeShape
<1>2. /\ y \in C /\ y # x /\ lo[y] <= lo[x] /\ hi[x] <= hi[y]
      /\ hi[x] - lo[x] < hi[y] - lo[y]
  BY <1>1, ParentRange
<1>3. \A m \in C : /\ m \in Nat /\ lo[m] \in Nat /\ hi[m] \in Nat
                   /\ lo[m] < m /\ m < hi[m]
  <2>1. C \subseteq Nat /\ C \in SUBSET Keys
    BY ShapeLinks
  <2>2. /\ M \in Nat /\ lo \in [Keys -> 0..M] /\ hi \in [Keys -> 0..M]
        /\ \A m \in C : lo[m] < m /\ m < hi[m]
    BY <1>1 DEF Shape, Ranges
  <2>3. \A m \in C : lo[m] \in 0..M /\ hi[m] \in 0..M
    BY <2>1, <2>2
  <2>. QED
    BY <2>1, <2>2, <2>3
<1>4. Above(r, tr.parent, C, x) = {x} \cup Above(r, tr.parent, C, y)
  <2>1. \A m \in C : m \notin {r} => tr.parent[m] \in C
    BY ShapeLinks
  <2>. QED
    BY <2>1, FollowStep DEF Above
<1>5. ASSUME NEW m \in C, m # x, Within(lo, hi, m, x)
      PROVE  Within(lo, hi, m, y)
  <2>1. m \in Above(r, tr.parent, C, x)
    BY <1>1, <1>5, Toward
  <2>2. m \in Above(r, tr.parent, C, y)
    BY <1>4, <1>5, <2>1
  <2>3. lo[m] <= lo[y] /\ hi[y] <= hi[m]
    BY <1>1, <1>2, <2>2, WayUp
  <2>4. m \in Nat /\ lo[m] \in Nat /\ hi[m] \in Nat /\ y \in Nat
        /\ lo[y] \in Nat /\ hi[y] \in Nat /\ lo[y] < y /\ y < hi[y]
    BY <1>2, <1>3
  <2>. QED
    BY <2>3, <2>4 DEF Within
<1>6. ASSUME NEW m \in C, Within(lo, hi, m, y)
      PROVE  Within(lo, hi, m, x) /\ m # x
  <2>1. lo[m] <= lo[y] /\ hi[y] <= hi[m]
    <3>1. CASE m = y
      BY <1>2, <1>3, <3>1
    <3>2. CASE m # y
      BY <1>1, <1>2, <1>6, <3>2, Toward
    <3>. QED
      BY <3>1, <3>2
  <2>2. /\ m \in Nat /\ lo[m] \in Nat /\ hi[m] \in Nat
        /\ x \in Nat /\ lo[x] \in Nat /\ hi[x] \in Nat
        /\ lo[y] \in Nat /\ hi[y] \in Nat /\ lo[x] < x /\ x < hi[x]
    BY <1>2, <1>3
  <2>3. lo[m] < x /\ x < hi[m]
    BY <1>2, <2>1, <2>2
  <2>4. m # x
    <3>1. SUFFICES ASSUME m = x PROVE FALSE
      OBVIOUS
    <3>2. lo[x] <= lo[y] /\ hi[y] <= hi[x]
      BY <2>1, <3>1
    <3>. QED
      BY <1>2, <2>2, <3>2
  <2>. QED
    BY <2>3, <2>4 DEF Within
<1>7. Within(lo, hi, x, x)
  BY <1>3 DEF Within
<1>. QED
  BY <1>5, <1>6, <1>7 DEF Ups

(* The number of black nodes grows by the node itself.                     *)
LEMMA BlackUpsGrow ==
  ASSUME NEW tr, NEW C, NEW lo, NEW hi, NEW M, TreeShape(tr, C, lo, hi, M),
         NEW x \in C, x # tr.root, NEW y, y = tr.parent[x]
  PROVE  /\ Cardinality(BlackUps(tr, C, lo, hi, y)) \in Nat
         /\ Cardinality(BlackUps(tr, C, lo, hi, x)) =
              Cardinality(BlackUps(tr, C, lo, hi, y))
                + (IF tr.red[x] THEN 0 ELSE 1)
<1> DEFINE B == BlackUps(tr, C, lo, hi, y)
<1>1. /\ Ups(C, lo, hi, x) = {x} \cup Ups(C, lo, hi, y)
      /\ x \notin Ups(C, lo, hi, y)
  BY UpsParent
<1>2. IsFiniteSet(B)
  <2>1. C \subseteq Keys
    BY ShapeLinks
  <2>2. B \subseteq Keys
    BY <2>1 DEF BlackUps, Ups
  <2>. QED
    BY <2>2, KeysAssumption, FS_Subset
<1>3. Cardinality(B) \in Nat /\ x \notin B
  BY <1>1, <1>2, FS_CardinalityType DEF BlackUps
<1>4. CASE tr.red[x]
  <2>1. BlackUps(tr, C, lo, hi, x) = B
    BY <1>1, <1>4 DEF BlackUps
  <2>. QED
    BY <1>3, <1>4, <2>1
<1>5. CASE ~tr.red[x]
  <2>1. BlackUps(tr, C, lo, hi, x) = B \cup {x}
    BY <1>1, <1>5 DEF BlackUps
  <2>2. Cardinality(B \cup {x}) = Cardinality(B) + 1
    BY <1>2, <1>3, FS_AddElement
  <2>. QED
    BY <1>3, <1>5, <2>1, <2>2
<1>. QED
  BY <1>4, <1>5

Counted(tr, C, lo, hi, h, n, x) ==
  Cardinality(BlackUps(tr, C, lo, hi, x)) + h[x] + Unit(n \in Ups(C, lo, hi, x))
    = h[tr.root] + Unit(n = tr.root) + (IF tr.red[x] THEN 0 ELSE 1)

ShortAt(tr, C, h, n, p, d) ==
  /\ d \in Sides /\ p \in C \cup {NULL}
  /\ p = NULL => n = tr.root \/ n = NULL
  /\ p # NULL => tr.child[p][d] = n
  /\ Heights(tr.child, C, h, Weight(tr.red, p, d))

(* The root.                                                               *)
LEMMA CountedRoot ==
  ASSUME NEW tr, NEW C, NEW lo, NEW hi, NEW M, TreeShape(tr, C, lo, hi, M),
         NEW h, NEW n, C # {}, h \in [Pointer -> Nat]
  PROVE  tr.root \in C /\ Counted(tr, C, lo, hi, h, n, tr.root)
<1> DEFINE r == tr.root
           B == BlackUps(tr, C, lo, hi, r)
           U == Ups(C, lo, hi, r)
<1>1. r \in C /\ U = {r}
  BY UpsRoot
<1>2. h[r] \in Nat
  BY <1>1, ChildLinks
<1>3. Cardinality(B) = IF tr.red[r] THEN 0 ELSE 1
  <2>1. CASE tr.red[r]
    <3>1. B = {}
      BY <1>1, <2>1 DEF BlackUps
    <3>. QED
      BY <2>1, <3>1, FS_EmptySet
  <2>2. CASE ~tr.red[r]
    <3>1. B = {r}
      BY <1>1, <2>2 DEF BlackUps
    <3>. QED
      BY <2>2, <3>1, FS_Singleton
  <2>. QED
    BY <2>1, <2>2
<1>4. Unit(n \in U) = Unit(n = r) /\ Unit(n = r) \in Nat
  BY <1>1 DEF Unit
<1> HIDE DEF B, U, r
<1>5. Cardinality(B) + h[r] + Unit(n \in U)
        = h[r] + Unit(n = r) + (IF tr.red[r] THEN 0 ELSE 1)
  BY <1>2, <1>3, <1>4
<1>. QED
  BY <1>1, <1>5 DEF Counted, B, U, r

(* The sum for a node from the sum for its parent.                         *)
LEMMA SameSum ==
  ASSUME NEW a \in Nat, NEW b, NEW bx \in Nat, NEW by \in Nat, NEW hx \in Nat,
         NEW hy \in Nat, NEW ux, NEW uy \in Nat, NEW q \in Nat, NEW K \in Nat,
         b = a + bx, hy = hx + by + q, ux = uy + q, a + hy + uy = K + by
  PROVE  b + hx + ux = K + bx
OBVIOUS

(* From a node to its child.                                               *)
LEMMA CountedChild ==
  ASSUME NEW tr, NEW C, NEW lo, NEW hi, NEW M, TreeShape(tr, C, lo, hi, M),
         NEW h, NEW n, NEW p, NEW d, NEW x \in C, NEW y
  PROVE  /\ ShortAt(tr, C, h, n, p, d)
         /\ x # tr.root /\ y = tr.parent[x]
         /\ Counted(tr, C, lo, hi, h, n, y)
         => Counted(tr, C, lo, hi, h, n, x)
<1> DEFINE U == Ups(C, lo, hi, y)
           a == Cardinality(BlackUps(tr, C, lo, hi, y))
           b == Cardinality(BlackUps(tr, C, lo, hi, x))
           bx == IF tr.red[x] THEN 0 ELSE 1
           by == IF tr.red[y] THEN 0 ELSE 1
           K == h[tr.root] + Unit(n = tr.root)
           q == Unit(n = x)
<1>a. SUFFICES ASSUME ShortAt(tr, C, h, n, p, d), x # tr.root,
                      y = tr.parent[x], Counted(tr, C, lo, hi, h, n, y)
               PROVE  Counted(tr, C, lo, hi, h, n, x)
  OBVIOUS
<1>1. y \in C /\ \E e \in Sides : tr.child[y][e] = x
  BY <1>a, ChildLinks
<1>2. PICK e \in Sides : tr.child[y][e] = x
  BY <1>1
<1>3. LinkHeight(tr, h, p, d, y, e)
  BY <1>1, <1>2, <1>a, HeightOf DEF ShortAt
<1>4. n = x <=> (y = p /\ e = d)
  <2>1. x # NULL /\ p \in C \cup {NULL} /\ d \in Sides
    BY <1>a, ChildLinks DEF ShortAt
  <2>2. ASSUME n = x PROVE y = p /\ e = d
    <3>1. p # NULL /\ tr.child[p][d] = x /\ p \in C
      BY <1>a, <2>1, <2>2 DEF ShortAt
    <3>2. y = p
      BY <1>a, <2>1, <3>1, ChildLinks
    <3>. QED
      BY <1>1, <1>2, <2>1, <3>1, <3>2, ChildLinks
  <2>3. ASSUME y = p, e = d PROVE n = x
    <3>1. p # NULL
      BY <1>1, <2>3, ChildLinks
    <3>. QED
      BY <1>2, <1>a, <2>3, <3>1 DEF ShortAt
  <2>. QED
    BY <2>2, <2>3
<1>5. /\ h[y] \in Nat /\ h[x] \in Nat /\ q \in Nat /\ bx \in Nat /\ by \in Nat
      /\ h[y] = h[x] + by + q
  BY <1>2, <1>3, <1>4 DEF LinkHeight, Unit
<1>6. a \in Nat /\ b = a + bx
  BY <1>a, BlackUpsGrow
<1>7. /\ Unit(n \in Ups(C, lo, hi, x)) = Unit(n \in U) + q
      /\ Unit(n \in U) \in Nat
  <2>1. Ups(C, lo, hi, x) = {x} \cup U /\ x \notin U
    BY <1>a, UpsParent
  <2> HIDE DEF U
  <2>. QED
    BY <2>1 DEF Unit
<1>8. K \in Nat
  <2>1. C # {}
    OBVIOUS
  <2>2. tr.root \in C
    BY <2>1, UpsRoot
  <2>3. tr.root \in Pointer /\ h \in [Pointer -> Nat]
    BY <1>a, <2>2, ChildLinks DEF ShortAt, Heights
  <2>. QED
    BY <2>3 DEF Unit
<1>9. a + h[y] + Unit(n \in U) = K + by
  BY <1>a DEF Counted
<1> DEFINE ux == Unit(n \in Ups(C, lo, hi, x))
           uy == Unit(n \in U)
<1>10. b + h[x] + ux = K + bx
  <2> HIDE DEF a, b, bx, by, K, q, ux, uy
  <2>1. ux = uy + q /\ uy \in Nat
    BY <1>7 DEF ux, uy
  <2>2. a + h[y] + uy = K + by
    BY <1>9 DEF uy
  <2>. QED
    BY <1>5, <1>6, <1>8, <2>1, <2>2, SameSum
<1>. QED
  BY <1>10 DEF Counted

(* Every node: a wrong one would have a parent that is wrong.              *)
LEMMA AllCounted ==
  ASSUME NEW tr, NEW C, NEW lo, NEW hi, NEW M, TreeShape(tr, C, lo, hi, M),
         NEW h, NEW n, NEW p, NEW d, ShortAt(tr, C, h, n, p, d)
  PROVE  \A x \in C : Counted(tr, C, lo, hi, h, n, x)
<1> DEFINE Bad == {x \in C : ~Counted(tr, C, lo, hi, h, n, x)}
           W == {M - (hi[x] - lo[x]) : x \in Bad}
<1>1. SUFFICES ASSUME Bad # {} PROVE FALSE
  OBVIOUS
<1>2. Shape(tr.root, tr.child, tr.parent, C, lo, hi, M)
  BY DEF TreeShape
<1>3. M \in Nat /\ \A x \in C : lo[x] \in 0..M /\ hi[x] \in 0..M
  <2>1. C \in SUBSET Keys
    BY ChildLinks
  <2>. QED
    BY <1>2, <2>1 DEF Shape, Ranges
<1>4. \A x \in C : M - (hi[x] - lo[x]) \in Nat
  <2>1. SUFFICES ASSUME NEW x \in C PROVE M - (hi[x] - lo[x]) \in Nat
    OBVIOUS
  <2>2. lo[x] \in 0..M /\ hi[x] \in 0..M
    BY <1>3
  <2>. QED
    BY <1>3, <2>2
<1>5. W \in SUBSET Nat /\ W # {}
  BY <1>1, <1>4
<1>6. PICK m \in W : \A k \in W : m <= k
  BY <1>5, LeastExists
<1>7. PICK x \in Bad : m = M - (hi[x] - lo[x])
  BY <1>6
<1>8. x \in C /\ ~Counted(tr, C, lo, hi, h, n, x)
  BY <1>7
<1>9. x # tr.root
  <2>1. h \in [Pointer -> Nat]
    BY DEF ShortAt, Heights
  <2>. QED
    BY <1>8, <2>1, CountedRoot
<1> DEFINE y == tr.parent[x]
<1>10. y \in C /\ hi[x] - lo[x] < hi[y] - lo[y]
  BY <1>2, <1>8, <1>9, ParentRange
<1>11. y \notin Bad
  <2>1. SUFFICES ASSUME y \in Bad PROVE FALSE
    OBVIOUS
  <2>2. M - (hi[y] - lo[y]) \in W
    BY <2>1
  <2> HIDE DEF W, Bad, y
  <2>3. m <= M - (hi[y] - lo[y])
    BY <1>6, <2>2
  <2>4. lo[x] \in 0..M /\ hi[x] \in 0..M /\ lo[y] \in 0..M /\ hi[y] \in 0..M
    BY <1>3, <1>8, <1>10
  <2>. QED
    BY <1>3, <1>7, <1>10, <2>3, <2>4
<1>12. Counted(tr, C, lo, hi, h, n, y)
  BY <1>10, <1>11
<1>13. y = tr.parent[x]
  OBVIOUS
<1> HIDE DEF y
<1>. QED
  BY <1>8, <1>9, <1>12, <1>13, CountedChild

(* How many ends a missing black node is missing at.                       *)
ShortHere(C, lo, hi, n, p, d) ==
  \A x \in C, e \in Sides : t.child[x][e] = NULL =>
    Unit(Short(x, e)) = Unit(n \in Ups(C, lo, hi, x)) + Unit(x = p /\ e = d)

(* No node is missing unless a removal is running.                         *)
LEMMA NothingShort ==
  ASSUME NEW C, NEW lo, NEW hi, NEW M, TreeShape(t, C, lo, hi, M), NEW h,
         pc # "rb_erase_color",
         Heights(t.child, C, h, Weight(t.red, NULL, "left"))
  PROVE  /\ ShortAt(t, C, h, NULL, NULL, "left")
         /\ ShortHere(C, lo, hi, NULL, NULL, "left")
<1>1. ShortAt(t, C, h, NULL, NULL, "left")
  BY DEF ShortAt, Sides
<1>2. NULL \notin C
  BY ShapeLinks
<1>3. ASSUME NEW x \in C, NEW e \in Sides
      PROVE  Unit(Short(x, e)) =
               Unit(NULL \in Ups(C, lo, hi, x)) + Unit(x = NULL /\ e = "left")
  <2>1. ~Short(x, e)
    BY DEF Short
  <2>2. NULL \notin Ups(C, lo, hi, x) /\ x # NULL
    BY <1>2 DEF Ups
  <2>. QED
    BY <2>1, <2>2 DEF Unit
<1>. QED
  BY <1>1, <1>3 DEF ShortHere

(* While one runs, what is short is what is below its node, which may be a *)
(* missing child.                                                          *)
LEMMA OneShort ==
  ASSUME NEW C, NEW lo, NEW hi, NEW M, TreeShape(t, C, lo, hi, M), NEW h, NEW d,
         pc = "rb_erase_color", Erasing(t, C, h, node, parent, d)
  PROVE  /\ ShortAt(t, C, h, node, parent, d)
         /\ ShortHere(C, lo, hi, node, parent, d)
<1>1. /\ node \in C \cup {NULL} /\ parent \in C \cup {NULL} /\ d \in Sides
      /\ parent = NULL => node = t.root
      /\ parent # NULL => t.child[parent][d] = node
      /\ Heights(t.child, C, h, Weight(t.red, parent, d))
  BY DEF Erasing
<1>2. ShortAt(t, C, h, node, parent, d)
  BY <1>1 DEF ShortAt
<1>3. (NULL \notin C /\ t.root # NULL) \/ C = {}
  BY ShapeLinks
<1>4. ASSUME NEW x \in C, NEW e \in Sides, t.child[x][e] = NULL
      PROVE  Unit(Short(x, e)) =
               Unit(node \in Ups(C, lo, hi, x)) + Unit(x = parent /\ e = d)
  <2>1. NULL \notin C /\ t.root # NULL /\ x # NULL
    BY <1>3
  <2>2. CASE node = NULL
    <3>1. node \notin Ups(C, lo, hi, x)
      BY <2>1, <2>2 DEF Ups
    <3>2. Short(x, e) <=> x = parent /\ e = EraseSide
      BY <2>2 DEF Short
    <3>3. x = parent => EraseSide = d
      <4>1. SUFFICES ASSUME x = parent PROVE EraseSide = d
        OBVIOUS
      <4>2. IsBlack(t, node) /\ node # t.root
        BY <2>1, <2>2 DEF IsBlack
      <4>3. Lacking(t, C, h, node, parent, d)
        BY <4>2, LackingIs
      <4>4. SiblingOf(t, C, h, node, parent, d)
        BY <4>3, SiblingIs
      <4>. QED
        BY <4>4 DEF SiblingOf, EraseSide
    <3>4. Short(x, e) <=> x = parent /\ e = d
      BY <3>2, <3>3
    <3>. QED
      BY <3>1, <3>4 DEF Unit
  <2>3. CASE node # NULL
    <3>1. node \in C
      BY <1>1, <2>3
    <3>2. Short(x, e) <=> x \in Subtree(t, node)
      BY <2>3 DEF Short
    <3>3. Subtree(t, node) = {m \in C : Within(lo, hi, node, m)}
      BY <3>1, SubtreeIs
    <3>4. Short(x, e) <=> node \in Ups(C, lo, hi, x)
      BY <3>1, <3>2, <3>3 DEF Ups
    <3>5. ~(x = parent /\ e = d)
      <4>1. SUFFICES ASSUME x = parent, e = d PROVE FALSE
        OBVIOUS
      <4>. QED
        BY <1>1, <1>4, <2>1, <2>3, <4>1
    <3>. QED
      BY <3>4, <3>5 DEF Unit
  <2>. QED
    BY <2>2, <2>3
<1>. QED
  BY <1>2, <1>4 DEF ShortHere

(* All ends are equally far down.                                          *)
LEMMA EndsEven ==
  ASSUME NEW C, NEW lo, NEW hi, NEW M, TreeShape(t, C, lo, hi, M),
         NEW h, NEW n, NEW p, NEW d, ShortAt(t, C, h, n, p, d),
         ShortHere(C, lo, hi, n, p, d)
  PROVE  BlackHeight
<1> DEFINE K == h[t.root] + Unit(n = t.root)
<1>1. Contents = C
  BY ShapeGives
<1>2. ASSUME NEW x \in C, NEW e \in Sides, t.child[x][e] = NULL
      PROVE  BlacksAbove(x) + (IF Short(x, e) THEN 1 ELSE 0) = K
  <2> DEFINE b == Cardinality(BlackUps(t, C, lo, hi, x))
             bx == IF t.red[x] THEN 0 ELSE 1
             u == Unit(n \in Ups(C, lo, hi, x))
             q == Unit(x = p /\ e = d)
             s == IF Short(x, e) THEN 1 ELSE 0
  <2>1. BlacksAbove(x) = b
    <3>1. \A m \in C : x \in Subtree(t, m) <=> Within(lo, hi, m, x)
      BY SubtreeIs
    <3>2. {m \in C : x \in Subtree(t, m) /\ ~t.red[m]} =
            BlackUps(t, C, lo, hi, x)
      BY <3>1 DEF BlackUps, Ups
    <3>. QED
      BY <1>1, <3>2 DEF BlacksAbove
  <2>2. b + h[x] + u = K + bx
    <3>1. Counted(t, C, lo, hi, h, n, x)
      BY AllCounted
    <3>. QED
      BY <3>1 DEF Counted
  <2>3. s = u + q
    <3>1. Unit(Short(x, e)) = u + q
      BY <1>2 DEF ShortHere
    <3>. QED
      BY <3>1 DEF Unit
  <2>4. h[x] = bx + q
    <3>1. LinkHeight(t, h, p, d, x, e)
      BY HeightOf DEF ShortAt
    <3>2. h[NULL] = 0
      BY DEF ShortAt, Heights
    <3>. QED
      BY <1>2, <3>1, <3>2 DEF LinkHeight, Unit
  <2>5. b \in Nat
    <3>1. C \subseteq Keys
      BY ShapeLinks
    <3>2. BlackUps(t, C, lo, hi, x) \subseteq Keys
      BY <3>1 DEF BlackUps, Ups
    <3>3. IsFiniteSet(BlackUps(t, C, lo, hi, x))
      BY <3>2, KeysAssumption, FS_Subset
    <3>. QED
      BY <3>3, FS_CardinalityType
  <2>6. bx \in Nat /\ u \in Nat /\ q \in Nat
    BY DEF Unit
  <2>7. K \in Nat
    <3>1. C # {}
      OBVIOUS
    <3>2. t.root \in C
      BY <3>1, UpsRoot
    <3>3. t.root \in Pointer /\ h \in [Pointer -> Nat]
      BY <3>2, ChildLinks DEF ShortAt, Heights
    <3>. QED
      BY <3>3 DEF Unit
  <2>8. b + s = K
    <3> HIDE DEF b, bx, u, q, s, K
    <3>1. b + (bx + q) + u = K + bx
      BY <2>2, <2>4
    <3>. QED
      BY <2>3, <2>5, <2>6, <2>7, <3>1
  <2>. QED
    BY <2>1, <2>8
<1> HIDE DEF K
<1>3. ASSUME NEW z \in Contents \X Sides, t.child[z[1]][z[2]] = NULL
      PROVE  BlacksAbove(z[1]) + (IF Short(z[1], z[2]) THEN 1 ELSE 0) = K
  <2>1. z[1] \in C /\ z[2] \in Sides
    BY <1>1
  <2>. QED
    BY <1>2, <1>3, <2>1
<1>. QED
  BY <1>3 DEF BlackHeight

(* Red nodes have black parents but for what is being repaired.            *)
LEMMA RedPairs ==
  ASSUME NEW C, NEW lo, NEW hi, NEW M, TreeShape(t, C, lo, hi, M),
         Balanced(t, C, pc, node, parent)
  PROVE  NoRedPair
<1> DEFINE X == IF pc = "idle" THEN {}
                ELSE IF pc = "rb_insert_color" THEN {node}
                ELSE {m \in C : m = node \/ (m # t.root /\ t.parent[m] = node)}
<1>1. Contents = C
  BY ShapeGives
<1>2. Pairs(t, C, X) /\ pc \in {"idle", "rb_insert_color", "rb_erase_color"}
  BY DEF Balanced, Steady, Inserting, Erasing
<1>3. ASSUME NEW n \in C, t.red[n], ~IsBlack(t, t.parent[n]) \/ n = t.root
      PROVE  n \in X
  <2>1. n = t.root \/ t.red[t.parent[n]]
    BY <1>3 DEF IsBlack
  <2>. QED
    BY <1>2, <1>3, <2>1 DEF Pairs
<1>4. \A n \in X : \/ pc # "idle" /\ n = node
                   \/ pc = "rb_erase_color" /\ n # t.root /\ t.parent[n] = node
  BY <1>2
<1> HIDE DEF X
<1>. QED
  BY <1>1, <1>3, <1>4 DEF NoRedPair

(* The nodes that the loops take for granted.                              *)
LEMMA NodesThere ==
  ASSUME NEW C, Sound(t, C, pc, node, parent)
  PROVE  NoNullDeref
<1>1. ASSUME pc = "rb_insert_color", InsertLoop PROVE Gparent # NULL
  <2>1. PICK lo, hi, M, h : TreeShape(t, C, lo, hi, M)
                            /\ Inserting(t, C, h, node)
    BY <1>1, InsertingNow
  <2> DEFINE p == t.parent[node]
             g == t.parent[p]
  <2>2. p # NULL /\ t.red[p] /\ Gparent = g
    BY <1>1 DEF InsertLoop, Gparent
  <2>3. g \in C
    BY <2>1, <2>2, InsertNodes
  <2>. QED
    BY <2>1, <2>2, <2>3, ShapeLinks
<1>2. ASSUME pc = "rb_erase_color", EraseLoop
      PROVE  /\ parent # NULL
             /\ LET s == t.child[parent][Opposite(EraseSide)]
                IN s # NULL /\ (t.red[s] => t.child[s][EraseSide] # NULL)
  <2> DEFINE d == EraseSide
             s == t.child[parent][Opposite(d)]
  <2>1. /\ d \in Sides
        /\ \E lo, hi, M, h : /\ TreeShape(t, C, lo, hi, M)
                             /\ Lacking(t, C, h, node, parent, d)
    BY <1>2, EraseLoopNow
  <2>2. PICK lo, hi, M, h : /\ TreeShape(t, C, lo, hi, M)
                            /\ Lacking(t, C, h, node, parent, d)
    BY <2>1
  <2>3. SiblingOf(t, C, h, node, parent, d)
    BY <2>2, SiblingIs
  <2>4. parent \in C /\ NULL \notin C
    BY <2>2, ShapeLinks DEF Lacking
  <2> HIDE DEF d
  <2>5. s \in C /\ (t.red[s] => t.child[s][d] \in C)
    BY <2>1, <2>3 DEF SiblingOf
  <2>6. parent # NULL /\ s # NULL /\ (t.red[s] => t.child[s][d] # NULL)
    BY <2>4, <2>5
  <2>. QED
    BY <2>6 DEF d
<1>. QED
  BY <1>1, <1>2 DEF NoNullDeref

(* What the invariant says about the state.                                *)
LEMMA SoundGives ==
  ASSUME NEW C, Sound(t, C, pc, node, parent)
  PROVE  Contents = C /\ SearchTree /\ RedBlack
<1>1. PICK lo, hi, M : TreeShape(t, C, lo, hi, M)
  BY DEF Sound, Shaped
<1>2. Contents = C /\ LinksSound /\ SearchOrder /\ WalkInOrder
  BY <1>1, ShapeGives
<1>3. Balanced(t, C, pc, node, parent)
  BY DEF Sound
<1>4. TypeOK
  <2>1. t \in Tree
    BY <1>1, ShapeLinks
  <2>2. pc \in {"idle", "rb_insert_color", "rb_erase_color"}
    BY <1>3 DEF Balanced
  <2>3. node \in C \cup {NULL} /\ parent \in C \cup {NULL}
    BY <1>3 DEF Balanced, Inserting, Erasing
  <2>. QED
    BY <1>2, <2>1, <2>2, <2>3 DEF TypeOK
<1>5. BlackHeight
  <2>1. CASE pc # "rb_erase_color"
    <3>1. \E h : Heights(t.child, C, h, Weight(t.red, NULL, "left"))
      BY <1>3, <2>1 DEF Balanced, Steady, Inserting
    <3>2. PICK h : Heights(t.child, C, h, Weight(t.red, NULL, "left"))
      BY <3>1
    <3>3. /\ ShortAt(t, C, h, NULL, NULL, "left")
          /\ ShortHere(C, lo, hi, NULL, NULL, "left")
      BY <1>1, <2>1, <3>2, NothingShort
    <3>. QED
      BY <1>1, <3>3, EndsEven
  <2>2. CASE pc = "rb_erase_color"
    <3>1. \E h, d : Erasing(t, C, h, node, parent, d)
      BY <1>3, <2>2 DEF Balanced
    <3>2. PICK h, d : Erasing(t, C, h, node, parent, d)
      BY <3>1
    <3>3. /\ ShortAt(t, C, h, node, parent, d)
          /\ ShortHere(C, lo, hi, node, parent, d)
      BY <1>1, <2>2, <3>2, OneShort
    <3>. QED
      BY <1>1, <3>3, EndsEven
  <2>. QED
    BY <2>1, <2>2
<1>6. NoRedPair
  BY <1>1, <1>3, RedPairs
<1>7. NoNullDeref
  BY NodesThere
<1>. QED
  BY <1>2, <1>4, <1>5, <1>6, <1>7 DEF SearchTree, RedBlack

-----------------------------------------------------------------------------
(* The theorems.                                                           *)

SetStep(C, D) ==
  \/ \E k \in Keys \ C : D = C \cup {k}
  \/ \E k \in C : D = C \ {k}
  \/ \E v \in C, k \in Keys \ C :
       /\ D = (C \ {v}) \cup {k}
       /\ \A e \in C \ {v} : e < v <=> e < k

(* Every step keeps the invariant, and changes the set of nodes only as    *)
(* the operations on a set do.                                             *)
LEMMA StepSound ==
  ASSUME NEW C, Sound(t, C, pc, node, parent), Next
  PROVE  \E D : Sound(t', D, pc', node', parent') /\ (D = C \/ SetStep(C, D))
<1>1. ASSUME NEW k \in Keys, my_insert(k)
      PROVE  \E D : Sound(t', D, pc', node', parent') /\ SetStep(C, D)
  BY <1>1, InsertStep DEF SetStep
<1>2. ASSUME NEW k \in Keys, rb_erase(k)
      PROVE  \E D : Sound(t', D, pc', node', parent') /\ SetStep(C, D)
  BY <1>2, EraseStep DEF SetStep
<1>3. ASSUME NEW v \in Keys, NEW k \in Keys, rb_replace_node(v, k)
      PROVE  \E D : Sound(t', D, pc', node', parent') /\ SetStep(C, D)
  <2> DEFINE D == (C \ {v}) \cup {k}
  <2>1. /\ v \in C /\ k \notin C
        /\ \A e \in C \ {v} : e < v <=> e < k
        /\ Sound(t', D, pc', node', parent')
    BY <1>3, ReplaceStep
  <2>2. SetStep(C, D)
    BY <2>1 DEF SetStep
  <2> HIDE DEF D
  <2>. QED
    BY <2>1, <2>2
<1>4. ASSUME Loop PROVE Sound(t', C, pc', node', parent')
  BY <1>4, InsertRecolourStep, InsertRotateStep, InsertDoneStep,
     EraseRecolourStep, EraseRotateStep, EraseDoneStep DEF Loop
<1>. QED
  BY <1>1, <1>2, <1>3, <1>4 DEF Next

(* The invariant holds after every step.                                   *)
LEMMA IInvStep == IInv /\ [Next]_vars => IInv'
<1> SUFFICES ASSUME IInv, [Next]_vars PROVE IInv'
  OBVIOUS
<1>1. PICK C : Sound(t, C, pc, node, parent)
  BY DEF IInv
<1>2. CASE Next
  <2>1. \E D : Sound(t', D, pc', node', parent')
    BY <1>1, <1>2, StepSound
  <2>. QED
    BY <2>1 DEF IInv
<1>3. CASE UNCHANGED vars
  <2>1. t' = t /\ pc' = pc /\ node' = node /\ parent' = parent
    BY <1>3 DEF vars
  <2>2. Sound(t', C, pc', node', parent')
    BY <1>1, <2>1
  <2>. QED
    BY <2>2 DEF IInv
<1>. QED
  BY <1>2, <1>3

(* In every state the nodes form a tree whose balance is right but for the *)
(* one place that the running loop of rbtree.c is repairing.               *)
THEOREM TreeSound == Spec => []IInv
<1>1. Init => IInv
  BY InitSound DEF IInv
<1>. QED
  BY <1>1, IInvStep, PTL DEF Spec

(* The links are those of a search tree after every step, rotations and    *)
(* the exchange with the successor included, and rb_first, rb_next and     *)
(* their mirrors walk it in the order of the keys.                         *)
THEOREM SearchTreeCorrect == Spec => []SearchTree
<1>1. IInv => SearchTree
  BY SoundGives DEF IInv
<1>. QED
  BY <1>1, TreeSound, PTL

(* Colours and black heights are right in every state, up to what the loop *)
(* repairs, and the loops find the grandparent and the sibling that they   *)
(* dereference.                                                            *)
THEOREM RedBlackCorrect == Spec => []RedBlack
<1>1. IInv => RedBlack
  BY SoundGives DEF IInv
<1>. QED
  BY <1>1, TreeSound, PTL

(* my_insert adds its node, rb_erase removes the one it was given and      *)
(* rb_replace_node exchanges two, and the repairs change nothing: the tree *)
(* implements the ordered set.                                             *)
THEOREM ImplementsOrderedSet == Spec => ImplementsSet
<1>1. Init => Set!Init
  <2> SUFFICES ASSUME Init PROVE Contents = {}
    BY DEF Set!Init
  <2>1. Sound(t, {}, pc, node, parent)
    BY InitSound
  <2>. QED
    BY <2>1, SoundGives
<1>2. IInv /\ [Next]_vars => [Set!Next]_(Contents)
  <2> SUFFICES ASSUME IInv, [Next]_vars
               PROVE  Set!Next \/ Contents' = Contents
    OBVIOUS
  <2>1. PICK C : Sound(t, C, pc, node, parent)
    BY DEF IInv
  <2>2. Contents = C
    BY <2>1, SoundGives
  <2>3. CASE Next
    <3>1. PICK D : /\ Sound(t', D, pc', node', parent')
                   /\ D = C \/ SetStep(C, D)
      BY <2>1, <2>3, StepSound
    <3>2. PICK lo, hi, M : TreeShape(t', D, lo, hi, M)
      BY <3>1 DEF Sound, Shaped
    <3>3. Subtree(t', t'.root) = D
      BY <3>2, ContentsIs
    <3>4. Contents' = D
      BY <3>3 DEF Contents
    <3>5. SetStep(Contents, Contents') => Set!Next
      BY DEF SetStep, Set!Next, Set!Insert, Set!Erase, Set!Replace
    <3>. QED
      BY <2>2, <3>1, <3>4, <3>5
  <2>4. CASE UNCHANGED vars
    <3>1. t' = t
      BY <2>4 DEF vars
    <3>. QED
      BY <3>1 DEF Contents
  <2>. QED
    BY <2>3, <2>4
<1>. QED
  BY <1>1, <1>2, TreeSound, PTL DEF Spec, ImplementsSet, Set!Spec
=============================================================================
