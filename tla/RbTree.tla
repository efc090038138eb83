------------------------------- MODULE RbTree -------------------------------
(***************************************************************************)
(* The red-black tree of rbtree.c, used the way tests/rbtree_test.c uses   *)
(* it.  A node is named by its key.  A tree t is a record of the fields of *)
(* the nodes: t.child[n] has rb_left and rb_right, t.parent[n] and         *)
(* t.red[n] are the two parts of rb_parent_color.                          *)
(*                                                                         *)
(* The left and the right branches of the code are each other's mirror     *)
(* image, and are one definition here with the side as a parameter.  One   *)
(* iteration of a loop that changes the tree is one action.                *)
(***************************************************************************)
EXTENDS Integers, FiniteSets

CONSTANT Keys

ASSUME KeysAssumption ==
  IsFiniteSet(Keys) /\ Keys \subseteq Nat \ {0}

NULL == 0
Pointer == Keys \cup {NULL}
Sides == {"left", "right"}
Opposite(d) == IF d = "left" THEN "right" ELSE "left"

VARIABLES
  t,       \* the tree: root and the fields of the nodes
  pc,      \* "idle", or the function whose loop is running
  node,    \* its variables node
  parent   \* and parent
vars == <<t, pc, node, parent>>

Tree == [root : Pointer, child : [Keys -> [Sides -> Pointer]],
         parent : [Keys -> Pointer], red : [Keys -> BOOLEAN]]

NoChildren == [d \in Sides |-> NULL]
Init ==
  /\ t = [root |-> NULL, child |-> [k \in Keys |-> NoChildren],
          parent |-> [k \in Keys |-> NULL], red |-> [k \in Keys |-> FALSE]]
  /\ pc = "idle"
  /\ node = NULL /\ parent = NULL

-----------------------------------------------------------------------------
(* Fields *)

rb_set_parent(tr, n, p) ==
  IF n = NULL THEN tr ELSE [tr EXCEPT !.parent[n] = p]
Recolour(tr, reds, blacks) ==
  [tr EXCEPT !.red = [n \in Keys |-> n \in reds \/ (@[n] /\ n \notin blacks)]]
IsBlack(tr, n) == IF n = NULL THEN TRUE ELSE ~tr.red[n]
SideOf(tr, n) ==
  IF tr.child[tr.parent[n]]["left"] = n THEN "left" ELSE "right"

(* The link that leads from p, or from the root, to old is set to new. *)
Relink(tr, p, old, new) ==
  IF p = NULL THEN [tr EXCEPT !.root = new]
  ELSE LET d == IF tr.child[p]["left"] = old THEN "left" ELSE "right"
       IN [tr EXCEPT !.child[p][d] = new]

(* __rb_rotate_left and __rb_rotate_right: n goes down to side d. *)
Rotate(tr, n, d) ==
  LET o == Opposite(d)
      c == tr.child[n][o]
      t1 == [tr EXCEPT !.child[n][o] = tr.child[c][d], !.child[c][d] = n]
      t2 == rb_set_parent(t1, tr.child[c][d], n)
      t3 == rb_set_parent(t2, c, tr.parent[n])
  IN rb_set_parent(Relink(t3, tr.parent[n], n, c), n, c)

-----------------------------------------------------------------------------
(* Insertion *)

(* The search of my_insert: <<where, side>> of the free link for k.  With  *)
(* k in the tree it ends at k.                                             *)
Descend(tr, k) ==
  LET from[n \in Keys] ==
        LET d == IF k < n THEN "left" ELSE "right"
        IN IF n = k \/ tr.child[n][d] = NULL THEN <<n, d>>
           ELSE from[tr.child[n][d]]
  IN IF tr.root = NULL THEN <<NULL, "left">> ELSE from[tr.root]

rb_link_node(tr, k, p, d) ==
  LET t1 == [tr EXCEPT !.parent[k] = p, !.red[k] = TRUE,
                       !.child[k] = NoChildren]
  IN IF p = NULL THEN [t1 EXCEPT !.root = k] ELSE [t1 EXCEPT !.child[p][d] = k]

my_insert(k) ==
  /\ pc = "idle"
  /\ Descend(t, k)[1] # k
  /\ t' = rb_link_node(t, k, Descend(t, k)[1], Descend(t, k)[2])
  /\ node' = k
  /\ pc' = "rb_insert_color"
  /\ UNCHANGED parent

InsertLoop == t.parent[node] # NULL /\ t.red[t.parent[node]]
Gparent == t.parent[t.parent[node]]
Uncle == t.child[Gparent][Opposite(SideOf(t, t.parent[node]))]

InsertRecolour ==
  /\ pc = "rb_insert_color"
  /\ InsertLoop
  /\ ~IsBlack(t, Uncle)
  /\ t' = Recolour(t, {Gparent}, {Uncle, t.parent[node]})
  /\ node' = Gparent
  /\ UNCHANGED <<pc, parent>>

InnerRotation(tr, n, p, d) ==
  IF tr.child[p][Opposite(d)] = n THEN Rotate(tr, p, d) ELSE tr

InsertRotate ==
  /\ pc = "rb_insert_color"
  /\ InsertLoop
  /\ IsBlack(t, Uncle)
  /\ LET p == t.parent[node]
         g == Gparent
         d == SideOf(t, p)
         inner == t.child[p][Opposite(d)] = node
         t1 == InnerRotation(t, node, p, d)
         t2 == Recolour(t1, {g}, {IF inner THEN node ELSE p})
     IN /\ t' = Rotate(t2, g, Opposite(d))
        /\ node' = IF inner THEN p ELSE node
  /\ UNCHANGED <<pc, parent>>

InsertDone ==
  /\ pc = "rb_insert_color"
  /\ ~InsertLoop
  /\ t' = Recolour(t, {}, {t.root})
  /\ pc' = "idle"
  /\ node' = NULL
  /\ UNCHANGED parent

-----------------------------------------------------------------------------
(* Removal *)

(* The last node on the way from n down side d. *)
Extreme(tr, n, d) ==
  LET from[m \in Keys] ==
        IF tr.child[m][d] = NULL THEN m ELSE from[tr.child[m][d]]
  IN IF n = NULL THEN NULL ELSE from[n]

SpliceOne_left(tr, n) ==    \* mutant: a right child is lost
  LET c == tr.child[n]["left"]
      p == tr.parent[n]
  IN [tree |-> Relink(rb_set_parent(tr, c, p), p, n, c),
      child |-> c, parent |-> p, black |-> ~tr.red[n]]
(* What rb_erase hands to __rb_erase_color: the tree without the node, the *)
(* child that moved up, its parent, and the colour that went missing.      *)
SpliceOne(tr, n) ==
  LET c == IF tr.child[n]["left"] = NULL THEN tr.child[n]["right"]
           ELSE tr.child[n]["left"]
      p == tr.parent[n]
  IN [tree |-> Relink(rb_set_parent(tr, c, p), p, n, c),
      child |-> c, parent |-> p, black |-> ~tr.red[n]]

(* The parent of the place the successor n left, when p was its parent. *)
LeftParent_old(n, p, old) == p     \* mutant: old itself, though it goes away
LeftParent(n, p, old) == IF p = old THEN n ELSE p

(* The node has two children: its successor n takes its place and colour. *)
SpliceTwo(tr, old) ==
  LET n == Extreme(tr, tr.child[old]["right"], "left")
      c == tr.child[n]["right"]
      p == tr.parent[n]
      t1 == Relink(tr, tr.parent[old], old, n)
      t2 == IF p = old THEN t1
            ELSE rb_set_parent(
                   [rb_set_parent(t1, c, p) EXCEPT
                      !.child[p]["left"] = c,
                      !.child[n]["right"] = tr.child[old]["right"]],
                   tr.child[old]["right"], n)
      t3 == [t2 EXCEPT !.parent[n] = tr.parent[old], !.red[n] = tr.red[old],
                       !.child[n]["left"] = tr.child[old]["left"]]
  IN [tree |-> rb_set_parent(t3, tr.child[old]["left"], n),
      child |-> c, parent |-> LeftParent(n, p, old), black |-> ~tr.red[n]]

(* my_delete frees the node. *)
Freed(tr, k) == [tr EXCEPT !.child[k] = NoChildren, !.parent[k] = NULL,
                           !.red[k] = FALSE]

rb_erase(k) ==
  /\ pc = "idle"
  /\ t.root # NULL /\ Descend(t, k)[1] = k
  /\ LET two == \A d \in Sides : t.child[k][d] # NULL
         s == IF two THEN SpliceTwo(t, k) ELSE SpliceOne(t, k)
     IN /\ t' = Freed(s.tree, k)
        /\ node' = IF s.black THEN s.child ELSE NULL
        /\ parent' = IF s.black THEN s.parent ELSE NULL
        /\ pc' = IF s.black THEN "rb_erase_color" ELSE "idle"

EraseLoop == IsBlack(t, node) /\ node # t.root
EraseSide == IF t.child[parent]["left"] = node THEN "left" ELSE "right"

RedSibling_once(tr, p, d) ==  \* mutant: the parent stays black
  LET s == tr.child[p][Opposite(d)]
  IN IF tr.red[s] THEN Rotate(Recolour(tr, {}, {s}), p, d) ELSE tr
(* A red sibling is rotated away: the new one is black. *)
RedSibling(tr, p, d) ==
  LET s == tr.child[p][Opposite(d)]
  IN IF tr.red[s] THEN Rotate(Recolour(tr, {p}, {s}), p, d) ELSE tr

BothBlack(tr, n) == \A d \in Sides : IsBlack(tr, tr.child[n][d])

EraseRecolour_stay ==      \* mutant: the loop does not go up
  /\ pc = "rb_erase_color"
  /\ EraseLoop
  /\ LET t1 == RedSibling(t, parent, EraseSide)
         other == t1.child[parent][Opposite(EraseSide)]
     IN /\ BothBlack(t1, other)
        /\ t' = t1
  /\ UNCHANGED <<pc, node, parent>>
EraseRecolour ==
  /\ pc = "rb_erase_color"
  /\ EraseLoop
  /\ LET t1 == RedSibling(t, parent, EraseSide)
         other == t1.child[parent][Opposite(EraseSide)]
     IN /\ BothBlack(t1, other)
        /\ t' = Recolour(t1, {other}, {})
        /\ node' = parent
        /\ parent' = t1.parent[parent]
  /\ UNCHANGED pc

(* A child of the sibling is red: one or two rotations end the loop. *)
EraseRotate ==
  /\ pc = "rb_erase_color"
  /\ EraseLoop
  /\ LET d == EraseSide
         o == Opposite(d)
         t1 == RedSibling(t, parent, d)
         s == t1.child[parent][o]
         t2 == IF IsBlack(t1, t1.child[s][o])
               THEN Rotate(Recolour(t1, {s}, {t1.child[s][d]}), s, o)
               ELSE t1
         other == t2.child[parent][o]
         t3 == [t2 EXCEPT !.red[other] = t2.red[parent]]
         t4 == Recolour(t3, {}, {parent, t3.child[other][o]})
         t5 == Rotate(t4, parent, d)
     IN /\ ~BothBlack(t1, s)
        /\ t' = Recolour(t5, {}, {t5.root})
  /\ pc' = "idle"
  /\ node' = NULL /\ parent' = NULL

EraseDone ==
  /\ pc = "rb_erase_color"
  /\ ~EraseLoop
  /\ t' = Recolour(t, {}, {node})
  /\ pc' = "idle"
  /\ node' = NULL /\ parent' = NULL

-----------------------------------------------------------------------------
(* Walking the tree, and rb_replace_node *)

rb_first(tr) == Extreme(tr, tr.root, "left")
rb_last(tr) == Extreme(tr, tr.root, "right")

(* rb_next (d is "right") and rb_prev ("left").  The test for a node that  *)
(* is its own parent is for RB_CLEAR_NODE, which nothing uses.             *)
Neighbour(tr, n, d) ==
  LET up[m \in Keys] ==
        LET p == tr.parent[m]
        IN IF p # NULL /\ tr.child[p][d] = m THEN up[p] ELSE p
  IN IF tr.child[n][d] # NULL
     THEN Extreme(tr, tr.child[n][d], Opposite(d))
     ELSE up[n]
rb_next(tr, n) == Neighbour(tr, n, "right")
rb_prev(tr, n) == Neighbour(tr, n, "left")

(* The caller's part is that new fits where victim was. *)
rb_replace_node(victim, new) ==
  /\ pc = "idle"
  /\ t.root # NULL /\ Descend(t, victim)[1] = victim
  /\ Descend(t, new)[1] # new
  /\ rb_prev(t, victim) < new
  /\ rb_next(t, victim) = NULL \/ new < rb_next(t, victim)
  /\ LET t1 == Relink(t, t.parent[victim], victim, new)
         t2 == rb_set_parent(t1, t.child[victim]["left"], new)
         t3 == rb_set_parent(t2, t.child[victim]["right"], new)
     IN t' = Freed([t3 EXCEPT !.child[new] = t.child[victim],
                              !.parent[new] = t.parent[victim],
                              !.red[new] = t.red[victim]], victim)
  /\ UNCHANGED <<pc, node, parent>>

Loop == InsertRecolour \/ InsertRotate \/ InsertDone
        \/ EraseRecolour \/ EraseRotate \/ EraseDone
Next ==
  \/ \E k \in Keys : my_insert(k) \/ rb_erase(k)
  \/ \E v, k \in Keys : rb_replace_node(v, k)
  \/ Loop

(* A call runs to its end. *)
Spec == Init /\ [][Next]_vars /\ WF_vars(Loop)

-----------------------------------------------------------------------------
(* Properties *)

(* The nodes that child links lead to from n, n included: children are     *)
(* added as long as there are any, also for links that are not a tree.     *)
Children(tr, S) == {tr.child[m][d] : m \in S, d \in Sides} \ {NULL}
Subtree(tr, n) ==
  LET below[S \in SUBSET Keys] ==
        IF Children(tr, S) \subseteq S THEN S ELSE below[S \cup Children(tr, S)]
  IN below[{n} \ {NULL}]
Contents == Subtree(t, t.root)

(* Black nodes on the way from the root down to n. *)
BlacksAbove(n) ==
  Cardinality({m \in Contents : n \in Subtree(t, m) /\ ~t.red[m]})

(* The state has its type; and the variables of a running loop point into  *)
(* the tree, never at the node that rb_erase took out of it.               *)
TypeOK ==
  /\ t \in Tree
  /\ pc \in {"idle", "rb_insert_color", "rb_erase_color"}
  /\ node \in Contents \cup {NULL}
  /\ parent \in Contents \cup {NULL}

(* The links are those of a tree in every state, also half way through a   *)
(* rotation's repair: a child's parent is the node it hangs from, nothing  *)
(* hangs in two places, and a node that was erased is nowhere.             *)
LinksSound ==
  LET C == Contents
      links == {l \in C \X Sides : t.child[l[1]][l[2]] # NULL}
  IN /\ t.root # NULL => t.parent[t.root] = NULL
     /\ \A l \in links : t.parent[t.child[l[1]][l[2]]] = l[1]
     /\ t.root # NULL => Cardinality(links) = Cardinality(C) - 1
     /\ \A k \in Keys \ C :
          t.child[k] = NoChildren /\ t.parent[k] = NULL

(* Search order, which rotations and the exchange with the successor keep. *)
SearchOrder ==
  \A n \in Contents :
    /\ \A m \in Subtree(t, t.child[n]["left"]) : m < n
    /\ \A m \in Subtree(t, t.child[n]["right"]) : n < m

(* No red node has a red parent, and the root is black.  While a call is   *)
(* running, the pair may be its node and the parent, and in                *)
(* __rb_erase_color, which ends with making it black, node and a child.    *)
NoRedPair ==
  \A n \in {m \in Contents : t.red[m]} :
    ~IsBlack(t, t.parent[n]) \/ n = t.root =>
      \/ pc # "idle" /\ n = node
      \/ pc = "rb_erase_color" /\ n # t.root /\ t.parent[n] = node

(* All ways from a missing child to the root meet as many black nodes.     *)
(* While __rb_erase_color runs, those through its node, which may be NULL, *)
(* are one short.                                                          *)
Short(n, d) ==
  /\ pc = "rb_erase_color"
  /\ IF node = NULL THEN n = parent /\ d = EraseSide ELSE n \in Subtree(t, node)
BlackHeight ==
  LET ends == {e \in Contents \X Sides : t.child[e[1]][e[2]] = NULL}
      height(e) == BlacksAbove(e[1]) + IF Short(e[1], e[2]) THEN 1 ELSE 0
      heights == {height(e) : e \in ends}
  IN \A x, y \in heights : x = y

(* The loops take the grandparent and the sibling for granted; they are    *)
(* there (rbtree.c:79, 147, 154).                                          *)
NoNullDeref ==
  /\ pc = "rb_insert_color" /\ InsertLoop => Gparent # NULL
  /\ pc = "rb_erase_color" /\ EraseLoop =>
       /\ parent # NULL
       /\ LET s == t.child[parent][Opposite(EraseSide)]
          IN /\ s # NULL
             /\ t.red[s] => t.child[s][EraseSide] # NULL

(* rb_first, rb_next and their mirrors visit the nodes in the order of the *)
(* keys, in every shape the tree can have.                                 *)
WalkInOrder ==
  LET C == Contents
      Least(S) == IF S = {} THEN NULL ELSE CHOOSE x \in S : \A y \in S : x <= y
      Most(S) == IF S = {} THEN NULL ELSE CHOOSE x \in S : \A y \in S : y <= x
  IN /\ rb_first(t) = Least(C)
     /\ rb_last(t) = Most(C)
     /\ \A n \in C : /\ rb_next(t, n) = Least({m \in C : n < m})
                     /\ rb_prev(t, n) = Most({m \in C : m < n})

(* The loops end. *)
CallsReturn == pc # "idle" ~> pc = "idle"

(* Insertion adds its node and nothing else, removal takes away the node   *)
(* it was given, also when that node is exchanged with its successor, and  *)
(* repairing the balance never adds or loses a node.                       *)
Set == INSTANCE OrderedSet WITH elems <- Contents
ImplementsSet == Set!Spec

(* The tree is a search tree after every step, with sound links in both    *)
(* directions, and the walks find its nodes in order.                      *)
SearchTree == TypeOK /\ LinksSound /\ SearchOrder /\ WalkInOrder

(* The balance, with what is allowed to be wrong while it is repaired, and *)
(* the nodes that the repair relies on.                                    *)
RedBlack == NoRedPair /\ BlackHeight /\ NoNullDeref
=============================================================================
