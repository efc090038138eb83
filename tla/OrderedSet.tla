----------------------------- MODULE OrderedSet -----------------------------
(***************************************************************************)
(* What a tree of rbtree.c is to its user: a set of nodes with different   *)
(* keys, of which nodes are added, taken away and exchanged one at a time. *)
(* A node is its key.                                                      *)
(***************************************************************************)
EXTENDS Integers

CONSTANT Keys

VARIABLE elems

Init == elems = {}

Insert == \E k \in Keys \ elems : elems' = elems \cup {k}

Erase == \E k \in elems : elems' = elems \ {k}

(* The new node takes the place of v, between the same neighbours. *)
Replace ==
  \E v \in elems, k \in Keys \ elems :
    /\ elems' = (elems \ {v}) \cup {k}
    /\ \A e \in elems \ {v} : e < v <=> e < k

Next == Insert \/ Erase \/ Replace

Spec == Init /\ [][Next]_elems
=============================================================================
