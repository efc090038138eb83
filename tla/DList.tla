------------------------------- MODULE DList -------------------------------
(***************************************************************************)
(* The doubly linked lists of list.h, as operators on the memory they      *)
(* change.  A memory h is a record of two functions over the same nodes,   *)
(* h.mp_next and h.mp_prev; the head of a list is a node like the others,  *)
(* and a list is a ring through its head.                                  *)
(***************************************************************************)
EXTENDS Integers, Sequences, SequencesExt

Unlinked(nodes) == [n \in nodes |-> n]

dlist_init(h, l) ==
  [mp_next |-> [h.mp_next EXCEPT ![l] = l],
   mp_prev |-> [h.mp_prev EXCEPT ![l] = l]]

dlist_empty(h, l) == h.mp_prev[l] = h.mp_next[l] /\ h.mp_prev[l] = l

dlist_add_orig(h, new, prev, next) ==
  [mp_next |-> [h.mp_next EXCEPT ![new] = next, ![prev] = new],
   mp_prev |-> [h.mp_prev EXCEPT ![next] = new, ![new] = prev]]
dlist_add_tail_front(h, l, n) ==         \* mutant: the node goes to the front
  dlist_add_orig(h, n, l, h.mp_next[l])
dlist_add_tail(h, l, n) == dlist_add_orig(h, n, h.mp_prev[l], l)

dlist_del(h, n) ==
  [mp_next |-> [h.mp_next EXCEPT ![h.mp_prev[n]] = h.mp_next[n]],
   mp_prev |-> [h.mp_prev EXCEPT ![h.mp_next[n]] = h.mp_prev[n]]]

(* The nodes of body are moved behind those of head; body is left empty.   *)
dlist_merge_keep(h, head, body) ==  \* mutant: body still points to its nodes
  IF dlist_empty(h, body) THEN h
  ELSE LET first == h.mp_next[body]
           last == h.mp_prev[body]
           tail == h.mp_prev[head]
       IN [mp_next |-> [h.mp_next EXCEPT ![last] = head, ![tail] = first],
           mp_prev |-> [h.mp_prev EXCEPT ![first] = tail, ![head] = last]]
dlist_merge(h, head, body) ==
  IF dlist_empty(h, body) THEN h
  ELSE LET first == h.mp_next[body]
           last == h.mp_prev[body]
           tail == h.mp_prev[head]
       IN dlist_init(
            [mp_next |-> [h.mp_next EXCEPT ![last] = head, ![tail] = first],
             mp_prev |-> [h.mp_prev EXCEPT ![first] = tail, ![head] = last]],
            body)

(* dlist_for_each_f: the nodes in the order of mp_next.  A walk that does  *)
(* not come back to its head is cut off after as many steps as there are   *)
(* nodes.                                                                  *)
Walk(h, l) ==
  LET nodes == DOMAIN h.mp_next
      from[p \in nodes \X (0..Cardinality(nodes))] ==   \* node, steps left
        IF p[1] = l \/ p[2] = 0 THEN <<>>
        ELSE <<p[1]>> \o from[<<h.mp_next[p[1]], p[2] - 1>>]
  IN from
dlist_for_each_f(h, l) ==
  Walk(h, l)[<<h.mp_next[l], Cardinality(DOMAIN h.mp_next)>>]

(* dlist_for_each_f_safe with dlist_del on every node: each one is, when   *)
(* its turn comes, the first of the list, and the head gets its place.     *)
RemoveAll(h, l) ==
  LET R == {l} \cup ToSet(dlist_for_each_f(h, l))
  IN [mp_next |-> [h.mp_next EXCEPT ![l] = l],
      mp_prev |-> [n \in DOMAIN h.mp_prev |->
                     IF n \in R THEN l ELSE h.mp_prev[n]]]

-----------------------------------------------------------------------------
(* The ring of l is sound: mp_prev undoes mp_next on it, and the walk ends *)
(* at the head without meeting a node twice.                               *)
Ring(h, l) ==
  LET s == dlist_for_each_f(h, l)
      ring == {l} \cup ToSet(s)
  IN /\ Cardinality(ring) = Len(s) + 1
     /\ h.mp_next[IF s = <<>> THEN l ELSE Last(s)] = l
     /\ \A n \in ring : h.mp_prev[h.mp_next[n]] = n
=============================================================================
