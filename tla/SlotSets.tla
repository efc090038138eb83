------------------------------ MODULE SlotSets ------------------------------
(***************************************************************************)
(* What the socket cache and the lists of sockets promise to the event     *)
(* loop: elements move between sets, one at a time, and nothing is said of *)
(* links.  This is the view that module EventLoop takes.                   *)
(***************************************************************************)
EXTENDS Integers, FiniteSets

CONSTANT Elements

VARIABLES
  free,    \* elements alloc_resource can return
  held,    \* elements handed out and in no list
  conns,   \* sockets in mp_connections
  posted,  \* elements in mp_posted_events
  used     \* m_used

vars == <<free, held, conns, posted, used>>

Init == free = {} /\ held = {} /\ conns = {} /\ posted = {} /\ used = 0

(* The cache is created with every element free.  Once. *)
Create ==
  /\ free = {} /\ used = 0 /\ conns = {} /\ posted = {}
  /\ free' = Elements
  /\ UNCHANGED <<held, conns, posted, used>>

Alloc(e) ==
  /\ e \in free
  /\ free' = free \ {e}
  /\ held' = held \cup {e}
  /\ used' = used + 1
  /\ UNCHANGED <<conns, posted>>

Open(e) ==
  /\ e \in held
  /\ held' = held \ {e}
  /\ conns' = conns \cup {e}
  /\ UNCHANGED <<free, posted, used>>

GiveBack(e) ==
  /\ e \in held
  /\ held' = held \ {e}
  /\ free' = free \cup {e}
  /\ used' = used - 1
  /\ UNCHANGED <<conns, posted>>

Close(e) ==
  /\ e \in conns
  /\ conns' = conns \ {e}
  /\ free' = free \cup {e}
  /\ used' = used - 1
  /\ UNCHANGED <<held, posted>>

Post(e) ==
  /\ e \in conns \ posted
  /\ posted' = posted \cup {e}
  /\ UNCHANGED <<free, held, conns, used>>

Unpost(e) ==
  /\ e \in posted
  /\ posted' = posted \ {e}
  /\ UNCHANGED <<free, held, conns, used>>

(* The free elements are gone; who still has one must not use it. *)
Destroy ==
  /\ free' = {}
  /\ used' = 0
  /\ UNCHANGED <<held, conns, posted>>

Next ==
  \/ Create \/ Destroy
  \/ \E e \in Elements :
       \/ Alloc(e) \/ Open(e) \/ GiveBack(e) \/ Close(e)
       \/ Post(e) \/ Unpost(e)

Spec == Init /\ [][Next]_vars
=============================================================================
