------------------------------ MODULE Resource ------------------------------
(***************************************************************************)
(* The socket cache (resource.c) on the intrusive lists of list.h.  An     *)
(* element has two link words: m_node, shared by the free list of the      *)
(* cache and mp_connections, and m_posted_node of mp_posted_events.  The   *)
(* calls come in the order in which event_core_module.c makes them.        *)
(***************************************************************************)
EXTENDS Integers, FiniteSets

CONSTANT Capacity   \* count of create_resource: m_max_connections + nservers

ASSUME CapacityAssumption == Capacity \in Nat \ {0}

Elements == 1..Capacity
NULL == 0
Pointer == 0..Capacity

VARIABLES
  start,   \* mp_start: "null", "heap", or "freed" after destroy_resource
  m_node,  \* link word of each element
  m_posted_node,
  free_list,    \* p_rsc->mp_free_list
  connections,  \* g_rt_ctx.mp_connections
  posted,       \* g_rt_ctx.mp_posted_events
  m_used,
  belong,  \* the low bit of the owner word: the element is handed out
  held,    \* elements a caller of alloc_resource has and has not linked yet
  failed   \* an assertion failed

vars == <<start, m_node, m_posted_node, free_list, connections, posted, m_used,
          belong, held, failed>>

TypeOK ==
  /\ start \in {"null", "heap", "freed"}
  /\ m_node \in [Elements -> Pointer]
  /\ m_posted_node \in [Elements -> Pointer]
  /\ free_list \in Pointer /\ connections \in Pointer /\ posted \in Pointer
  /\ m_used \in 0..Capacity
  /\ belong \in [Elements -> BOOLEAN]
  /\ held \subseteq Elements
  /\ failed \in BOOLEAN

Init ==
  /\ start = "null"
  /\ m_node = [e \in Elements |-> NULL]
  /\ m_posted_node = [e \in Elements |-> NULL]
  /\ free_list = NULL /\ connections = NULL /\ posted = NULL
  /\ m_used = 0
  /\ belong = [e \in Elements |-> FALSE]
  /\ held = {}
  /\ failed = FALSE

-----------------------------------------------------------------------------
(* list.h.  A list is a head and the link words.                           *)

(* The k-th pointer of a walk that starts at the head. *)
Walk(list, link) ==
  LET at[k \in 0..Capacity] ==
        IF k = 0 THEN list
        ELSE IF at[k - 1] = NULL THEN NULL ELSE link[at[k - 1]]
  IN at
OnList(list, link) ==
  {Walk(list, link)[k] : k \in 0..Capacity} \ {NULL}

add_node_lost(list, link, node) ==   \* mutant: the node does not get the head
  [list |-> node, link |-> link, removed |-> FALSE]
add_node(list, link, node) ==
  [list |-> node, link |-> [link EXCEPT ![node] = list], removed |-> FALSE]

rm_node_cut(list, link, node) ==   \* mutant: the head is set, not pp_curr
  IF node \notin OnList(list, link)
  THEN [list |-> list, link |-> link, removed |-> FALSE]
  ELSE [list |-> link[node], link |-> [link EXCEPT ![node] = NULL],
        removed |-> TRUE]
(* pp_curr is the head or the link word of the element before the node. *)
rm_node(list, link, node) ==
  IF node \notin OnList(list, link)
  THEN [list |-> list, link |-> link, removed |-> FALSE]
  ELSE [list |-> IF list = node THEN link[node] ELSE list,
        link |-> [e \in Elements |->
                    IF e = node THEN NULL
                    ELSE IF link[e] = node /\ e \in OnList(list, link)
                    THEN link[node] ELSE link[e]],
        removed |-> TRUE]

-----------------------------------------------------------------------------
(* resource.c *)

(* calloc may fail, and a cache that exists is not made again. *)
CreateFails == start \in {"null", "heap"} /\ UNCHANGED vars

create_resource ==
  /\ start = "null"
  /\ start' = "heap"
  /\ free_list' = Capacity                         \* add_node, in order
  /\ m_node' = [e \in Elements |-> e - 1]
  /\ UNCHANGED <<m_posted_node, connections, posted, m_used, belong, held,
                 failed>>

alloc_resource ==
  /\ start = "heap" /\ free_list # NULL
  /\ LET r == rm_node(free_list, m_node, free_list)
     IN /\ free_list' = r.list
        /\ m_node' = r.link
        /\ failed' = (~r.removed \/ belong[free_list])
  /\ m_used' = m_used + 1
  /\ belong' = [belong EXCEPT ![free_list] = TRUE]
  /\ held' = held \cup {free_list}
  /\ UNCHANGED <<start, m_posted_node, connections, posted>>

AllocFails == start = "heap" /\ free_list = NULL /\ UNCHANGED vars

free_resource_marked(e, link) ==   \* mutant: the low bit is not cleared
  LET r == add_node(free_list, link, e)
  IN /\ free_list' = r.list
     /\ m_node' = r.link
     /\ m_used' = m_used - 1
     /\ UNCHANGED belong
(* Given the link words that rm_node left; every caller passes an element  *)
(* of the cache, so the check of its address never fails.                  *)
free_resource(e, link) ==
  LET r == add_node(free_list, link, e)
  IN /\ free_list' = r.list
     /\ m_node' = r.link
     /\ m_used' = m_used - 1
     /\ belong' = [belong EXCEPT ![e] = FALSE]

(* mp_start is NULL again, but the process ends: nothing is created anew.  *)
(* mp_connections may still point into the elements that were freed.       *)
destroy_resource ==
  /\ start = "heap"
  /\ start' = "freed"
  /\ free_list' = NULL
  /\ m_used' = 0
  /\ UNCHANGED <<m_node, m_posted_node, connections, posted, belong, held,
                 failed>>

-----------------------------------------------------------------------------
(* The callers: hixo_handle_accept, hixo_handle_close, the event loop.     *)

(* add_node(&mp_connections, &p_sock->m_node) after accept. *)
Open(e) ==
  /\ start = "heap" /\ e \in held
  /\ LET r == add_node(connections, m_node, e)
     IN connections' = r.list /\ m_node' = r.link
  /\ held' = held \ {e}
  /\ UNCHANGED <<start, m_posted_node, free_list, posted, m_used, belong,
                 failed>>

(* The accept failed. *)
GiveBack(e) ==
  /\ start = "heap" /\ e \in held
  /\ free_resource(e, m_node)
  /\ failed' = ~belong[e]
  /\ held' = held \ {e}
  /\ UNCHANGED <<start, m_posted_node, connections, posted>>

(* assert(rm_node(&mp_connections, ...)); free_resource *)
Close(e) ==
  /\ start = "heap" /\ e \in OnList(connections, m_node)
  /\ LET r == rm_node(connections, m_node, e)
     IN /\ connections' = r.list
        /\ free_resource(e, r.link)
        /\ failed' = (~r.removed \/ ~belong[e])
  /\ UNCHANGED <<start, m_posted_node, posted, held>>

(* epoll_process_events posts a socket; the loop takes it out after its    *)
(* handlers, which may have closed it.                                     *)
Post(e) ==
  /\ start = "heap"
  /\ e \in OnList(connections, m_node) \ OnList(posted, m_posted_node)
  /\ LET r == add_node(posted, m_posted_node, e)
     IN posted' = r.list /\ m_posted_node' = r.link
  /\ UNCHANGED <<start, m_node, free_list, connections, m_used, belong, held,
                 failed>>

Unpost(e) ==
  /\ start = "heap" /\ e \in OnList(posted, m_posted_node)
  /\ LET r == rm_node(posted, m_posted_node, e)
     IN posted' = r.list /\ m_posted_node' = r.link /\ failed' = ~r.removed
  /\ UNCHANGED <<start, m_node, free_list, connections, m_used, belong, held>>

Ended == (start = "freed" \/ failed) /\ UNCHANGED vars

Step ==
  \/ CreateFails \/ create_resource \/ alloc_resource \/ AllocFails
  \/ destroy_resource
  \/ \E e \in Elements :
       Open(e) \/ GiveBack(e) \/ Close(e) \/ Post(e) \/ Unpost(e)

Next == (~failed /\ Step) \/ Ended

Spec == Init /\ [][Next]_vars

-----------------------------------------------------------------------------
(* Properties *)

(* The assertions of alloc_resource, free_resource and of the callers:     *)
(* rm_node finds the node, and the low bit of the owner word says whether  *)
(* an element is handed out.                                               *)
NoAssertFails == ~failed

(* No list runs into another or into a circle: following the link words,   *)
(* which the free list and mp_connections share, every element of the      *)
(* cache is met once, unless a caller holds it.                            *)
ListsSound ==
  /\ TypeOK
  /\ start = "heap" =>
       LET F == OnList(free_list, m_node)
           C == OnList(connections, m_node)
       IN /\ F \cap C = {} /\ held \cap (F \cup C) = {}
          /\ F \cup C \cup held = Elements
          /\ Walk(free_list, m_node)[Cardinality(F)] = NULL
          /\ Walk(connections, m_node)[Cardinality(C)] = NULL

(* The linked lists and counters implement the sets of SlotSets: each call *)
(* moves the element it is about and no other, whatever its position.      *)
Sets == INSTANCE SlotSets WITH
  free <- OnList(free_list, m_node),
  held <- held,
  conns <- OnList(connections, m_node),
  posted <- OnList(posted, m_posted_node),
  used <- m_used
ImplementsSets == Sets!Spec
=============================================================================
