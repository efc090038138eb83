----------------------------- MODULE AcceptLock -----------------------------
(***************************************************************************)
(* The workers of hixo sharing the listeners through the accept lock in    *)
(* shared memory: epoll_process_events and event_loop seen by all workers  *)
(* at once.  A connection is only counted here; module EventLoop has the   *)
(* socket objects.                                                         *)
(*                                                                         *)
(* lock is the word at g_rt_ctx.mp_accept_lock.  It is set by a            *)
(* compare-and-set and cleared by a plain store, and it outlives the       *)
(* worker that set it.                                                     *)
(***************************************************************************)
EXTENDS Integers, FiniteSets

CONSTANTS
  Workers,        \* the worker processes
  NServers,       \* g_rt_ctx.m_nservers: the listeners all workers inherit
  MaxConnections, \* p_conf->m_max_connections, of each worker
  PoolSize,       \* elements of m_sockets_cache that are not listeners
  MaxArrivals,    \* bound: connections the peers open
  MaxFaults,      \* bound: system calls that fail (EINTR, ENOMEM, EMFILE ...)
  MaxCrashes      \* bound: workers that die

ASSUME ConstantsAssumption ==
  /\ NServers \in Nat \ {0}
  /\ MaxConnections \in Nat \ {0}
  /\ PoolSize \in Nat /\ PoolSize >= MaxConnections
  /\ MaxArrivals \in Nat /\ MaxFaults \in Nat /\ MaxCrashes \in Nat

(* Listeners are named by their index in g_rt_ctx.mpp_servers. *)
Listeners == 1..NServers
NoListener == 0

VARIABLES
  lock,     \* *g_rt_ctx.mp_accept_lock
  backlog,  \* kernel: connections waiting at each listener
  arrived,  \* connections opened so far (bounded by MaxArrivals)
  faults,   \* faults so far (bounded by MaxFaults)
  pc,       \* per worker: where it is in its loop
  hold,     \* per worker: s_epoll_private.m_hold_lock
  tagged,   \* per worker: servers whose mpp_servers entry has its low bit set
  reg,      \* per worker, kernel: listeners in its epoll instance
  ready,    \* per worker, kernel: those on the instance's ready list
  failed,   \* per worker, history: its last removal of listeners failed
  got,      \* per worker: posted listeners not yet handled
  closing,  \* per worker: posted connections that will be closed
  cur,      \* per worker: the listener hixo_handle_accept works on
  power,    \* per worker: gp_ps_info->m_power
  conn      \* per worker: open connections

epoll == <<tagged, reg, ready, failed>>
loop == <<got, closing, cur>>
count == <<power, conn>>
vars == <<lock, backlog, arrived, faults, pc, hold, epoll, loop, count>>

InitialPower == MaxConnections - (MaxConnections \div 8)
Alive == {w \in Workers : pc[w] # "dead"}

TypeOK ==
  /\ lock \in {0, 1}
  /\ backlog \in [Listeners -> Nat]
  /\ arrived \in 0..MaxArrivals
  /\ faults \in 0..MaxFaults
  /\ pc \in [Workers -> {"lock", "add", "wait", "clear", "post", "loop",
                         "accept", "dead"}]
  /\ hold \in [Workers -> BOOLEAN]
  /\ tagged \in [Workers -> SUBSET Listeners]
  /\ reg \in [Workers -> SUBSET Listeners]
  /\ ready \in [Workers -> SUBSET Listeners]
  /\ failed \in [Workers -> BOOLEAN]
  /\ got \in [Workers -> SUBSET Listeners]
  /\ closing \in [Workers -> Nat]
  /\ cur \in [Workers -> Listeners \cup {NoListener}]
  /\ power \in [Workers -> Int]
  /\ conn \in [Workers -> Nat]

Init ==
  /\ lock = 0
  /\ backlog = [l \in Listeners |-> 0]
  /\ arrived = 0
  /\ faults = 0
  /\ pc = [w \in Workers |-> "lock"]
  /\ hold = [w \in Workers |-> FALSE]
  /\ tagged = [w \in Workers |-> {}]
  /\ reg = [w \in Workers |-> {}]
  /\ ready = [w \in Workers |-> {}]
  /\ failed = [w \in Workers |-> FALSE]
  /\ got = [w \in Workers |-> {}]
  /\ closing = [w \in Workers |-> 0]
  /\ cur = [w \in Workers |-> NoListener]
  /\ power = [w \in Workers |-> InitialPower]
  /\ conn = [w \in Workers |-> 0]

Goto(w, from, to) ==
  /\ pc[w] = from
  /\ pc' = [pc EXCEPT ![w] = to]

(* A system call of worker w fails for a reason that may pass. *)
Fault == faults < MaxFaults /\ faults' = faults + 1

-----------------------------------------------------------------------------
(* epoll_process_events *)

spinlock_try_blind(w) ==     \* mutant: the old value is not compared
  /\ power[w] > 0
  /\ lock' = 1
  /\ hold' = [hold EXCEPT ![w] = TRUE]
  /\ Goto(w, "lock", "add")
  /\ UNCHANGED <<backlog, arrived, faults, epoll, loop, count>>

spinlock_try_nopower(w) ==   \* mutant: tries without power
  /\ lock = 0
  /\ lock' = 1
  /\ hold' = [hold EXCEPT ![w] = TRUE]
  /\ Goto(w, "lock", "add")
  /\ UNCHANGED <<backlog, arrived, faults, epoll, loop, count>>

(* (m_power > 0) && spinlock_try(mp_accept_lock) *)
spinlock_try(w) ==
  /\ power[w] > 0
  /\ lock = 0
  /\ lock' = 1
  /\ hold' = [hold EXCEPT ![w] = TRUE]
  /\ Goto(w, "lock", "add")
  /\ UNCHANGED <<backlog, arrived, faults, epoll, loop, count>>

NoLock(w) ==
  /\ power[w] <= 0 \/ lock = 1
  /\ hold' = [hold EXCEPT ![w] = FALSE]
  /\ Goto(w, "lock", "wait")
  /\ UNCHANGED <<lock, backlog, arrived, faults, epoll, loop, count>>

(* EPOLL_CTL_ADD of the listeners before the k-th; the k-th, if there is   *)
(* one, fails: its entry is tagged and the loop ends.  A listener that is  *)
(* still registered is left as it is (EEXIST).  The watch is edge          *)
(* triggered: a new registration is ready if connections wait already.     *)
(* A tag found on the way fails the assertion on the low bit: the worker   *)
(* aborts, with the lock.                                                  *)
AddListeners(w) ==
  \E k \in 1..(NServers + 1) :
    LET added == 1..(k - 1)
        hit == tagged[w] \cap (1..k)
    IN /\ \/ k = NServers + 1 /\ UNCHANGED <<faults, tagged>>
          \/ /\ k <= NServers /\ k \notin reg[w]
             /\ Fault
             /\ tagged' = [tagged EXCEPT ![w] = @ \cup {k}]
       /\ Goto(w, "add", IF hit = {} THEN "wait" ELSE "dead")
       /\ reg' = [reg EXCEPT ![w] = IF hit = {} THEN @ \cup added ELSE {}]
       /\ ready' = [ready EXCEPT ![w] =
                      IF hit # {} THEN {}
                      ELSE @ \cup {l \in added \ reg[w] : backlog[l] > 0}]
       /\ UNCHANGED <<lock, backlog, arrived, hold, failed, loop, count>>

(* epoll_wait fills an array of MaxConnections events with the listeners   *)
(* of G and with connections, n of which their handlers will close; a      *)
(* listener that is ready is left for the next call only when the array is *)
(* full.  With no event it returns at the timeout m_ev_timer_ms; a fault   *)
(* is EINTR: no event is taken.  After any other error of epoll_wait the   *)
(* worker unlocks and leaves its loop, which is a Crash at "loop".         *)
EpollWait(w) ==
  /\ Goto(w, "wait", IF hold[w] THEN "clear" ELSE "post")
  /\ \/ LET R == {l \in ready[w] : backlog[l] > 0}
        IN \E G \in SUBSET R : \E n \in 0..conn[w] :
             /\ Cardinality(G) + n <= MaxConnections
             /\ G = R \/ Cardinality(G) + conn[w] >= MaxConnections
             /\ got' = [got EXCEPT ![w] = G]
             /\ closing' = [closing EXCEPT ![w] = n]
             /\ ready' = [ready EXCEPT ![w] = R \ G]
             /\ UNCHANGED faults
     \/ /\ Fault
        /\ UNCHANGED <<got, closing, ready>>
  /\ UNCHANGED <<lock, backlog, arrived, hold, tagged, reg, failed, cur, count>>

ClearListeners_tagged(w) ==  \* mutant: a tagged entry is skipped, not untagged
  /\ Goto(w, "clear", "post")
  /\ \E k \in 1..(NServers + 1) :
       /\ \/ k = NServers + 1 /\ UNCHANGED faults
          \/ k <= NServers /\ k \notin tagged[w] /\ Fault
       /\ reg' = [reg EXCEPT ![w] = @ \ (1..(k - 1) \ tagged[w])]
       /\ ready' = [ready EXCEPT ![w] = @ \ (1..(k - 1) \ tagged[w])]
       /\ failed' = [failed EXCEPT ![w] = k <= NServers]
  /\ UNCHANGED <<lock, backlog, arrived, hold, tagged, loop, count>>

(* A tagged entry is untagged and skipped; the loop ends at the first      *)
(* EPOLL_CTL_DEL that fails, here the k-th (ENOENT does not count).  The   *)
(* listeners from there on stay watched, and the tags stay set.            *)
ClearListeners(w) ==
  /\ Goto(w, "clear", "post")
  /\ \E k \in 1..(NServers + 1) :
       LET passed == 1..(k - 1)
       IN /\ \/ k = NServers + 1 /\ UNCHANGED faults
             \/ k <= NServers /\ k \notin tagged[w] /\ Fault
          /\ reg' = [reg EXCEPT ![w] = @ \ (passed \ tagged[w])]
          /\ ready' = [ready EXCEPT ![w] = @ \ (passed \ tagged[w])]
          /\ tagged' = [tagged EXCEPT ![w] = @ \ passed]
          /\ failed' = [failed EXCEPT ![w] = k <= NServers]
  /\ UNCHANGED <<lock, backlog, arrived, hold, loop, count>>

spinlock_unlock_any(w) ==    \* mutant: released whoever holds it
  /\ Goto(w, "post", "loop")
  /\ lock' = 0
  /\ hold' = [hold EXCEPT ![w] = FALSE]
  /\ UNCHANGED <<backlog, arrived, faults, epoll, loop, count>>
spinlock_unlock_no(w) ==     \* mutant: m_hold_lock reset, the word is not
  /\ Goto(w, "post", "loop")
  /\ hold' = [hold EXCEPT ![w] = FALSE]
  /\ UNCHANGED <<lock, backlog, arrived, faults, epoll, loop, count>>

(* Only the process that took the lock releases it. *)
spinlock_unlock(w) ==
  /\ Goto(w, "post", "loop")
  /\ lock' = IF hold[w] THEN 0 ELSE lock
  /\ hold' = [hold EXCEPT ![w] = FALSE]
  /\ UNCHANGED <<backlog, arrived, faults, epoll, loop, count>>

-----------------------------------------------------------------------------
(* event_loop: posted connections and listeners in any order *)

CloseConnection(w) ==
  /\ Goto(w, "loop", "loop")
  /\ closing[w] > 0
  /\ closing' = [closing EXCEPT ![w] = @ - 1]
  /\ conn' = [conn EXCEPT ![w] = @ - 1]
  /\ power' = [power EXCEPT ![w] = @ + 1]
  /\ UNCHANGED <<lock, backlog, arrived, faults, hold, epoll, got, cur>>

HandleListener(w) ==
  /\ Goto(w, "loop", "accept")
  /\ \E l \in got[w] :
       /\ cur' = [cur EXCEPT ![w] = l]
       /\ got' = [got EXCEPT ![w] = @ \ {l}]
  /\ UNCHANGED <<lock, backlog, arrived, faults, hold, epoll, closing, count>>

Again(w) ==
  /\ Goto(w, "loop", "lock")
  /\ got[w] = {}
  /\ closing[w] = 0
  /\ UNCHANGED <<lock, backlog, arrived, faults, hold, epoll, loop, count>>

(* One round of hixo_handle_accept: a slot is there and so is a            *)
(* connection.  It is lost when the peer aborted it (ECONNABORTED) or when *)
(* it could not be registered.                                             *)
Accept(w) ==
  /\ Goto(w, "accept", "accept")
  /\ conn[w] < PoolSize
  /\ backlog[cur[w]] > 0
  /\ backlog' = [backlog EXCEPT ![cur[w]] = @ - 1]
  /\ \/ /\ conn' = [conn EXCEPT ![w] = @ + 1]
        /\ power' = [power EXCEPT ![w] = @ - 1]
        /\ UNCHANGED faults
     \/ /\ Fault
        /\ UNCHANGED <<conn, power>>
  /\ UNCHANGED <<lock, arrived, hold, epoll, loop>>

(* The loop ends: no slot, EAGAIN (another worker may have been quicker),  *)
(* or an error such as EMFILE.                                             *)
AcceptEnds(w) ==
  /\ Goto(w, "accept", "loop")
  /\ \/ /\ conn[w] = PoolSize \/ backlog[cur[w]] = 0
        /\ UNCHANGED faults
     \/ Fault
  /\ cur' = [cur EXCEPT ![w] = NoListener]
  /\ UNCHANGED <<lock, backlog, arrived, hold, epoll, got, closing, count>>

-----------------------------------------------------------------------------
(* The environment *)

Arrive(l) ==
  /\ arrived < MaxArrivals
  /\ arrived' = arrived + 1
  /\ backlog' = [backlog EXCEPT ![l] = @ + 1]
  /\ ready' = [w \in Workers |->
                 IF l \in reg[w] THEN ready[w] \cup {l} ELSE ready[w]]
  /\ UNCHANGED <<lock, faults, pc, hold, tagged, reg, failed, loop, count>>

(* The memory of a worker that dies is gone, and the kernel closes its     *)
(* descriptors; nobody resets the lock word.                               *)
Crash(w) ==
  /\ Cardinality(Workers \ Alive) < MaxCrashes
  /\ pc[w] # "dead"
  /\ pc' = [pc EXCEPT ![w] = "dead"]
  /\ tagged' = [tagged EXCEPT ![w] = {}]
  /\ reg' = [reg EXCEPT ![w] = {}]
  /\ ready' = [ready EXCEPT ![w] = {}]
  /\ got' = [got EXCEPT ![w] = {}]
  /\ closing' = [closing EXCEPT ![w] = 0]
  /\ cur' = [cur EXCEPT ![w] = NoListener]
  /\ UNCHANGED <<lock, backlog, arrived, faults, hold, failed, count>>

Step(w) ==
  \/ spinlock_try(w) \/ NoLock(w) \/ AddListeners(w) \/ EpollWait(w)
  \/ ClearListeners(w) \/ spinlock_unlock(w)
  \/ CloseConnection(w) \/ HandleListener(w) \/ Again(w)
  \/ Accept(w) \/ AcceptEnds(w)

Next ==
  \/ \E w \in Workers : Step(w) \/ Crash(w)
  \/ \E l \in Listeners : Arrive(l)

Spec == Init /\ [][Next]_vars

(* Each worker that lives is scheduled: it is a process of its own, bound  *)
(* to a CPU, and epoll_wait returns at the latest after m_ev_timer_ms.     *)
FairSpec == Spec /\ \A w \in Workers : WF_vars(Step(w))

-----------------------------------------------------------------------------
(* Properties *)

(* The lock word says the truth: it is set exactly when one worker,        *)
(* possibly a dead one, took it and has not released it.  A worker without *)
(* the lock never clears it (epoll_module.c:240).                          *)
LockOwned ==
  /\ lock = 1 <=> \E w \in Workers : hold[w]
  /\ \A v, w \in Workers : hold[v] /\ hold[w] => v = w

(* One incoming connection wakes one worker: a worker watches the          *)
(* listeners only with the lock, and no two do at a time.  It is so but    *)
(* for a worker whose last removal of the listeners was cut short by a     *)
(* failing EPOLL_CTL_DEL (epoll_module.c:195): it goes on watching without *)
(* the lock until a removal succeeds.                                      *)
ListenExclusive ==
  \A v, w \in Workers :
    /\ reg[v] # {} => hold[v] \/ failed[v]
    /\ v # w /\ reg[v] # {} /\ reg[w] # {} => failed[v] \/ failed[w]

(* The assertion on the low bit of the servers (epoll_module.c:168) cannot *)
(* fail by a failing EPOLL_CTL_ADD alone: a worker comes to it with an     *)
(* entry still tagged only if, in its last round with the lock, a failing  *)
(* EPOLL_CTL_DEL followed and ended the loop before the tag.               *)
TagsDropped ==
  \A w \in Workers : pc[w] = "add" /\ tagged[w] # {} => failed[w]

(* A worker's m_power is the share of the conf it has not used; it never   *)
(* falls below minus the slots kept in reserve.                            *)
PowerAccounting ==
  \A w \in Alive :
    /\ power[w] = InitialPower - conn[w]
    /\ power[w] >= InitialPower - PoolSize

(* The lock was taken by a worker that is dead. *)
LockLost == \E w \in Workers : hold[w] /\ pc[w] = "dead"

(* A waiting connection is accepted (or gone) eventually, unless every     *)
(* living worker has used up its power or the lock died with its holder:   *)
(* losing the race for the lock, or a crash outside the region in which it *)
(* is held, never leaves a connection waiting for ever.                    *)
PendingServed ==
  \A l \in Listeners :
    backlog[l] > 0 ~> \/ backlog[l] = 0
                      \/ \A w \in Alive : power[w] <= 0
                      \/ LockLost

(* Every worker goes through the cycle of WorkerCycle, whatever the others *)
(* do: it takes the lock only with power, begins to watch the listeners    *)
(* only under the lock, stops before it releases it unless EPOLL_CTL_DEL   *)
(* fails, accepts only after that, and keeps the lock if it dies between.  *)
Cycle(w) == INSTANCE WorkerCycle WITH
  phase <- IF pc[w] \in {"loop", "accept"} THEN "work" ELSE pc[w],
  hold <- hold[w], watching <- reg[w] # {}, failed <- failed[w],
  conn <- conn[w], power <- power[w]
ImplementsCycle ==         \* \A w \in Workers : Cycle(w)!Spec
  /\ \A w \in Workers : Cycle(w)!Init
  /\ [][\A w \in Workers : [Cycle(w)!Next]_(Cycle(w)!vars)]_vars

-----------------------------------------------------------------------------
(* The inductive invariant *)

PlaceInv ==
  \A w \in Workers :
    /\ hold[w] => pc[w] \in {"add", "wait", "clear", "post", "dead"}
    /\ pc[w] \in {"add", "clear"} => hold[w]
    /\ reg[w] # {} \/ tagged[w] # {} =>
         (hold[w] /\ pc[w] \in {"wait", "clear", "dead"}) \/ failed[w]
    /\ tagged[w] \cap reg[w] = {}
    /\ pc[w] = "accept" => cur[w] \in Listeners

CountInv ==
  \A w \in Workers :
    /\ power[w] = InitialPower - conn[w]
    /\ closing[w] <= conn[w]
    /\ conn[w] <= PoolSize

IInv == TypeOK /\ LockOwned /\ PlaceInv /\ CountInv
=============================================================================
