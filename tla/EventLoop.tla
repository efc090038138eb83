----------------------------- MODULE EventLoop -----------------------------
(***************************************************************************)
(* One worker of hixo: event_loop() of event_core_module.c driving the     *)
(* epoll module, with the socket cache, the list of connections, the list  *)
(* of posted events and the socket objects they link.                      *)
(*                                                                         *)
(* The lists are modelled as sets.  m_node is the link of both the free    *)
(* list and mp_connections, m_posted_node that of mp_posted_events; no     *)
(* code depends on the order of a list: epoll_wait reports in any order,   *)
(* and the slot alloc_resource takes is any free one.                      *)
(*                                                                         *)
(* An assert() that fails, and a node linked twice into a list, take the   *)
(* worker to pc = "abort".                                                 *)
(***************************************************************************)
EXTENDS Integers, FiniteSets

CONSTANTS
  Slots,          \* the elements of g_rt_ctx.m_sockets_cache
  NServers,       \* g_rt_ctx.m_nservers: listeners that init_master opened
  Servers,        \* g_rt_ctx.mpp_servers[i], i in 1..NServers
  AppOf,          \* the application module that serves a listener
  ListenFd,       \* the descriptor of a listener
  Fds,            \* descriptors accept() can return
  NoFd,           \* m_fd of a slot that never held a socket (calloc)
  NoSlot,         \* a null hixo_socket_t pointer
  MaxConnections, \* p_conf->m_max_connections
  CtlFaults       \* epoll_ctl operations that may fail: "add", "del"

Listeners == {Servers[i] : i \in 1..NServers}
Apps == {"echo", "http"}

ASSUME SlotsAssumption ==
  /\ IsFiniteSet(Slots)
  /\ NoSlot \notin Slots
ASSUME ServersAssumption ==
  /\ NServers \in Nat \ {0}
  /\ Servers \in [1..NServers -> Slots]
  /\ \A i, j \in 1..NServers : Servers[i] = Servers[j] => i = j
  /\ AppOf \in [Listeners -> Apps]
ASSUME FdsAssumption ==
  /\ NoFd \notin Fds
  /\ \A l \in Listeners : ListenFd[l] \notin Fds \cup {NoFd}
  /\ \A l, k \in Listeners : ListenFd[l] = ListenFd[k] => l = k
ASSUME ConfAssumption ==
  /\ MaxConnections \in Nat \ {0}
  /\ CtlFaults \subseteq {"add", "del"}

AllFds == Fds \cup {ListenFd[l] : l \in Listeners}

VARIABLES
  pc,          \* where the worker is in epoll_process_events / event_loop
  m_hold_lock, \* s_epoll_private.m_hold_lock
  tagged,      \* servers whose mpp_servers entry has its low bit set
  rslt,        \* the result of epoll_process_events
  epevs,       \* s_epoll_private.mp_epevs[0 .. nevents-1]
  posted,      \* mp_posted_events
  todo,        \* the nodes p_next_iter still leads to
  cur,         \* p_sock of event_loop
  p_cmnct,     \* p_cmnct of hixo_handle_accept
  m_power,     \* gp_ps_info->m_power
  free,        \* m_sockets_cache.mp_free_list
  m_used,      \* m_sockets_cache.m_used
  belong,      \* the low bit of mp_belong: element handed out (DEBUG_FLAG)
  conns,       \* mp_connections
  m_fd, m_stale, m_readable, m_writable, m_close,
  handler,     \* the module whose functions the mpf_*_handler point to
  readbuf,     \* is m_readbuf_queue non-empty?
  openFds,     \* kernel: the connection descriptors this process has open
  interest     \* kernel: the interest list of m_epfd

loopVars == <<m_hold_lock, tagged, rslt, epevs, posted, todo, cur>>
poolVars == <<free, m_used, belong>>
sockVars == <<m_fd, m_stale, m_readable, m_writable, m_close, handler, readbuf>>
kernVars == <<openFds, interest>>
vars == <<pc, loopVars, p_cmnct, m_power, poolVars, conns, sockVars, kernVars>>

Entry == [fd : AllFds, ptr : Slots, stale : {0, 1}]
Event == [fd : AllFds, ptr : Slots, stale : {0, 1},
          rd : BOOLEAN, wr : BOOLEAN]
Pcs == {"lock", "add", "wait", "clear", "post", "loop", "read", "alloc",
        "accept", "close", "write", "stop", "abort"}

TypeOK ==
  /\ pc \in Pcs
  /\ m_hold_lock \in BOOLEAN
  /\ tagged \subseteq Listeners
  /\ rslt \in {"HIXO_OK", "HIXO_ERROR"}
  /\ epevs \subseteq Event
  /\ posted \subseteq Slots
  /\ todo \subseteq Slots
  /\ cur \in Slots \cup {NoSlot}
  /\ p_cmnct \in Slots \cup {NoSlot}
  /\ m_power \in Int
  /\ free \subseteq Slots
  /\ m_used \in Int
  /\ belong \in [Slots -> BOOLEAN]
  /\ conns \subseteq Slots
  /\ m_fd \in [Slots -> AllFds \cup {NoFd}]
  /\ m_stale \in [Slots -> {0, 1}]
  /\ m_readable \in [Slots -> BOOLEAN]
  /\ m_writable \in [Slots -> BOOLEAN]
  /\ m_close \in [Slots -> BOOLEAN]
  /\ handler \in [Slots -> Apps \cup {"accept", "none"}]
  /\ readbuf \in [Slots -> BOOLEAN]
  /\ openFds \subseteq Fds
  /\ interest \subseteq Entry

-----------------------------------------------------------------------------
(* The state hixo_main leaves a worker in when it enters event_loop: the   *)
(* listeners are allocated from the cache and linked into mp_connections.  *)

InitialPower == MaxConnections - (MaxConnections \div 8)

Init ==
  /\ pc = "lock"
  /\ m_hold_lock = FALSE
  /\ tagged = {}
  /\ rslt = "HIXO_OK"
  /\ epevs = {}
  /\ posted = {}
  /\ todo = {}
  /\ cur = NoSlot
  /\ p_cmnct = NoSlot
  /\ m_power = InitialPower
  /\ free = Slots \ Listeners
  /\ m_used = NServers
  /\ belong = [s \in Slots |-> s \in Listeners]
  /\ conns = Listeners
  /\ m_fd = [s \in Slots |-> IF s \in Listeners THEN ListenFd[s] ELSE NoFd]
  /\ m_stale = [s \in Slots |-> IF s \in Listeners THEN 1 ELSE 0]
  /\ m_readable = [s \in Slots |-> FALSE]
  /\ m_writable = [s \in Slots |-> FALSE]
  /\ m_close = [s \in Slots |-> FALSE]
  /\ handler = [s \in Slots |-> IF s \in Listeners THEN "accept" ELSE "none"]
  /\ readbuf = [s \in Slots |-> FALSE]
  /\ openFds = {}
  /\ interest = {}

-----------------------------------------------------------------------------
(* epoll_process_events *)

(* epoll_ctl(EPOLL_CTL_ADD) with data.ptr = p_sock | m_stale; EEXIST is    *)
(* accepted and leaves the old registration in place.                      *)
Registered(fd) == \E e \in interest : e.fd = fd
epoll_add_event_notag(fd, s, stale) == \* mutant: data.ptr without m_stale
  interest \cup {[fd |-> fd, ptr |-> s, stale |-> 0]}
epoll_add_event(fd, s, stale) ==
  IF Registered(fd)
  THEN interest
  ELSE interest \cup {[fd |-> fd, ptr |-> s, stale |-> stale]}

(* Whether spinlock_try succeeds is decided between the workers (module    *)
(* AcceptLock); a worker without power does not try.                       *)
TryLock_add ==             \* mutant: listeners added without the lock
  /\ pc = "lock"
  /\ m_hold_lock' \in BOOLEAN
  /\ pc' = "add"
  /\ UNCHANGED <<tagged, rslt, epevs, posted, todo, cur, p_cmnct, m_power,
                 poolVars, conns, sockVars, kernVars>>
TryLock_nopower ==         \* mutant: tries without power
  /\ pc = "lock"
  /\ m_hold_lock' \in BOOLEAN
  /\ pc' = IF m_hold_lock' THEN "add" ELSE "wait"
  /\ UNCHANGED <<tagged, rslt, epevs, posted, todo, cur, p_cmnct, m_power,
                 poolVars, conns, sockVars, kernVars>>
TryLock ==
  /\ pc = "lock"
  /\ \/ /\ m_power > 0
        /\ m_hold_lock' = TRUE
        /\ pc' = "add"
     \/ /\ m_hold_lock' = FALSE
        /\ pc' = "wait"
  /\ UNCHANGED <<tagged, rslt, epevs, posted, todo, cur, p_cmnct, m_power,
                 poolVars, conns, sockVars, kernVars>>

(* The listeners before the k-th are registered; the k-th, if there is     *)
(* one, fails: its entry is tagged and the loop ends.  An entry found      *)
(* tagged on the way fails the assertion on the low bit.                   *)
AddListeners ==
  /\ pc = "add"
  /\ \E k \in 1..(NServers + 1) :
       LET added == {Servers[i] : i \in 1..(k - 1)}
           tried == {Servers[i] : i \in {j \in 1..NServers : j <= k}}
       IN /\ k <= NServers => /\ "add" \in CtlFaults
                              /\ ~Registered(ListenFd[Servers[k]])
          /\ interest' = interest \cup
               {[fd |-> ListenFd[l], ptr |-> l, stale |-> m_stale[l]] :
                  l \in {x \in added : ~Registered(ListenFd[x])}}
          /\ tagged' = tagged \cup (tried \ added)
          /\ pc' = IF tried \cap tagged = {} THEN "wait" ELSE "abort"
  /\ UNCHANGED <<m_hold_lock, rslt, epevs, posted, todo, cur, p_cmnct,
                 m_power, poolVars, conns, sockVars, openFds>>

(* What epoll_wait can report for a registration e: a listener is watched  *)
(* for EPOLLIN only, and EPOLLERR and EPOLLHUP are turned into both.       *)
Report(e, mask) ==
  [fd |-> e.fd, ptr |-> e.ptr, stale |-> e.stale,
   rd |-> mask # "out", wr |-> mask # "in"]
Reportable(e, mask) == handler[e.ptr] = "accept" => mask # "out"

(* assert(NULL == g_rt_ctx.mp_posted_events), then epoll_wait.  A timeout  *)
(* and EINTR both return with no event to process.                         *)
EpollWait ==
  /\ pc = "wait"
  /\ \E R \in SUBSET interest : \E mask \in [R -> {"in", "out", "inout"}] :
       /\ Cardinality(R) <= MaxConnections
       /\ \A e \in R : Reportable(e, mask[e])
       /\ epevs' = {Report(e, mask[e]) : e \in R}
  /\ rslt' = "HIXO_OK"
  /\ pc' = IF posted # {} THEN "abort"
           ELSE IF m_hold_lock THEN "clear" ELSE "post"
  /\ UNCHANGED <<m_hold_lock, tagged, posted, todo, cur, p_cmnct, m_power,
                 poolVars, conns, sockVars, kernVars>>

EpollWaitFails ==
  /\ pc = "wait"
  /\ epevs' = {}
  /\ rslt' = "HIXO_ERROR"
  /\ pc' = IF posted # {} THEN "abort"
           ELSE IF m_hold_lock THEN "clear" ELSE "post"
  /\ UNCHANGED <<m_hold_lock, tagged, posted, todo, cur, p_cmnct, m_power,
                 poolVars, conns, sockVars, kernVars>>

(* A tagged entry is untagged and skipped; the loop ends at the first      *)
(* EPOLL_CTL_DEL that fails (ENOENT does not count).                       *)
ClearListeners ==
  /\ pc = "clear"
  /\ \E k \in 1..(NServers + 1) :
       LET passed == {Servers[i] : i \in 1..(k - 1)}
       IN /\ k <= NServers => "del" \in CtlFaults /\ Servers[k] \notin tagged
          /\ interest' = {e \in interest :
               e.fd \notin {ListenFd[l] : l \in passed \ tagged}}
          /\ tagged' = tagged \ passed
  /\ pc' = "post"
  /\ UNCHANGED <<m_hold_lock, rslt, epevs, posted, todo, cur, p_cmnct,
                 m_power, poolVars, conns, sockVars, openFds>>

(* The events whose stale bit is that of the socket are posted; then the   *)
(* lock is released and, unless epoll_wait failed, event_loop goes on.     *)
Fresh == {e \in epevs : e.stale = m_stale[e.ptr]}

PostEvents ==
  /\ pc = "post"
  /\ m_readable' = [s \in Slots |-> IF \E e \in Fresh : e.ptr = s
                                    THEN \E e \in Fresh : e.ptr = s /\ e.rd
                                    ELSE m_readable[s]]
  /\ m_writable' = [s \in Slots |-> IF \E e \in Fresh : e.ptr = s
                                    THEN \E e \in Fresh : e.ptr = s /\ e.wr
                                    ELSE m_writable[s]]
  /\ posted' = posted \cup {e.ptr : e \in Fresh}
  /\ todo' = posted'
  /\ epevs' = {}
  /\ m_hold_lock' = FALSE
  /\ pc' = IF \E e, d \in Fresh : e # d /\ e.ptr = d.ptr THEN "abort"
           ELSE IF rslt = "HIXO_ERROR" THEN "stop" ELSE "loop"
  /\ UNCHANGED <<tagged, rslt, cur, p_cmnct, m_power, poolVars, conns, m_fd,
                 m_stale, m_close, handler, readbuf, kernVars>>

-----------------------------------------------------------------------------
(* event_loop: the walk over mp_posted_events *)

NextPosted_late ==         \* mutant: the link is read after rm_node cleared it
  /\ pc = "loop"
  /\ \/ /\ todo = {}
        /\ pc' = "lock"
        /\ UNCHANGED cur
     \/ \E s \in todo : cur' = s /\ pc' = "read"
  /\ todo' = {}
  /\ UNCHANGED <<m_hold_lock, tagged, rslt, epevs, posted, p_cmnct, m_power,
                 poolVars, conns, sockVars, kernVars>>
NextPosted ==
  /\ pc = "loop"
  /\ \/ /\ todo = {}
        /\ pc' = "lock"
        /\ UNCHANGED <<todo, cur>>
     \/ \E s \in todo :
          /\ cur' = s
          /\ todo' = todo \ {s}
          /\ pc' = "read"
  /\ UNCHANGED <<m_hold_lock, tagged, rslt, epevs, posted, p_cmnct, m_power,
                 poolVars, conns, sockVars, kernVars>>

NotReadable ==
  /\ pc = "read"
  /\ ~m_readable[cur] \/ handler[cur] = "none"
  /\ pc' = "close"
  /\ UNCHANGED <<loopVars, p_cmnct, m_power, poolVars, conns, sockVars,
                 kernVars>>

ReadListener ==
  /\ pc = "read"
  /\ m_readable[cur]
  /\ handler[cur] = "accept"
  /\ pc' = "alloc"
  /\ UNCHANGED <<loopVars, p_cmnct, m_power, poolVars, conns, sockVars,
                 kernVars>>

(* echo_handle_read reads until the peer closed, reset or has no more      *)
(* data; in the last case it answers.  Every way out asks for the close.   *)
(* Buffers of an earlier read are used again and may be freed.             *)
ReadEcho ==
  /\ pc = "read"
  /\ m_readable[cur]
  /\ handler[cur] = "echo"
  /\ \E gotData, drained, old \in BOOLEAN :
       /\ old => readbuf[cur]
       /\ readbuf' = [readbuf EXCEPT ![cur] = old \/ gotData]
       /\ m_readable' = [m_readable EXCEPT ![cur] = ~drained]
  /\ m_close' = [m_close EXCEPT ![cur] = TRUE]
  /\ pc' = "close"
  /\ UNCHANGED <<loopVars, p_cmnct, m_power, poolVars, conns, m_fd, m_stale,
                 m_writable, handler, kernVars>>

ReadHttp_close ==          \* mutant: closes the socket itself, in the handler
  /\ pc = "read"
  /\ m_readable[cur]
  /\ handler[cur] = "http"
  /\ interest' = {e \in interest : e.fd # m_fd[cur]}
  /\ openFds' = openFds \ {m_fd[cur]}
  /\ conns' = conns \ {cur}
  /\ free' = free \cup {cur}
  /\ m_used' = m_used - 1
  /\ belong' = [belong EXCEPT ![cur] = FALSE]
  /\ m_power' = m_power + 1
  /\ pc' = "close"
  /\ UNCHANGED <<loopVars, p_cmnct, sockVars>>
(* simple_http_handle_read answers at once; when writev fails it returns   *)
(* and leaves the connection open.                                         *)
ReadHttp ==
  /\ pc = "read"
  /\ m_readable[cur]
  /\ handler[cur] = "http"
  /\ \E sent \in BOOLEAN : m_close' = [m_close EXCEPT ![cur] = @ \/ sent]
  /\ pc' = "close"
  /\ UNCHANGED <<loopVars, p_cmnct, m_power, poolVars, conns, m_fd, m_stale,
                 m_readable, m_writable, handler, readbuf, kernVars>>

-----------------------------------------------------------------------------
(* hixo_handle_accept *)

AllocFails ==
  /\ pc = "alloc"
  /\ free = {}
  /\ pc' = "close"
  /\ UNCHANGED <<loopVars, p_cmnct, m_power, poolVars, conns, sockVars,
                 kernVars>>

alloc_resource ==
  /\ pc = "alloc"
  /\ \E s \in free :
       /\ free' = free \ {s}
       /\ m_used' = m_used + 1
       /\ belong' = [belong EXCEPT ![s] = TRUE]
       /\ p_cmnct' = s
       /\ pc' = IF belong[s] THEN "abort" ELSE "accept"
  /\ UNCHANGED <<loopVars, m_power, conns, sockVars, kernVars>>

free_resource_leak(s) ==   \* mutant: the slot is not given back
  UNCHANGED poolVars
free_resource_mark(s) ==   \* mutant: the ownership mark stays
  /\ free' = free \cup {s}
  /\ m_used' = m_used - 1
  /\ UNCHANGED belong
free_resource(s) ==
  /\ free' = free \cup {s}
  /\ m_used' = m_used - 1
  /\ belong' = [belong EXCEPT ![s] = FALSE]

AcceptFails_close ==       \* mutant: closes the m_fd the slot had last time
  /\ pc = "accept"
  /\ free_resource(p_cmnct)
  /\ p_cmnct' = NoSlot
  /\ openFds' = openFds \ {m_fd[p_cmnct]}
  /\ pc' = "close"
  /\ UNCHANGED <<loopVars, m_power, conns, sockVars, interest>>
(* accept() failed: ECONNABORTED tries again, every other error ends the   *)
(* loop (EAGAIN, EWOULDBLOCK, or an error that is logged).                 *)
AcceptFails ==
  /\ pc = "accept"
  /\ free_resource(p_cmnct)
  /\ p_cmnct' = NoSlot
  /\ \E next \in {"alloc", "close"} :
       pc' = IF belong[p_cmnct] THEN next ELSE "abort"
  /\ UNCHANGED <<loopVars, m_power, conns, sockVars, kernVars>>

FlipStale(bit) == 1 - bit

hixo_create_socket(s, fd, app) ==
  /\ handler' = [handler EXCEPT ![s] = app]
  /\ m_fd' = [m_fd EXCEPT ![s] = fd]
  /\ readbuf' = [readbuf EXCEPT ![s] = FALSE]
  /\ m_stale' = [m_stale EXCEPT ![s] = FlipStale(@)]
  /\ m_readable' = [m_readable EXCEPT ![s] = FALSE]
  /\ m_writable' = [m_writable EXCEPT ![s] = FALSE]
  /\ m_close' = [m_close EXCEPT ![s] = FALSE]

AcceptConnection ==
  /\ pc = "accept"
  /\ \E fd \in Fds \ openFds :
       /\ openFds' = openFds \cup {fd}
       /\ hixo_create_socket(p_cmnct, fd, AppOf[cur])
       /\ interest' = epoll_add_event(fd, p_cmnct, FlipStale(m_stale[p_cmnct]))
  /\ conns' = conns \cup {p_cmnct}
  /\ m_power' = m_power - 1
  /\ p_cmnct' = NoSlot
  /\ pc' = "alloc"
  /\ UNCHANGED <<loopVars, poolVars>>

(* accept() returned a descriptor but epoll_ctl could not register it: the *)
(* descriptor is closed, the slot given back.                              *)
RegisterFails ==
  /\ pc = "accept"
  /\ "add" \in CtlFaults
  /\ \E fd \in Fds \ openFds :
       /\ ~Registered(fd)
       /\ hixo_create_socket(p_cmnct, fd, AppOf[cur])
  /\ free_resource(p_cmnct)
  /\ p_cmnct' = NoSlot
  /\ pc' = IF belong[p_cmnct] THEN "alloc" ELSE "abort"
  /\ UNCHANGED <<loopVars, m_power, conns, kernVars>>

-----------------------------------------------------------------------------
(* The rest of the body of event_loop *)

KeepOpen ==
  /\ pc = "close"
  /\ ~m_close[cur]
  /\ pc' = "write"
  /\ UNCHANGED <<loopVars, p_cmnct, m_power, poolVars, conns, sockVars,
                 kernVars>>

(* echo_handle_disconnect frees the read buffers; the disconnect handler   *)
(* of simple_http does nothing.                                            *)
echo_handle_disconnect_keep(s) == readbuf          \* mutant: frees nothing
echo_handle_disconnect(s) ==
  [readbuf EXCEPT ![s] = @ /\ handler[s] # "echo"]

hixo_destroy_socket_leak(s) == openFds             \* mutant: no close()
hixo_destroy_socket(s) == openFds \ {m_fd[s]}

(* mpf_disconnect_handler, then hixo_handle_close.  close() drops the      *)
(* registration too, so the result of EPOLL_CTL_DEL does not matter.       *)
CloseConnection ==
  /\ pc = "close"
  /\ m_close[cur]
  /\ readbuf' = echo_handle_disconnect(cur)
  /\ m_readable' = [m_readable EXCEPT ![cur] = FALSE]
  /\ m_writable' = [m_writable EXCEPT ![cur] = FALSE]
  /\ interest' = {e \in interest : e.fd # m_fd[cur]}
  /\ openFds' = hixo_destroy_socket(cur)
  /\ conns' = conns \ {cur}
  /\ free_resource(cur)
  /\ m_power' = m_power + 1
  /\ pc' = IF cur \in conns /\ belong[cur] THEN "write" ELSE "abort"
  /\ UNCHANGED <<loopVars, p_cmnct, m_fd, m_stale, m_close, handler>>

(* The write handlers of both applications do nothing; a listener has      *)
(* none.  assert(rm_node(&mp_posted_events, &p_sock->m_posted_node)).      *)
WriteAndUnlink ==
  /\ pc = "write"
  /\ posted' = posted \ {cur}
  /\ cur' = NoSlot
  /\ pc' = IF cur \in posted THEN "loop" ELSE "abort"
  /\ UNCHANGED <<m_hold_lock, tagged, rslt, epevs, todo, p_cmnct, m_power,
                 poolVars, conns, sockVars, kernVars>>

(* event_loop returned HIXO_ERROR: worker_main_core tears the worker down. *)
Stopped ==
  /\ pc = "stop"
  /\ UNCHANGED vars

Next ==
  \/ TryLock \/ AddListeners \/ EpollWait \/ EpollWaitFails
  \/ ClearListeners \/ PostEvents
  \/ NextPosted \/ NotReadable \/ ReadListener \/ ReadEcho \/ ReadHttp
  \/ AllocFails \/ alloc_resource \/ AcceptFails \/ AcceptConnection
  \/ RegisterFails
  \/ KeepOpen \/ CloseConnection \/ WriteAndUnlink \/ Stopped

Spec == Init /\ [][Next]_vars

-----------------------------------------------------------------------------
(* Properties *)

Connections == conns \ Listeners
InHandlers == pc \in {"read", "alloc", "accept", "close", "write"}

(* No assert() of the loop fails, and no node is linked twice: the posted  *)
(* list is empty before epoll_wait (epoll_module.c:178), rm_node finds its *)
(* node in both lists (event_core_module.c:83, 192), the servers carry no  *)
(* tag (epoll_module.c:168) and the cache's ownership marks are right      *)
(* (resource.c:99, 126, 127).                                              *)
NoAssertFails == pc # "abort"

(* A socket's m_node is in one list only: every slot is free, or a         *)
(* connection, or the one hixo_handle_accept just took; m_used counts the  *)
(* slots that are not free.  No slot leaks on any path of accept or close. *)
PoolPartition ==
  /\ free \cap conns = {}
  /\ Slots \ (free \cup conns) = IF pc = "accept" THEN {p_cmnct} ELSE {}
  /\ m_used = Cardinality(Slots \ free)

(* No descriptor leaks and none is shared: the descriptors that are open   *)
(* are exactly the m_fd of the connections, one each.                      *)
FdsOwned ==
  /\ openFds = {m_fd[s] : s \in Connections}
  /\ \A s, t \in Connections : m_fd[s] = m_fd[t] => s = t

(* What the kernel holds agrees with the socket objects: every connection  *)
(* is registered with its own slot and its present stale bit, and nothing  *)
(* is registered for a slot that is not in use.                            *)
InterestExact ==
  /\ \A s \in Connections :
       [fd |-> m_fd[s], ptr |-> s, stale |-> m_stale[s]] \in interest
  /\ \A e \in interest : /\ e.ptr \in conns
                         /\ e.fd = m_fd[e.ptr]
                         /\ e.stale = m_stale[e.ptr]

(* No event reaches a socket it was not meant for: when epoll_process_     *)
(* events sorts the events out, each one is of a socket in use and of its  *)
(* present incarnation (the stale test of epoll_module.c:223 rejects none).*)
EventsFresh ==
  pc \in {"clear", "post"} =>
    \A e \in epevs : e.ptr \in conns /\ e.stale = m_stale[e.ptr]

(* No handler is run on a freed socket: the nodes the loop will still      *)
(* visit are connections, also after earlier handlers of the same batch    *)
(* closed sockets and accepted new ones into the freed slots.              *)
PostedLive ==
  /\ todo \subseteq conns
  /\ InHandlers /\ pc # "write" => cur \in conns

(* m_power counts connections, not listeners, and cannot fall below what   *)
(* the cache allows: hixo_handle_accept does not test it, so it may become *)
(* negative, by the eighth kept in reserve plus the slots of listeners     *)
(* that could not be opened.                                               *)
PowerAccounting ==
  /\ m_power = InitialPower - Cardinality(Connections)
  /\ m_power >= InitialPower - (Cardinality(Slots) - NServers)

(* The listeners are watched only by the worker that holds the accept      *)
(* lock, and not longer than it holds it.                                  *)
ListenOnlyLocked ==
  (\E e \in interest : e.ptr \in Listeners) => m_hold_lock

(* The read buffers of a connection do not outlive it: hixo_create_socket  *)
(* re-initialises m_readbuf_queue and would drop what is left in it.       *)
NoBufferLeak == \A s \in Slots \ conns : ~readbuf[s]

(* A connection a handler asked to close is closed before the loop goes on *)
(* to the next one, and a listener is never closed.                        *)
CloseIsPrompt ==
  /\ \A s \in conns : m_close[s] => s = cur /\ pc = "close"
  /\ Listeners \subseteq conns

(* A step that frees a socket closes exactly its descriptor; descriptors   *)
(* of other connections are never closed.                                  *)
ClosesOwnFd ==
  [][\A fd \in openFds \ openFds' :
       \E s \in conns \ conns' : m_fd[s] = fd]_vars

(* The worker in detail goes through the cycle that module AcceptLock has  *)
(* of every worker: the lock is taken with power only and given back       *)
(* before the first connection is accepted, on every path through          *)
(* epoll_process_events, and each accept and close moves m_power by one.   *)
(* It is so if EPOLL_CTL_DEL of a listener does not fail.                  *)
Cycle == INSTANCE WorkerCycle WITH
  phase <- IF pc \in {"stop", "abort"} THEN "dead"
           ELSE IF pc = "loop" \/ InHandlers THEN "work" ELSE pc,
  hold <- m_hold_lock,
  watching <- \E e \in interest : e.ptr \in Listeners,
  failed <- FALSE,
  conn <- Cardinality(Connections),
  power <- m_power,
  PoolSize <- Cardinality(Slots) - NServers
ImplementsCycle == Cycle!Spec

-----------------------------------------------------------------------------
(* The inductive invariant, by the state its parts are about.  It holds    *)
(* when not both kinds of epoll_ctl calls fail.                            *)

OneKindOfFault == ~({"add", "del"} \subseteq CtlFaults)

Typed ==
  /\ TypeOK
  /\ pc \in {"alloc", "accept"} => cur \in Listeners
  /\ pc = "accept" => p_cmnct \in Slots
  /\ InHandlers => cur \in Slots
  /\ \A s \in Slots : handler[s] = "accept" => s \in Listeners

ListsInv ==
  /\ free \cap conns = {}
  /\ Slots \ (free \cup conns) = IF pc = "accept" THEN {p_cmnct} ELSE {}
  /\ \A s \in Slots : belong[s] <=> s \notin free

CountInv ==
  /\ m_used = Cardinality(Slots \ free)
  /\ m_power = InitialPower - Cardinality(Connections)

WalkInv ==
  /\ pc \in {"lock", "add", "wait", "clear", "post"} => posted = {} /\ todo = {}
  /\ pc = "loop" => posted = todo
  /\ InHandlers => cur \notin todo /\ posted = todo \cup {cur}
  /\ PostedLive
  /\ CloseIsPrompt
  /\ \A l \in Listeners : ~m_close[l]

KernelInv ==
  /\ \A l \in Listeners : m_fd[l] = ListenFd[l] /\ handler[l] = "accept"
  /\ \A s \in Connections : m_fd[s] \in Fds
  /\ FdsOwned
  /\ InterestExact

EventsInv ==
  /\ pc \in {"clear", "post"} \/ epevs = {}
  /\ \A e \in epevs : e.ptr \in conns /\ e.stale = m_stale[e.ptr]
  /\ \A e, d \in epevs : e.ptr = d.ptr => e = d

LockInv ==
  /\ m_hold_lock => pc \in {"add", "wait", "clear", "post"}
  /\ pc \in {"add", "clear"} => m_hold_lock
  /\ tagged # {} => /\ "add" \in CtlFaults
                    /\ pc \in {"wait", "clear"} /\ m_hold_lock
  /\ \A e \in interest : e.ptr \notin tagged
  /\ "del" \notin CtlFaults =>
       \A e \in interest : e.ptr \in Listeners =>
         pc \in {"wait", "clear"} /\ m_hold_lock

BufferInv == \A s \in Slots : readbuf[s] => s \in conns /\ handler[s] = "echo"

IInv ==
  /\ Typed
  /\ NoAssertFails
  /\ ListsInv
  /\ CountInv
  /\ WalkInv
  /\ KernelInv
  /\ EventsInv
  /\ LockInv
  /\ BufferInv
=============================================================================
