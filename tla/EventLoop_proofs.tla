-------------------------- MODULE EventLoop_proofs --------------------------
(* Theorems about EventLoop, for every cache, every set of descriptors and *)
(* every number of listeners.                                              *)
EXTENDS EventLoop, FiniteSetTheorems, TLAPS

-----------------------------------------------------------------------------
(* Types *)

(* The listeners in mpp_servers are slots of the cache.                    *)
LEMMA ListenersType == Listeners \subseteq Slots
  BY ServersAssumption DEF Listeners

(* The initial power is an integer.                                        *)
LEMMA PowerType == InitialPower \in Int
  BY ConfAssumption DEF InitialPower

(* The types hold initially.                                               *)
LEMMA TypedInit == Init => Typed
<1> SUFFICES ASSUME Init PROVE Typed
  OBVIOUS
<1>1. m_fd \in [Slots -> AllFds \cup {NoFd}]
  BY ListenersType DEF Init, AllFds
<1>2. handler \in [Slots -> Apps \cup {"accept", "none"}]
  BY ListenersType DEF Init
<1>3. belong \in [Slots -> BOOLEAN] /\ m_stale \in [Slots -> {0, 1}]
  BY DEF Init
<1>4. m_used \in Int /\ m_power \in Int
  BY PowerType, ServersAssumption DEF Init
<1>5. TypeOK
  BY <1>1, <1>2, <1>3, <1>4, ListenersType DEF Init, TypeOK, Pcs
<1>6. \A s \in Slots : handler[s] = "accept" => s \in Listeners
  BY DEF Init
<1>. QED
  BY <1>5, <1>6 DEF Init, Typed, InHandlers

(* What Typed says about the socket objects. *)
SocketTyped ==
  /\ m_fd \in [Slots -> AllFds \cup {NoFd}]
  /\ m_stale \in [Slots -> {0, 1}]
  /\ m_readable \in [Slots -> BOOLEAN]
  /\ m_writable \in [Slots -> BOOLEAN]
  /\ m_close \in [Slots -> BOOLEAN]
  /\ handler \in [Slots -> Apps \cup {"accept", "none"}]
  /\ readbuf \in [Slots -> BOOLEAN]
  /\ \A s \in Slots : handler[s] = "accept" => s \in Listeners

(* hixo_create_socket keeps the types of a socket.                         *)
LEMMA CreateTyped ==
  ASSUME Typed, NEW s \in Slots, NEW fd \in Fds, cur \in Listeners,
         hixo_create_socket(s, fd, AppOf[cur])
  PROVE  SocketTyped'
<1>1. AppOf[cur] \in Apps /\ AppOf[cur] # "accept"
  BY ServersAssumption DEF Apps
<1>2. fd \in AllFds
  BY DEF AllFds
<1>3. m_stale' \in [Slots -> {0, 1}]
  BY DEF Typed, TypeOK, hixo_create_socket, FlipStale
<1>4. /\ handler' \in [Slots -> Apps \cup {"accept", "none"}]
      /\ \A t \in Slots : handler'[t] = "accept" => t \in Listeners
  BY <1>1 DEF Typed, TypeOK, hixo_create_socket
<1>. QED
  BY <1>2, <1>3, <1>4 DEF SocketTyped, Typed, TypeOK, hixo_create_socket

(* Every action keeps the types, the aborting outcomes included.           *)
LEMMA TypedStep == Typed /\ [Next]_vars => Typed'
<1> SUFFICES ASSUME Typed, [Next]_vars PROVE Typed'
  OBVIOUS
<1> USE DEF Typed, TypeOK, InHandlers
<1>1. CASE TryLock
  BY <1>1 DEF TryLock, Pcs, poolVars, sockVars, kernVars
<1>2. CASE AddListeners
  <2>1. tagged' \subseteq Listeners
    BY <1>2 DEF AddListeners, Listeners
  <2>2. interest' \subseteq Entry
    <3>1. ASSUME NEW l \in Listeners
          PROVE [fd |-> ListenFd[l], ptr |-> l, stale |-> m_stale[l]] \in Entry
      BY ListenersType DEF Entry, AllFds
    <3>2. PICK k \in 1..(NServers + 1) :
            interest' = interest \cup
               {[fd |-> ListenFd[l], ptr |-> l, stale |-> m_stale[l]] :
                  l \in {x \in {Servers[i] : i \in 1..(k - 1)} :
                           ~Registered(ListenFd[x])}}
      BY <1>2 DEF AddListeners
    <3>3. {Servers[i] : i \in 1..(k - 1)} \subseteq Listeners
      BY ServersAssumption DEF Listeners
    <3>. QED
      BY <3>1, <3>2, <3>3
  <2>3. pc' \in Pcs /\ pc' \in {"wait", "abort"}
    BY <1>2 DEF AddListeners, Pcs
  <2>. QED
    BY <1>2, <2>1, <2>2, <2>3 DEF AddListeners, poolVars, sockVars
<1>3. CASE EpollWait
  <2>1. epevs' \subseteq Event
    <3>1. ASSUME NEW e \in Entry, NEW m PROVE Report(e, m) \in Event
      BY DEF Report, Entry, Event
    <3>2. PICK R \in SUBSET interest :
            \E mask \in [R -> {"in", "out", "inout"}] :
              epevs' = {Report(e, mask[e]) : e \in R}
      BY <1>3 DEF EpollWait
    <3>. QED
      BY <3>1, <3>2
  <2>2. pc' \in Pcs /\ pc' \in {"abort", "clear", "post"}
    BY <1>3 DEF EpollWait, Pcs
  <2>. QED
    BY <1>3, <2>1, <2>2 DEF EpollWait, poolVars, sockVars, kernVars
<1>4. CASE EpollWaitFails
  BY <1>4 DEF EpollWaitFails, Pcs, poolVars, sockVars, kernVars
<1>5. CASE ClearListeners
  BY <1>5 DEF ClearListeners, Pcs, poolVars, sockVars, kernVars
<1>6. CASE PostEvents
  <2>1. \A e \in Fresh : e.ptr \in Slots
    BY DEF Fresh, Event
  <2>2. posted' \subseteq Slots /\ todo' \subseteq Slots
    BY <1>6, <2>1 DEF PostEvents
  <2>3. /\ m_readable' \in [Slots -> BOOLEAN]
        /\ m_writable' \in [Slots -> BOOLEAN]
    BY <1>6, Zenon DEF PostEvents
  <2>4. pc' \in Pcs /\ pc' \in {"abort", "stop", "loop"}
    BY <1>6 DEF PostEvents, Pcs
  <2>. QED
    BY <1>6, <2>2, <2>3, <2>4 DEF PostEvents, poolVars, kernVars
<1>7. CASE NextPosted
  BY <1>7 DEF NextPosted, Pcs, poolVars, sockVars, kernVars
<1>8. CASE NotReadable
  BY <1>8 DEF NotReadable, Pcs, loopVars, poolVars, sockVars, kernVars
<1>9. CASE ReadListener
  BY <1>9 DEF ReadListener, Pcs, loopVars, poolVars, sockVars, kernVars
<1>10. CASE ReadEcho
  BY <1>10 DEF ReadEcho, Pcs, loopVars, poolVars, sockVars, kernVars
<1>11. CASE ReadHttp
  BY <1>11 DEF ReadHttp, Pcs, loopVars, poolVars, sockVars, kernVars
<1>12. CASE AllocFails
  BY <1>12 DEF AllocFails, Pcs, loopVars, poolVars, sockVars, kernVars
<1>13. CASE alloc_resource
  BY <1>13 DEF alloc_resource, Pcs, loopVars, poolVars, sockVars, kernVars
<1>14. CASE AcceptFails
  BY <1>14
  DEF AcceptFails, free_resource, Pcs, loopVars, poolVars, sockVars, kernVars
<1>15. CASE AcceptConnection
  <2>1. PICK fd \in Fds \ openFds :
          /\ openFds' = openFds \cup {fd}
          /\ hixo_create_socket(p_cmnct, fd, AppOf[cur])
          /\ interest' = epoll_add_event(fd, p_cmnct, FlipStale(m_stale[p_cmnct]))
    BY <1>15 DEF AcceptConnection
  <2>2. SocketTyped'
    BY <1>15, <2>1, CreateTyped DEF AcceptConnection
  <2>3. interest' \subseteq Entry
    BY <1>15, <2>1
    DEF AcceptConnection, epoll_add_event, FlipStale, Entry, AllFds
  <2>4. pc' = "alloc" /\ cur' \in Listeners /\ m_power' \in Int
    BY <1>15 DEF AcceptConnection, loopVars
  <2>. QED
    BY <1>15, <2>1, <2>2, <2>3, <2>4
    DEF AcceptConnection, SocketTyped, Pcs, loopVars, poolVars
<1>16. CASE RegisterFails
  <2>1. SocketTyped'
    BY <1>16, CreateTyped DEF RegisterFails
  <2>2. free' \subseteq Slots /\ m_used' \in Int /\ belong' \in [Slots -> BOOLEAN]
    BY <1>16 DEF RegisterFails, free_resource
  <2>3. pc' \in {"alloc", "abort"} /\ p_cmnct' = NoSlot
    BY <1>16 DEF RegisterFails
  <2>. QED
    BY <1>16, <2>1, <2>2, <2>3
    DEF RegisterFails, SocketTyped, Pcs, loopVars, kernVars
<1>17. CASE KeepOpen
  BY <1>17 DEF KeepOpen, Pcs, loopVars, poolVars, sockVars, kernVars
<1>18. CASE CloseConnection
  BY <1>18
  DEF CloseConnection, free_resource, hixo_destroy_socket,
      echo_handle_disconnect, Pcs, loopVars, poolVars, sockVars, kernVars
<1>19. CASE WriteAndUnlink
  BY <1>19 DEF WriteAndUnlink, Pcs, loopVars, poolVars, sockVars, kernVars
<1>20. CASE Stopped \/ UNCHANGED vars
  BY <1>20 DEF Stopped, vars, loopVars, poolVars, sockVars, kernVars
<1>. QED
  BY <1>1, <1>2, <1>3, <1>4, <1>5, <1>6, <1>7, <1>8, <1>9, <1>10, <1>11,
     <1>12, <1>13, <1>14, <1>15, <1>16, <1>17, <1>18, <1>19, <1>20 DEF Next

(* Every reachable state has the right types, whatever epoll_ctl does.     *)
THEOREM TypeCorrect == Spec => []TypeOK
<1>1. Init => Typed
  BY TypedInit
<1>2. Typed /\ [Next]_vars => Typed'
  BY TypedStep
<1>3. Typed => TypeOK
  BY DEF Typed
<1>. QED
  BY <1>1, <1>2, <1>3, PTL DEF Spec

-----------------------------------------------------------------------------
(* The lists and the counters *)

(* Only five actions move a slot; every other step leaves the cache, the   *)
(* connections and what identifies a socket alone.                         *)
LEMMA SlotSteps ==
  ASSUME [Next]_vars
  PROVE  \/ alloc_resource \/ AcceptFails \/ AcceptConnection
         \/ RegisterFails \/ CloseConnection
         \/ /\ UNCHANGED <<poolVars, conns, p_cmnct, m_power, m_fd, m_stale,
                           handler, openFds>>
            /\ pc' = pc \/ (pc # "accept" /\ pc' # "accept")
<1> USE DEF loopVars, poolVars, sockVars, kernVars
<1>1. CASE TryLock \/ AddListeners \/ EpollWait \/ EpollWaitFails
  BY <1>1 DEF TryLock, AddListeners, EpollWait, EpollWaitFails
<1>2. CASE ClearListeners \/ PostEvents \/ NextPosted \/ NotReadable
  BY <1>2 DEF ClearListeners, PostEvents, NextPosted, NotReadable
<1>3. CASE ReadListener \/ ReadEcho \/ ReadHttp \/ AllocFails
  BY <1>3 DEF ReadListener, ReadEcho, ReadHttp, AllocFails
<1>4. CASE KeepOpen \/ WriteAndUnlink \/ Stopped \/ UNCHANGED vars
  BY <1>4 DEF KeepOpen, WriteAndUnlink, Stopped, vars
<1>. QED
  BY <1>1, <1>2, <1>3, <1>4 DEF Next

(* The socket cache is consistent initially.                               *)
LEMMA ListsInit == Init => ListsInv
  BY ListenersType DEF Init, ListsInv

(* A socket that is closed is a connection in use, never a listener.       *)
LEMMA ClosesConnection ==
  ASSUME Typed, ListsInv, WalkInv, CloseConnection
  PROVE  cur \in Connections /\ cur \notin free /\ cur \in Slots
<1>1. pc = "close" /\ m_close[cur]
  BY DEF CloseConnection
<1>2. cur \in Slots /\ cur \in conns
  BY <1>1 DEF Typed, WalkInv, PostedLive, InHandlers
<1>3. cur \notin Listeners
  BY <1>1 DEF WalkInv
<1>. QED
  BY <1>2, <1>3 DEF Connections, ListsInv

(* Every step keeps the three lists of the socket cache consistent.        *)
LEMMA ListsStep ==
  ASSUME Typed, ListsInv, WalkInv, [Next]_vars
  PROVE  ListsInv'
<1> USE DEF Typed, TypeOK, ListsInv
<1>1. CASE alloc_resource
  BY <1>1 DEF alloc_resource
<1>2. CASE AcceptFails
  BY <1>2 DEF AcceptFails, free_resource
<1>3. CASE AcceptConnection
  BY <1>3 DEF AcceptConnection, poolVars
<1>4. CASE RegisterFails
  BY <1>4 DEF RegisterFails, free_resource
<1>5. CASE CloseConnection
  BY <1>5 DEF CloseConnection, free_resource, WalkInv, PostedLive, InHandlers
<1>. QED
  BY <1>1, <1>2, <1>3, <1>4, <1>5, SlotSteps DEF poolVars

(* NServers is the number of listeners: mpp_servers names each once.       *)
LEMMA ListenersCard == IsFiniteSet(Listeners) /\ Cardinality(Listeners) = NServers
<1>1. Servers \in Surjection(1..NServers, Listeners)
  BY ServersAssumption DEF Surjection, Listeners
<1>2. Servers \in Injection(1..NServers, Listeners)
  BY <1>1, ServersAssumption DEF Injection, IsInjective, Surjection
<1>3. IsFiniteSet(1..NServers) /\ Cardinality(1..NServers) = NServers
  BY ServersAssumption, FS_Interval
<1>. QED
  BY <1>1, <1>2, <1>3, FS_Surjection

(* The count of connections is exact initially.                            *)
LEMMA CountInit == Init => CountInv
<1> SUFFICES ASSUME Init PROVE CountInv
  OBVIOUS
<1>1. Slots \ free = Listeners /\ Connections = {}
  BY ListenersType DEF Init, Connections
<1>. QED
  BY <1>1, ListenersCard, FS_EmptySet, PowerType DEF Init, CountInv

(* Every step keeps the count of connections exact.                        *)
LEMMA CountStep ==
  ASSUME Typed, ListsInv, CountInv, WalkInv, [Next]_vars
  PROVE  CountInv'
<1> USE DEF Typed, TypeOK
<1>0. /\ IsFiniteSet(Slots \ free) /\ Cardinality(Slots \ free) \in Nat
      /\ IsFiniteSet(Connections) /\ Cardinality(Connections) \in Nat
  BY SlotsAssumption, FS_Subset, FS_CardinalityType DEF Connections
<1>1. CASE alloc_resource
  <2>1. PICK s \in free : /\ free' = free \ {s} /\ m_used' = m_used + 1
    BY <1>1 DEF alloc_resource
  <2>2. Slots \ free' = (Slots \ free) \cup {s} /\ s \notin Slots \ free
    BY <2>1
  <2>3. Cardinality(Slots \ free') = Cardinality(Slots \ free) + 1
    BY <1>0, <2>2, FS_AddElement
  <2>. QED
    BY <1>1, <2>1, <2>3 DEF alloc_resource, CountInv, Connections
<1>2. ASSUME NEW s \in Slots, s \notin free, free_resource(s)
      PROVE  m_used' = Cardinality(Slots \ free')
  <2> DEFINE Used == Slots \ free
  <2>1. Slots \ free' = Used \ {s} /\ s \in Used
    BY <1>2 DEF free_resource
  <2> HIDE DEF Used
  <2>2. Cardinality(Used \ {s}) = Cardinality(Used) - 1
    <3>1. IsFiniteSet(Used)
      BY <1>0 DEF Used
    <3>. QED
      BY <2>1, <3>1, FS_RemoveElement
  <2>3. Cardinality(Slots \ free') = Cardinality(Slots \ free) - 1
    BY <2>1, <2>2 DEF Used
  <2>. QED
    BY <1>2, <2>3 DEF free_resource, CountInv
<1>3. CASE AcceptFails
  BY <1>2, <1>3 DEF AcceptFails, ListsInv, CountInv, Connections
<1>4. CASE AcceptConnection
  <2>1. Connections' = Connections \cup {p_cmnct} /\ p_cmnct \notin Connections
    BY <1>4 DEF AcceptConnection, Connections, ListsInv, WalkInv, CloseIsPrompt
  <2>2. Cardinality(Connections') = Cardinality(Connections) + 1
    BY <1>0, <2>1, FS_AddElement
  <2>. QED
    BY <1>0, <1>4, <2>2, PowerType DEF AcceptConnection, CountInv, poolVars
<1>5. CASE RegisterFails
  BY <1>2, <1>5 DEF RegisterFails, ListsInv, CountInv, Connections
<1>6. CASE CloseConnection
  <2>1. cur \in Connections /\ cur \notin free /\ cur \in Slots
    BY <1>6, ClosesConnection
  <2>2. Connections' = Connections \ {cur}
    BY <1>6 DEF CloseConnection, Connections
  <2>3. Cardinality(Connections') = Cardinality(Connections) - 1
    BY <1>0, <2>1, <2>2, FS_RemoveElement
  <2>. QED
    BY <1>0, <1>2, <1>6, <2>1, <2>3, PowerType DEF CloseConnection, CountInv
<1>. QED
  BY <1>1, <1>3, <1>4, <1>5, <1>6, SlotSteps DEF CountInv, poolVars, Connections

-----------------------------------------------------------------------------
(* The walk over the posted sockets *)

(* Before the first epoll_wait nothing is posted and no handler runs.      *)
LEMMA WalkInit == Init => WalkInv
  BY ListenersType DEF Init, WalkInv, PostedLive, CloseIsPrompt, InHandlers

(* Every step keeps what is left of the walk over the posted sockets.      *)
LEMMA WalkStep ==
  ASSUME Typed, ListsInv, WalkInv, KernelInv, EventsInv, [Next]_vars
  PROVE  WalkInv'
<1> USE DEF Typed, TypeOK, WalkInv, PostedLive, CloseIsPrompt, InHandlers,
            loopVars, sockVars
<1>1. CASE TryLock
  BY <1>1 DEF TryLock
<1>2. CASE AddListeners
  BY <1>2 DEF AddListeners
<1>3. CASE EpollWait
  BY <1>3 DEF EpollWait
<1>4. CASE EpollWaitFails
  BY <1>4 DEF EpollWaitFails
<1>5. CASE ClearListeners
  BY <1>5 DEF ClearListeners
<1>6. CASE PostEvents
  BY <1>6 DEF PostEvents, Fresh, EventsInv
<1>7. CASE NextPosted
  BY <1>7 DEF NextPosted
<1>8. CASE NotReadable
  BY <1>8 DEF NotReadable
<1>9. CASE ReadListener
  BY <1>9 DEF ReadListener
<1>10. CASE ReadEcho
  BY <1>10 DEF ReadEcho, KernelInv
<1>11. CASE ReadHttp
  BY <1>11 DEF ReadHttp, KernelInv
<1>12. CASE AllocFails
  BY <1>12 DEF AllocFails
<1>13. CASE alloc_resource
  BY <1>13 DEF alloc_resource
<1>14. CASE AcceptFails
  BY <1>14 DEF AcceptFails
<1>15. CASE AcceptConnection
  BY <1>15 DEF AcceptConnection, hixo_create_socket, ListsInv
<1>16. CASE RegisterFails
  BY <1>16 DEF RegisterFails, hixo_create_socket, ListsInv
<1>17. CASE KeepOpen
  BY <1>17 DEF KeepOpen
<1>18. CASE CloseConnection
  BY <1>18 DEF CloseConnection
<1>19. CASE WriteAndUnlink
  BY <1>19 DEF WriteAndUnlink
<1>20. CASE Stopped \/ UNCHANGED vars
  BY <1>20 DEF Stopped, vars
<1>. QED
  BY <1>1, <1>2, <1>3, <1>4, <1>5, <1>6, <1>7, <1>8, <1>9, <1>10, <1>11,
     <1>12, <1>13, <1>14, <1>15, <1>16, <1>17, <1>18, <1>19, <1>20 DEF Next

-----------------------------------------------------------------------------
(* Descriptors and registrations *)

(* What AddListeners registers is what InterestExact asks of an entry.     *)
LEMMA AddedEntries ==
  ASSUME AddListeners, NEW e \in interest'
  PROVE  \/ e \in interest
         \/ /\ e.ptr \in Listeners
            /\ e = [fd |-> ListenFd[e.ptr], ptr |-> e.ptr,
                    stale |-> m_stale[e.ptr]]
<1>1. PICK k \in 1..(NServers + 1) :
        interest' = interest \cup
           {[fd |-> ListenFd[l], ptr |-> l, stale |-> m_stale[l]] :
              l \in {x \in {Servers[i] : i \in 1..(k - 1)} :
                       ~Registered(ListenFd[x])}}
  BY DEF AddListeners
<1>2. {Servers[i] : i \in 1..(k - 1)} \subseteq Listeners
  BY ServersAssumption DEF Listeners
<1>. QED
  BY <1>1, <1>2

(* Only four steps change what epoll watches.                              *)
LEMMA InterestSteps ==
  ASSUME [Next]_vars
  PROVE  \/ AddListeners \/ ClearListeners \/ AcceptConnection
         \/ CloseConnection \/ UNCHANGED interest
<1> USE DEF loopVars, poolVars, sockVars, kernVars
<1>1. CASE TryLock \/ EpollWait \/ EpollWaitFails \/ PostEvents \/ NextPosted
  BY <1>1 DEF TryLock, EpollWait, EpollWaitFails, PostEvents, NextPosted
<1>2. CASE NotReadable \/ ReadListener \/ ReadEcho \/ ReadHttp \/ AllocFails
  BY <1>2 DEF NotReadable, ReadListener, ReadEcho, ReadHttp, AllocFails
<1>3. CASE alloc_resource \/ AcceptFails \/ RegisterFails
  BY <1>3 DEF alloc_resource, AcceptFails, RegisterFails
<1>4. CASE KeepOpen \/ WriteAndUnlink \/ Stopped \/ UNCHANGED vars
  BY <1>4 DEF KeepOpen, WriteAndUnlink, Stopped, vars
<1>. QED
  BY <1>1, <1>2, <1>3, <1>4 DEF Next

(* Descriptors and interest agree initially.                               *)
LEMMA KernelInit == Init => KernelInv
  BY ListenersType
  DEF Init, KernelInv, FdsOwned, InterestExact, Connections

(* Every step keeps the descriptors owned and epoll's interest exact.      *)
LEMMA KernelStep ==
  ASSUME Typed, ListsInv, WalkInv, KernelInv, [Next]_vars
  PROVE  KernelInv'
<1> USE DEF KernelInv, FdsOwned, InterestExact, Connections
<1>0. Listeners \subseteq conns /\ Listeners \subseteq Slots
  BY ListenersType DEF WalkInv, CloseIsPrompt
<1>1. CASE AddListeners
  <2>1. UNCHANGED <<conns, m_fd, m_stale, handler, openFds>>
    BY <1>1 DEF AddListeners, sockVars
  <2>2. interest \subseteq interest'
    BY <1>1 DEF AddListeners
  <2>3. ASSUME NEW e \in interest'
        PROVE  e.ptr \in conns /\ e.fd = m_fd[e.ptr] /\ e.stale = m_stale[e.ptr]
    BY <1>0, <1>1, AddedEntries
  <2>. QED
    BY <2>1, <2>2, <2>3
<1>2. CASE ClearListeners
  <2>1. UNCHANGED <<conns, m_fd, m_stale, handler, openFds>>
    BY <1>2 DEF ClearListeners, sockVars
  <2>2. interest' \subseteq interest
    BY <1>2 DEF ClearListeners
  <2>3. ASSUME NEW e \in interest, e.fd \in Fds PROVE e \in interest'
    BY <1>2, <2>3, FdsAssumption, ServersAssumption DEF ClearListeners, Listeners
  <2>. QED
    BY <2>1, <2>2, <2>3
<1>3. CASE AcceptConnection
  <2>1. PICK fd \in Fds \ openFds :
          /\ openFds' = openFds \cup {fd}
          /\ hixo_create_socket(p_cmnct, fd, AppOf[cur])
          /\ interest' = epoll_add_event(fd, p_cmnct, FlipStale(m_stale[p_cmnct]))
    BY <1>3 DEF AcceptConnection
  <2>2. p_cmnct \in Slots /\ p_cmnct \notin conns /\ conns' = conns \cup {p_cmnct}
    BY <1>3 DEF AcceptConnection, Typed, ListsInv
  <2>3. ~Registered(fd)
    BY <2>1, <1>0, FdsAssumption DEF Registered
  <2>4. interest' = interest \cup
          {[fd |-> fd, ptr |-> p_cmnct, stale |-> FlipStale(m_stale[p_cmnct])]}
    BY <2>1, <2>3 DEF epoll_add_event
  <2>5. /\ m_fd' = [m_fd EXCEPT ![p_cmnct] = fd]
        /\ m_stale' = [m_stale EXCEPT ![p_cmnct] = FlipStale(@)]
        /\ \A l \in Listeners : handler'[l] = handler[l]
    BY <1>0, <2>1, <2>2 DEF hixo_create_socket, Typed, TypeOK
  <2>6. /\ m_fd'[p_cmnct] = fd /\ m_stale'[p_cmnct] = FlipStale(m_stale[p_cmnct])
        /\ \A s \in Slots \ {p_cmnct} : m_fd'[s] = m_fd[s] /\ m_stale'[s] = m_stale[s]
    BY <2>2, <2>5 DEF Typed, TypeOK
  <2>7. conns \subseteq Slots /\ p_cmnct \notin Listeners
    BY <1>0, <2>2 DEF Typed, TypeOK
  <2>8. \A l \in Listeners : m_fd'[l] = ListenFd[l] /\ handler'[l] = "accept"
    BY <1>0, <2>5, <2>6, <2>7
  <2>9. (\A s \in Connections : m_fd[s] \in Fds)' /\ FdsOwned'
    BY <2>1, <2>2, <2>6, <2>7
  <2>10. InterestExact'
    BY <2>2, <2>4, <2>6, <2>7
  <2>. QED
    BY <2>8, <2>9, <2>10
<1>4. CASE CloseConnection
  <2>1. cur \in Connections /\ cur \in Slots
    BY <1>4, ClosesConnection
  <2>2. /\ UNCHANGED <<m_fd, m_stale, handler>>
        /\ conns' = conns \ {cur}
        /\ openFds' = openFds \ {m_fd[cur]}
        /\ interest' = {e \in interest : e.fd # m_fd[cur]}
    BY <1>4 DEF CloseConnection, hixo_destroy_socket
  <2>. QED
    BY <2>1, <2>2
<1>5. CASE RegisterFails
  <2>1. UNCHANGED <<conns, openFds, interest>> /\ p_cmnct \in Slots \ conns
    BY <1>5 DEF RegisterFails, kernVars, Typed, ListsInv
  <2>2. \A s \in Slots \ {p_cmnct} : /\ m_fd'[s] = m_fd[s]
                                     /\ m_stale'[s] = m_stale[s]
                                     /\ handler'[s] = handler[s]
    BY <1>5 DEF RegisterFails, hixo_create_socket, Typed, TypeOK
  <2>3. conns \subseteq Slots
    BY DEF Typed, TypeOK
  <2>. QED
    BY <1>0, <2>1, <2>2, <2>3
<1>6. CASE alloc_resource \/ AcceptFails
  BY <1>6 DEF alloc_resource, AcceptFails, sockVars, kernVars
<1>. QED
  BY <1>1, <1>2, <1>3, <1>4, <1>5, <1>6, SlotSteps, InterestSteps

-----------------------------------------------------------------------------
(* Events *)

(* At the start there is no batch of events.                               *)
LEMMA EventsInit == Init => EventsInv
  BY DEF Init, EventsInv

(* Every step keeps the events of an epoll_wait about open sockets.        *)
LEMMA EventsStep ==
  ASSUME Typed, WalkInv, KernelInv, EventsInv, [Next]_vars
  PROVE  EventsInv'
<1> USE DEF EventsInv, loopVars, sockVars
<1>1. CASE TryLock
  BY <1>1 DEF TryLock
<1>2. CASE AddListeners
  BY <1>2 DEF AddListeners
<1>3. CASE EpollWait
  <2>1. PICK R \in SUBSET interest :
          \E mask \in [R -> {"in", "out", "inout"}] :
            epevs' = {Report(e, mask[e]) : e \in R}
    BY <1>3 DEF EpollWait
  <2>2. ASSUME NEW e \in R, NEW d \in R, e.ptr = d.ptr PROVE e = d
    BY <2>1, <2>2 DEF KernelInv, InterestExact, Typed, TypeOK, Entry
  <2>3. ASSUME NEW e \in R
        PROVE  e.ptr \in conns /\ e.stale = m_stale[e.ptr]
    BY <2>1 DEF KernelInv, InterestExact
  <2>4. pc' \in {"clear", "post"} /\ UNCHANGED <<conns, m_stale>>
    BY <1>3 DEF EpollWait, WalkInv
  <2>5. \A e \in epevs' : \E d \in R : /\ e.ptr = d.ptr
                                      /\ e.stale = d.stale
    BY <2>1 DEF Report
  <2>6. \A e, d \in epevs' : e.ptr = d.ptr => e = d
    BY <2>1, <2>2 DEF Report
  <2>. QED
    BY <2>3, <2>4, <2>5, <2>6
<1>4. CASE EpollWaitFails
  BY <1>4 DEF EpollWaitFails
<1>5. CASE ClearListeners
  BY <1>5 DEF ClearListeners
<1>6. CASE PostEvents
  BY <1>6 DEF PostEvents
<1>7. CASE NextPosted
  BY <1>7 DEF NextPosted
<1>8. CASE NotReadable
  BY <1>8 DEF NotReadable
<1>9. CASE ReadListener
  BY <1>9 DEF ReadListener
<1>10. CASE ReadEcho
  BY <1>10 DEF ReadEcho
<1>11. CASE ReadHttp
  BY <1>11 DEF ReadHttp
<1>12. CASE AllocFails
  BY <1>12 DEF AllocFails
<1>13. CASE alloc_resource
  BY <1>13 DEF alloc_resource
<1>14. CASE AcceptFails
  BY <1>14 DEF AcceptFails
<1>15. CASE AcceptConnection
  BY <1>15 DEF AcceptConnection
<1>16. CASE RegisterFails
  BY <1>16 DEF RegisterFails
<1>17. CASE KeepOpen
  BY <1>17 DEF KeepOpen
<1>18. CASE CloseConnection
  BY <1>18 DEF CloseConnection
<1>19. CASE WriteAndUnlink
  BY <1>19 DEF WriteAndUnlink
<1>20. CASE Stopped \/ UNCHANGED vars
  BY <1>20 DEF Stopped, vars
<1>. QED
  BY <1>1, <1>2, <1>3, <1>4, <1>5, <1>6, <1>7, <1>8, <1>9, <1>10, <1>11,
     <1>12, <1>13, <1>14, <1>15, <1>16, <1>17, <1>18, <1>19, <1>20 DEF Next

-----------------------------------------------------------------------------
(* The lock, the tags and the registered listeners *)

(* At the start the worker has no lock, no tag and watches nothing.        *)
LEMMA LockInit == Init => LockInv
  BY DEF Init, LockInv

(* ClearListeners removes every listener and every tag unless an           *)
(* EPOLL_CTL_DEL may fail.                                                 *)
LEMMA Cleared ==
  ASSUME Typed, KernelInv, LockInv, ClearListeners, "del" \notin CtlFaults
  PROVE  tagged' = {} /\ \A e \in interest' : e.ptr \notin Listeners
<1>1. PICK k \in 1..(NServers + 1) :
        /\ k <= NServers => "del" \in CtlFaults
        /\ interest' = {e \in interest :
             e.fd \notin {ListenFd[l] : l \in {Servers[i] : i \in 1..(k - 1)} \ tagged}}
        /\ tagged' = tagged \ {Servers[i] : i \in 1..(k - 1)}
  BY DEF ClearListeners
<1>2. {Servers[i] : i \in 1..(k - 1)} = Listeners
  <2>1. k = NServers + 1
    BY <1>1, ServersAssumption
  <2>. QED
    BY <2>1, ServersAssumption DEF Listeners
<1>3. tagged' = {}
  BY <1>1, <1>2 DEF Typed, TypeOK
<1>4. ASSUME NEW e \in interest', e.ptr \in Listeners PROVE FALSE
  <2>1. e \in interest /\ e.fd = ListenFd[e.ptr] /\ e.ptr \notin tagged
    BY <1>1, <1>4 DEF KernelInv, InterestExact, LockInv
  <2>. QED
    BY <1>1, <1>2, <1>4, <2>1
<1>. QED
  BY <1>3, <1>4

(* A listener whose EPOLL_CTL_ADD failed is not registered.                *)
LEMMA AddedUntagged ==
  ASSUME Typed, KernelInv, AddListeners, tagged = {}
  PROVE  \A e \in interest' : e.ptr \notin tagged'
<1>1. PICK k \in 1..(NServers + 1) :
        /\ k <= NServers => ~Registered(ListenFd[Servers[k]])
        /\ interest' = interest \cup
             {[fd |-> ListenFd[l], ptr |-> l, stale |-> m_stale[l]] :
                l \in {x \in {Servers[i] : i \in 1..(k - 1)} :
                         ~Registered(ListenFd[x])}}
        /\ tagged' = {Servers[i] : i \in {j \in 1..NServers : j <= k}} \
                        {Servers[i] : i \in 1..(k - 1)}
  BY DEF AddListeners
<1>2. SUFFICES ASSUME NEW e \in interest', e.ptr \in tagged' PROVE FALSE
  OBVIOUS
<1>3. e \in interest
  BY <1>1, <1>2
<1>4. k \in 1..NServers /\ e.ptr = Servers[k]
  BY <1>1, <1>2, ServersAssumption
<1>5. e.ptr \in Listeners
  BY <1>4 DEF Listeners
<1>6. e.fd = ListenFd[Servers[k]]
  BY <1>3, <1>4, <1>5 DEF KernelInv, InterestExact
<1>. QED
  BY <1>1, <1>3, <1>4, <1>6 DEF Registered

(* Every step keeps the listeners registered only with the lock held.      *)
LEMMA LockStep ==
  ASSUME OneKindOfFault, Typed, ListsInv, WalkInv, KernelInv, LockInv, [Next]_vars
  PROVE  LockInv'
<1> USE DEF LockInv, loopVars, kernVars
<1>1. CASE TryLock
  BY <1>1 DEF TryLock
<1>2. CASE AddListeners
  <2>1. tagged = {} /\ m_hold_lock' = TRUE
    BY <1>2 DEF AddListeners, Typed, TypeOK
  <2>2. pc' = "wait"
    BY <1>2, <2>1 DEF AddListeners
  <2>3. tagged' # {} => "add" \in CtlFaults
    <3>1. PICK k \in 1..(NServers + 1) :
            /\ k <= NServers => "add" \in CtlFaults
            /\ tagged' = {Servers[i] : i \in {j \in 1..NServers : j <= k}} \
                            {Servers[i] : i \in 1..(k - 1)}
      BY <1>2, <2>1 DEF AddListeners
    <3>2. k = NServers + 1 => tagged' = {}
      BY <3>1, ServersAssumption
    <3>. QED
      BY <3>1, <3>2, ServersAssumption
  <2>4. \A e \in interest' : e.ptr \notin tagged'
    BY <1>2, <2>1, AddedUntagged
  <2>. QED
    BY <2>1, <2>2, <2>3, <2>4
<1>3. CASE EpollWait
  BY <1>3 DEF EpollWait, WalkInv
<1>4. CASE EpollWaitFails
  BY <1>4 DEF EpollWaitFails, WalkInv
<1>5. CASE ClearListeners
  <2>1. pc' = "post" /\ UNCHANGED m_hold_lock
    BY <1>5 DEF ClearListeners
  <2>2. tagged' \subseteq tagged /\ interest' \subseteq interest
    BY <1>5 DEF ClearListeners
  <2>3. tagged' = {}
    BY <1>5, <2>2, Cleared DEF OneKindOfFault
  <2>. QED
    BY <1>5, <2>1, <2>2, <2>3, Cleared
<1>6. CASE PostEvents
  BY <1>6 DEF PostEvents
<1>7. CASE NextPosted
  BY <1>7 DEF NextPosted
<1>8. CASE NotReadable
  BY <1>8 DEF NotReadable
<1>9. CASE ReadListener
  BY <1>9 DEF ReadListener
<1>10. CASE ReadEcho
  BY <1>10 DEF ReadEcho
<1>11. CASE ReadHttp
  BY <1>11 DEF ReadHttp
<1>12. CASE AllocFails
  BY <1>12 DEF AllocFails
<1>13. CASE alloc_resource
  BY <1>13 DEF alloc_resource
<1>14. CASE AcceptFails
  BY <1>14 DEF AcceptFails
<1>15. CASE AcceptConnection
  <2>1. p_cmnct \notin Listeners
    BY <1>15 DEF AcceptConnection, ListsInv, WalkInv, CloseIsPrompt
  <2>2. \A e \in interest' : e \in interest \/ e.ptr = p_cmnct
    BY <1>15 DEF AcceptConnection, epoll_add_event
  <2>3. tagged = {} /\ UNCHANGED <<tagged, m_hold_lock>> /\ pc' = "alloc"
    BY <1>15 DEF AcceptConnection
  <2>. QED
    BY <1>15, <2>1, <2>2, <2>3 DEF AcceptConnection
<1>16. CASE RegisterFails
  BY <1>16 DEF RegisterFails
<1>17. CASE KeepOpen
  BY <1>17 DEF KeepOpen
<1>18. CASE CloseConnection
  BY <1>18 DEF CloseConnection
<1>19. CASE WriteAndUnlink
  BY <1>19 DEF WriteAndUnlink
<1>20. CASE Stopped \/ UNCHANGED vars
  BY <1>20 DEF Stopped, vars
<1>. QED
  BY <1>1, <1>2, <1>3, <1>4, <1>5, <1>6, <1>7, <1>8, <1>9, <1>10, <1>11,
     <1>12, <1>13, <1>14, <1>15, <1>16, <1>17, <1>18, <1>19, <1>20 DEF Next

-----------------------------------------------------------------------------
(* Read buffers *)

(* At the start no connection holds read buffers.                          *)
LEMMA BufferInit == Init => BufferInv
  BY DEF Init, BufferInv

(* Every step keeps the read buffers with open echo connections.           *)
LEMMA BufferStep ==
  ASSUME Typed, ListsInv, WalkInv, BufferInv, [Next]_vars
  PROVE  BufferInv'
<1> USE DEF BufferInv, sockVars
<1>1. CASE TryLock
  BY <1>1 DEF TryLock
<1>2. CASE AddListeners
  BY <1>2 DEF AddListeners
<1>3. CASE EpollWait
  BY <1>3 DEF EpollWait
<1>4. CASE EpollWaitFails
  BY <1>4 DEF EpollWaitFails
<1>5. CASE ClearListeners
  BY <1>5 DEF ClearListeners
<1>6. CASE PostEvents
  BY <1>6 DEF PostEvents
<1>7. CASE NextPosted
  BY <1>7 DEF NextPosted
<1>8. CASE NotReadable
  BY <1>8 DEF NotReadable
<1>9. CASE ReadListener
  BY <1>9 DEF ReadListener
<1>10. CASE ReadEcho
  BY <1>10 DEF ReadEcho, Typed, TypeOK, WalkInv, PostedLive, InHandlers
<1>11. CASE ReadHttp
  BY <1>11 DEF ReadHttp
<1>12. CASE AllocFails
  BY <1>12 DEF AllocFails
<1>13. CASE alloc_resource
  BY <1>13 DEF alloc_resource
<1>14. CASE AcceptFails
  BY <1>14 DEF AcceptFails
<1>15. CASE AcceptConnection
  BY <1>15 DEF AcceptConnection, hixo_create_socket, Typed, TypeOK
<1>16. CASE RegisterFails
  BY <1>16 DEF RegisterFails, hixo_create_socket, Typed, TypeOK
<1>17. CASE KeepOpen
  BY <1>17 DEF KeepOpen
<1>18. CASE CloseConnection
  BY <1>18 DEF CloseConnection, echo_handle_disconnect, Typed, TypeOK
<1>19. CASE WriteAndUnlink
  BY <1>19 DEF WriteAndUnlink
<1>20. CASE Stopped \/ UNCHANGED vars
  BY <1>20 DEF Stopped, vars
<1>. QED
  BY <1>1, <1>2, <1>3, <1>4, <1>5, <1>6, <1>7, <1>8, <1>9, <1>10, <1>11,
     <1>12, <1>13, <1>14, <1>15, <1>16, <1>17, <1>18, <1>19, <1>20 DEF Next

-----------------------------------------------------------------------------
(* Assertions *)

(* No step fails an assertion: a closed socket is in mp_connections, a     *)
(* walked one in the posted list, an added listener has no tag.            *)
LEMMA AssertStep ==
  ASSUME IInv, [Next]_vars
  PROVE  NoAssertFails'
<1> USE DEF IInv, NoAssertFails
<1>1. CASE TryLock
  BY <1>1 DEF TryLock
<1>2. CASE AddListeners
  BY <1>2 DEF AddListeners, LockInv
<1>3. CASE EpollWait
  BY <1>3 DEF EpollWait, WalkInv
<1>4. CASE EpollWaitFails
  BY <1>4 DEF EpollWaitFails, WalkInv
<1>5. CASE ClearListeners
  BY <1>5 DEF ClearListeners
<1>6. CASE PostEvents
  BY <1>6 DEF PostEvents, Fresh, EventsInv
<1>7. CASE NextPosted
  BY <1>7 DEF NextPosted
<1>8. CASE NotReadable
  BY <1>8 DEF NotReadable
<1>9. CASE ReadListener
  BY <1>9 DEF ReadListener
<1>10. CASE ReadEcho
  BY <1>10 DEF ReadEcho
<1>11. CASE ReadHttp
  BY <1>11 DEF ReadHttp
<1>12. CASE AllocFails
  BY <1>12 DEF AllocFails
<1>13. CASE alloc_resource
  BY <1>13 DEF alloc_resource, ListsInv, Typed, TypeOK
<1>14. CASE AcceptFails
  BY <1>14 DEF AcceptFails, ListsInv, Typed
<1>15. CASE AcceptConnection
  BY <1>15 DEF AcceptConnection
<1>16. CASE RegisterFails
  BY <1>16 DEF RegisterFails, ListsInv, Typed
<1>17. CASE KeepOpen
  BY <1>17 DEF KeepOpen
<1>18. CASE CloseConnection
  BY <1>18 DEF CloseConnection, ListsInv, WalkInv, PostedLive, InHandlers, Typed
<1>19. CASE WriteAndUnlink
  BY <1>19 DEF WriteAndUnlink, WalkInv, InHandlers
<1>20. CASE Stopped \/ UNCHANGED vars
  BY <1>20 DEF Stopped, vars
<1>. QED
  BY <1>1, <1>2, <1>3, <1>4, <1>5, <1>6, <1>7, <1>8, <1>9, <1>10, <1>11,
     <1>12, <1>13, <1>14, <1>15, <1>16, <1>17, <1>18, <1>19, <1>20 DEF Next

-----------------------------------------------------------------------------
(* The invariant is inductive, and what follows from it *)

(* All parts of the invariant hold when the worker starts its loop.        *)
LEMMA IInvInit == Init => IInv
<1>1. Init => NoAssertFails
  BY DEF Init, NoAssertFails
<1>. QED
  BY <1>1, TypedInit, ListsInit, CountInit, WalkInit, KernelInit, EventsInit,
     LockInit, BufferInit DEF IInv

(* Every step keeps the invariant.                                         *)
LEMMA IInvStep == OneKindOfFault => (IInv /\ [Next]_vars => IInv')
<1> SUFFICES ASSUME OneKindOfFault, IInv, [Next]_vars PROVE IInv'
  OBVIOUS
<1>1. Typed' /\ NoAssertFails'
  BY TypedStep, AssertStep DEF IInv
<1>2. ListsInv' /\ CountInv' /\ WalkInv'
  BY ListsStep, CountStep, WalkStep DEF IInv
<1>3. KernelInv' /\ EventsInv'
  BY KernelStep, EventsStep DEF IInv
<1>4. LockInv' /\ BufferInv'
  BY LockStep, BufferStep DEF IInv
<1>. QED
  BY <1>1, <1>2, <1>3, <1>4 DEF IInv

(* The theorems below are for a worker whose epoll_ctl calls fail in at    *)
(* most one of the two ways, adding or deleting.                           *)
THEOREM Inductive == OneKindOfFault => (Spec => []IInv)
<1> SUFFICES ASSUME OneKindOfFault PROVE Spec => []IInv
  OBVIOUS
<1>1. Init => IInv
  BY IInvInit
<1>2. IInv /\ [Next]_vars => IInv'
  BY IInvStep
<1>. QED
  BY <1>1, <1>2, PTL DEF Spec

(* No assertion of the loop fails and no node is linked twice.             *)
THEOREM NoAssert == OneKindOfFault => (Spec => []NoAssertFails)
<1>1. IInv => NoAssertFails
  BY DEF IInv
<1>. QED
  BY <1>1, Inductive, PTL

(* Every slot is in exactly one list, and m_used counts the used ones.     *)
THEOREM NoSlotLeaks == OneKindOfFault => (Spec => []PoolPartition)
<1>1. IInv => PoolPartition
  BY DEF IInv, ListsInv, CountInv, PoolPartition
<1>. QED
  BY <1>1, Inductive, PTL

(* No descriptor leaks and no two connections share one.                   *)
THEOREM NoFdLeaks == OneKindOfFault => (Spec => []FdsOwned)
<1>1. IInv => FdsOwned
  BY DEF IInv, KernelInv
<1>. QED
  BY <1>1, Inductive, PTL

(* The kernel's interest list and the socket objects agree.                *)
THEOREM Registrations == OneKindOfFault => (Spec => []InterestExact)
<1>1. IInv => InterestExact
  BY DEF IInv, KernelInv
<1>. QED
  BY <1>1, Inductive, PTL

(* No event is posted to a socket it was not reported for.                 *)
THEOREM NoStaleEvent == OneKindOfFault => (Spec => []EventsFresh)
<1>1. IInv => EventsFresh
  BY DEF IInv, EventsInv, EventsFresh
<1>. QED
  BY <1>1, Inductive, PTL

(* No handler runs on a socket that was freed earlier in the same batch.   *)
THEOREM NoUseAfterFree == OneKindOfFault => (Spec => []PostedLive)
<1>1. IInv => PostedLive
  BY DEF IInv, WalkInv
<1>. QED
  BY <1>1, Inductive, PTL

(* There are never more connections than the cache has slots for them.     *)
LEMMA ConnectionsBounded ==
  ASSUME NEW C \in SUBSET (Slots \ Listeners)
  PROVE  /\ Cardinality(C) \in Nat
         /\ Cardinality(Slots) - NServers \in Int
         /\ Cardinality(C) <= Cardinality(Slots) - NServers
<1>1. /\ IsFiniteSet(Slots \ Listeners)
      /\ Cardinality(Slots \ Listeners) = Cardinality(Slots) - NServers
  <2>1. Slots \cap Listeners = Listeners
    BY ListenersType
  <2>. QED
    BY <2>1, ListenersCard, SlotsAssumption, FS_Difference
<1>2. Cardinality(C) <= Cardinality(Slots \ Listeners) /\ IsFiniteSet(C)
  BY <1>1, FS_Subset
<1>3. Cardinality(C) \in Nat /\ Cardinality(Slots) \in Nat
  BY <1>2, FS_CardinalityType, SlotsAssumption
<1>. QED
  BY <1>1, <1>2, <1>3, ServersAssumption

(* m_power counts the connections and is bounded by the cache.             *)
THEOREM PowerCorrect == OneKindOfFault => (Spec => []PowerAccounting)
<1>1. IInv => PowerAccounting
  <2>1. IInv => Connections \in SUBSET (Slots \ Listeners)
    BY DEF IInv, Typed, TypeOK, Connections
  <2>. QED
    BY <2>1, ConnectionsBounded, PowerType DEF IInv, CountInv, PowerAccounting
<1>. QED
  BY <1>1, Inductive, PTL

(* The listeners are watched only under the accept lock, if removing them  *)
(* cannot fail.                                                            *)
THEOREM ListenLocked ==
  "del" \notin CtlFaults => (Spec => []ListenOnlyLocked)
<1> SUFFICES ASSUME "del" \notin CtlFaults PROVE Spec => []ListenOnlyLocked
  OBVIOUS
<1>1. OneKindOfFault
  BY DEF OneKindOfFault
<1>2. IInv => ListenOnlyLocked
  BY DEF IInv, LockInv, ListenOnlyLocked
<1>. QED
  BY <1>1, <1>2, Inductive, PTL

(* Read buffers do not outlive their connection.                           *)
THEOREM BuffersFreed == OneKindOfFault => (Spec => []NoBufferLeak)
<1>1. IInv => NoBufferLeak
  BY DEF IInv, BufferInv, NoBufferLeak
<1>. QED
  BY <1>1, Inductive, PTL

(* A close that was asked for happens before the walk goes on, and the     *)
(* listeners stay open.                                                    *)
THEOREM ClosePrompt == OneKindOfFault => (Spec => []CloseIsPrompt)
<1>1. IInv => CloseIsPrompt
  BY DEF IInv, WalkInv
<1>. QED
  BY <1>1, Inductive, PTL

(* A step closes only the descriptor of the socket it frees.               *)
THEOREM ClosesOwn == OneKindOfFault => (Spec => ClosesOwnFd)
<1> DEFINE A == \A fd \in openFds \ openFds' :
                  \E s \in conns \ conns' : m_fd[s] = fd
<1>1. IInv /\ [Next]_vars => [A]_vars
  <2> SUFFICES ASSUME IInv, [Next]_vars PROVE [A]_vars
    OBVIOUS
  <2>1. CASE CloseConnection
    BY <2>1, ClosesConnection DEF IInv, CloseConnection, hixo_destroy_socket, Connections
  <2>2. CASE AcceptConnection
    BY <2>2 DEF AcceptConnection
  <2>3. CASE alloc_resource \/ AcceptFails \/ RegisterFails
    BY <2>3 DEF alloc_resource, AcceptFails, RegisterFails, kernVars
  <2>. QED
    BY <2>1, <2>2, <2>3, SlotSteps
<1>. QED
  BY <1>1, Inductive, PTL DEF Spec, ClosesOwnFd

-----------------------------------------------------------------------------
(* The cycle of WorkerCycle *)

(* Before and after every step the listeners are watched only where the    *)
(* lock is held, and the connections follow from m_power.                  *)
LEMMA CycleFacts ==
  ASSUME "del" \notin CtlFaults, IInv, IInv'
  PROVE  /\ \A e \in interest : e.ptr \in Listeners => pc \in {"wait", "clear"}
         /\ \A e \in interest' : e.ptr \in Listeners => pc' \in {"wait", "clear"}
         /\ Cardinality(Connections) \in Nat
         /\ Cardinality(Connections') \in Nat
         /\ Cardinality(Connections') <= Cardinality(Slots) - NServers
         /\ Cardinality(Slots) - NServers \in Int
         /\ m_power = InitialPower - Cardinality(Connections)
         /\ m_power' = InitialPower - Cardinality(Connections')
<1>1. /\ Connections \in SUBSET (Slots \ Listeners)
      /\ Connections' \in SUBSET (Slots \ Listeners)
  BY DEF IInv, Typed, TypeOK, Connections
<1>. QED
  BY <1>1, ConnectionsBounded DEF IInv, LockInv, CountInv

(* Every step of the worker is one of the cycle, or leaves it where it is. *)
LEMMA CycleStep ==
  ASSUME "del" \notin CtlFaults, IInv, IInv', [Next]_vars
  PROVE  [Cycle!Next]_(Cycle!vars)
<1>0. /\ \A e \in interest : e.ptr \in Listeners => pc \in {"wait", "clear"}
      /\ \A e \in interest' : e.ptr \in Listeners => pc' \in {"wait", "clear"}
      /\ Cardinality(Connections) \in Nat
      /\ Cardinality(Connections') \in Nat
      /\ Cardinality(Connections') <= Cardinality(Slots) - NServers
      /\ Cardinality(Slots) - NServers \in Int
      /\ m_power = InitialPower - Cardinality(Connections)
      /\ m_power' = InitialPower - Cardinality(Connections')
      /\ InitialPower \in Int
      /\ pc # "abort" /\ pc' # "abort"
      /\ m_hold_lock \in BOOLEAN
  BY CycleFacts, PowerType DEF IInv, Typed, TypeOK, NoAssertFails
<1>1. m_power' = m_power => UNCHANGED Cardinality(Connections)
  BY <1>0
<1> USE DEF Cycle!Goto, InHandlers
<1>2. CASE TryLock
  <2>1. UNCHANGED <<interest, m_power, Cardinality(Connections)>>
    BY <1>1, <1>2 DEF TryLock, kernVars
  <2>2. Cycle!TakeLock \/ Cycle!GoWithout
    BY <1>2, <2>1 DEF TryLock, Cycle!TakeLock, Cycle!GoWithout
  <2>. QED
    BY <2>2 DEF Cycle!Next
<1>3. CASE AddListeners
  <2>1. UNCHANGED <<m_hold_lock, m_power, Cardinality(Connections)>>
    BY <1>1, <1>3 DEF AddListeners
  <2>2. pc = "add" /\ pc' = "wait"
    BY <1>0, <1>3 DEF AddListeners
  <2>3. Cycle!Watch
    BY <2>1, <2>2 DEF Cycle!Watch
  <2>. QED
    BY <2>3 DEF Cycle!Next
<1>4. CASE EpollWait \/ EpollWaitFails
  <2>1. UNCHANGED <<interest, m_hold_lock, m_power, Cardinality(Connections)>>
    BY <1>1, <1>4 DEF EpollWait, EpollWaitFails, kernVars
  <2>2. pc = "wait" /\ pc' = IF m_hold_lock THEN "clear" ELSE "post"
    BY <1>0, <1>4 DEF EpollWait, EpollWaitFails
  <2>3. Cycle!Wait
    BY <2>1, <2>2 DEF Cycle!Wait
  <2>. QED
    BY <2>3 DEF Cycle!Next
<1>5. CASE ClearListeners
  <2>1. UNCHANGED <<m_hold_lock, m_power, Cardinality(Connections)>>
    BY <1>1, <1>5 DEF ClearListeners
  <2>2. pc = "clear" /\ pc' = "post"
    BY <1>5 DEF ClearListeners
  <2>3. Cycle!Unwatch
    BY <1>0, <2>1, <2>2 DEF Cycle!Unwatch
  <2>. QED
    BY <2>3 DEF Cycle!Next
<1>6. CASE PostEvents
  <2>1. UNCHANGED <<interest, m_power, Cardinality(Connections)>>
    BY <1>1, <1>6 DEF PostEvents, kernVars
  <2>2. pc = "post" /\ pc' \in {"loop", "stop"} /\ m_hold_lock' = FALSE
    BY <1>0, <1>6 DEF PostEvents
  <2>3. Cycle!Release \/ Cycle!Die
    BY <2>1, <2>2 DEF Cycle!Release, Cycle!Die
  <2>. QED
    BY <2>3 DEF Cycle!Next
<1>7. CASE NextPosted
  <2>1. UNCHANGED <<interest, m_hold_lock, m_power, Cardinality(Connections)>>
    BY <1>1, <1>7 DEF NextPosted, kernVars
  <2>2. pc = "loop" /\ pc' \in {"lock", "read"}
    BY <1>7 DEF NextPosted
  <2>3. Cycle!Again \/ UNCHANGED Cycle!vars
    BY <2>1, <2>2 DEF Cycle!Again, Cycle!vars
  <2>. QED
    BY <2>3 DEF Cycle!Next
<1>8. CASE \/ NotReadable \/ ReadListener \/ ReadEcho \/ ReadHttp
           \/ AllocFails \/ alloc_resource \/ AcceptFails \/ RegisterFails
           \/ KeepOpen \/ WriteAndUnlink
  <2> DEFINE Work == {"loop", "read", "alloc", "accept", "close", "write"}
  <2>1. /\ UNCHANGED <<interest, m_hold_lock, m_power>>
        /\ pc \in Work /\ pc' \in Work
    <3> USE DEF loopVars, kernVars
    <3>1. CASE NotReadable \/ ReadListener \/ ReadEcho \/ ReadHttp
      BY <3>1 DEF NotReadable, ReadListener, ReadEcho, ReadHttp
    <3>2. CASE AllocFails \/ alloc_resource \/ AcceptFails \/ RegisterFails
      BY <1>0, <3>2 DEF AllocFails, alloc_resource, AcceptFails, RegisterFails
    <3>3. CASE KeepOpen \/ WriteAndUnlink
      BY <1>0, <3>3 DEF KeepOpen, WriteAndUnlink
    <3>. QED
      BY <1>8, <3>1, <3>2, <3>3
  <2>. QED
    BY <1>1, <2>1 DEF Cycle!vars
<1>9. CASE AcceptConnection
  <2>1. /\ pc = "accept" /\ pc' = "alloc"
        /\ m_power' = m_power - 1 /\ UNCHANGED m_hold_lock
    BY <1>9 DEF AcceptConnection, loopVars
  <2>2. Cardinality(Connections') = Cardinality(Connections) + 1
    <3>1. InitialPower - Cardinality(Connections')
            = InitialPower - Cardinality(Connections) - 1
      BY <1>0, <2>1
    <3>. QED
      BY <1>0, <3>1
  <2>3. Cycle!AcceptOne
    BY <1>0, <2>1, <2>2 DEF Cycle!AcceptOne
  <2>. QED
    BY <2>3 DEF Cycle!Next
<1>10. CASE CloseConnection
  <2>1. /\ pc = "close" /\ pc' = "write"
        /\ m_power' = m_power + 1 /\ UNCHANGED m_hold_lock
    BY <1>0, <1>10 DEF CloseConnection, loopVars
  <2>2. Cardinality(Connections') = Cardinality(Connections) - 1
    BY <1>0, <2>1
  <2>3. Cycle!CloseOne
    BY <1>0, <2>1, <2>2 DEF Cycle!CloseOne
  <2>. QED
    BY <2>3 DEF Cycle!Next
<1>11. CASE Stopped \/ UNCHANGED vars
  BY <1>11 DEF Stopped, vars, loopVars, kernVars, Connections, Cycle!vars
<1>. QED
  BY <1>2, <1>3, <1>4, <1>5, <1>6, <1>7, <1>8, <1>9, <1>10, <1>11 DEF Next

(* The worker in detail goes through the cycle that module AcceptLock has  *)
(* of every worker, if removing the listeners from epoll cannot fail.      *)
THEOREM CycleImplemented ==
  "del" \notin CtlFaults => (Spec => ImplementsCycle)
<1> SUFFICES ASSUME "del" \notin CtlFaults PROVE Spec => ImplementsCycle
  OBVIOUS
<1>1. OneKindOfFault
  BY DEF OneKindOfFault
<1>2. Init => Cycle!Init
  <2> SUFFICES ASSUME Init PROVE Cycle!Init
    OBVIOUS
  <2>1. Connections = {}
    BY DEF Init, Connections
  <2>. QED
    BY <2>1, FS_EmptySet DEF Init, Cycle!Init, InHandlers
<1>3. IInv /\ IInv' /\ [Next]_vars => [Cycle!Next]_(Cycle!vars)
  BY CycleStep
<1>. QED
  BY <1>1, <1>2, <1>3, Inductive, PTL DEF Spec, ImplementsCycle, Cycle!Spec
=============================================================================
