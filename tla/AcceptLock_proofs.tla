------------------------- MODULE AcceptLock_proofs -------------------------
(* Theorems about AcceptLock, for every number of workers, listeners and   *)
(* connections, with any number of faults and crashes: a failing           *)
(* EPOLL_CTL_ADD or EPOLL_CTL_DEL of a listener included.                  *)
EXTENDS AcceptLock, TLAPS

(* The initial power is an integer.                                        *)
LEMMA PowerType == InitialPower \in Int
  BY ConstantsAssumption DEF InitialPower

(* The listeners that a loop over mpp_servers passed before it ended at    *)
(* the k-th are listeners, and so is the k-th, if it did not end at all.   *)
LEMMA Passed ==
  ASSUME NEW k \in 1..(NServers + 1)
  PROVE  /\ 1..(k - 1) \subseteq Listeners
         /\ k <= NServers => k \in Listeners
         /\ k = NServers + 1 => 1..(k - 1) = Listeners
  BY ConstantsAssumption DEF Listeners

(* The invariant holds initially.                                          *)
LEMMA IInvInit == Init => IInv
<1> SUFFICES ASSUME Init PROVE IInv
  OBVIOUS
<1>1. TypeOK
  BY PowerType, ConstantsAssumption DEF Init, TypeOK
<1>2. LockOwned /\ PlaceInv
  BY DEF Init, LockOwned, PlaceInv
<1>3. CountInv
  BY PowerType, ConstantsAssumption DEF Init, CountInv
<1>. QED
  BY <1>1, <1>2, <1>3 DEF IInv

(* Every step keeps the types.                                             *)
LEMMA TypeStep == IInv /\ [Next]_vars => TypeOK'
<1> DEFINE Goal == TypeOK
<1> SUFFICES ASSUME IInv, [Next]_vars PROVE Goal'
  OBVIOUS
<1> USE ConstantsAssumption DEF IInv, TypeOK, Goto, Fault, epoll, loop,
        count
<1>1. ASSUME NEW w \in Workers, spinlock_try(w) PROVE Goal'
  BY <1>1 DEF spinlock_try
<1>2. ASSUME NEW w \in Workers, NoLock(w) PROVE Goal'
  BY <1>2 DEF NoLock
<1>3. ASSUME NEW w \in Workers, AddListeners(w) PROVE Goal'
  <2>1. PICK k \in 1..(NServers + 1) : AddListeners(w)!(k)
    BY <1>3 DEF AddListeners
  <2>2. 1..(k - 1) \subseteq Listeners /\ (k <= NServers => k \in Listeners)
    BY Passed
  <2>3. tagged' \in [Workers -> SUBSET Listeners]
    BY <2>1, <2>2
  <2>4. reg' \in [Workers -> SUBSET Listeners]
    BY <2>1, <2>2
  <2>5. ready' \in [Workers -> SUBSET Listeners]
    BY <2>1, <2>2
  <2>6. faults' \in 0..MaxFaults
    BY <2>1
  <2>7. pc' \in [Workers -> {"lock", "add", "wait", "clear", "post", "loop",
                            "accept", "dead"}]
    BY <2>1
  <2>. QED
    BY <2>1, <2>3, <2>4, <2>5, <2>6, <2>7
<1>4. ASSUME NEW w \in Workers, EpollWait(w) PROVE Goal'
  <2>1. /\ got' \in [Workers -> SUBSET Listeners]
        /\ ready' \in [Workers -> SUBSET Listeners]
    BY <1>4 DEF EpollWait
  <2>2. closing' \in [Workers -> Nat] /\ faults' \in 0..MaxFaults
    BY <1>4 DEF EpollWait
  <2>3. pc' \in [Workers -> {"lock", "add", "wait", "clear", "post", "loop",
                            "accept", "dead"}]
    BY <1>4 DEF EpollWait
  <2>. QED
    BY <1>4, <2>1, <2>2, <2>3 DEF EpollWait
<1>5. ASSUME NEW w \in Workers, ClearListeners(w) PROVE Goal'
  <2>1. PICK k \in 1..(NServers + 1) : ClearListeners(w)!2!(k)
    BY <1>5 DEF ClearListeners
  <2>2. /\ tagged' \in [Workers -> SUBSET Listeners]
        /\ reg' \in [Workers -> SUBSET Listeners]
        /\ ready' \in [Workers -> SUBSET Listeners]
    BY <2>1
  <2>3. failed' \in [Workers -> BOOLEAN] /\ faults' \in 0..MaxFaults
    BY <2>1
  <2>. QED
    BY <1>5, <2>2, <2>3 DEF ClearListeners
<1>6. ASSUME NEW w \in Workers, spinlock_unlock(w) PROVE Goal'
  BY <1>6 DEF spinlock_unlock
<1>7. ASSUME NEW w \in Workers, CloseConnection(w) PROVE Goal'
  BY <1>7 DEF CloseConnection, CountInv
<1>8. ASSUME NEW w \in Workers, HandleListener(w) PROVE Goal'
  BY <1>8 DEF HandleListener
<1>9. ASSUME NEW w \in Workers, Again(w) PROVE Goal'
  BY <1>9 DEF Again
<1>10. ASSUME NEW w \in Workers, Accept(w) PROVE Goal'
  BY <1>10 DEF Accept, PlaceInv
<1>11. ASSUME NEW w \in Workers, AcceptEnds(w) PROVE Goal'
  BY <1>11 DEF AcceptEnds
<1>12. ASSUME NEW w \in Workers, Crash(w) PROVE Goal'
  BY <1>12 DEF Crash
<1>13. ASSUME NEW l \in Listeners, Arrive(l) PROVE Goal'
  BY <1>13 DEF Arrive
<1>14. CASE UNCHANGED vars
  BY <1>14 DEF vars
<1>. QED
  BY <1>1, <1>2, <1>3, <1>4, <1>5, <1>6, <1>7, <1>8, <1>9, <1>10, <1>11,
     <1>12, <1>13, <1>14 DEF Next, Step

(* Every step keeps the lock with the worker that spinlock_try gave it.    *)
LEMMA LockStep == IInv /\ [Next]_vars => LockOwned'
<1> DEFINE Goal == LockOwned
<1> SUFFICES ASSUME IInv, [Next]_vars PROVE Goal'
  OBVIOUS
<1> USE DEF IInv, TypeOK, LockOwned, PlaceInv, Goto, epoll, loop, count
<1>1. ASSUME NEW w \in Workers, spinlock_try(w) PROVE Goal'
  BY <1>1 DEF spinlock_try
<1>2. ASSUME NEW w \in Workers, NoLock(w) PROVE Goal'
  BY <1>2 DEF NoLock
<1>3. ASSUME NEW w \in Workers, AddListeners(w) PROVE Goal'
  BY <1>3 DEF AddListeners
<1>4. ASSUME NEW w \in Workers, EpollWait(w) PROVE Goal'
  BY <1>4 DEF EpollWait
<1>5. ASSUME NEW w \in Workers, ClearListeners(w) PROVE Goal'
  BY <1>5 DEF ClearListeners
<1>6. ASSUME NEW w \in Workers, spinlock_unlock(w) PROVE Goal'
  BY <1>6 DEF spinlock_unlock
<1>7. ASSUME NEW w \in Workers, CloseConnection(w) PROVE Goal'
  BY <1>7 DEF CloseConnection
<1>8. ASSUME NEW w \in Workers, HandleListener(w) PROVE Goal'
  BY <1>8 DEF HandleListener
<1>9. ASSUME NEW w \in Workers, Again(w) PROVE Goal'
  BY <1>9 DEF Again
<1>10. ASSUME NEW w \in Workers, Accept(w) PROVE Goal'
  BY <1>10 DEF Accept
<1>11. ASSUME NEW w \in Workers, AcceptEnds(w) PROVE Goal'
  BY <1>11 DEF AcceptEnds
<1>12. ASSUME NEW w \in Workers, Crash(w) PROVE Goal'
  BY <1>12 DEF Crash
<1>13. ASSUME NEW l \in Listeners, Arrive(l) PROVE Goal'
  BY <1>13 DEF Arrive
<1>14. CASE UNCHANGED vars
  BY <1>14 DEF vars
<1>. QED
  BY <1>1, <1>2, <1>3, <1>4, <1>5, <1>6, <1>7, <1>8, <1>9, <1>10, <1>11,
     <1>12, <1>13, <1>14 DEF Next, Step

(* Every step keeps what a worker's place in its cycle says of it.         *)
LEMMA PlaceStep == IInv /\ [Next]_vars => PlaceInv'
<1> DEFINE Goal == PlaceInv
<1> SUFFICES ASSUME IInv, [Next]_vars PROVE Goal'
  OBVIOUS
<1> USE DEF IInv, TypeOK, PlaceInv, Goto, epoll, loop, count
<1>1. ASSUME NEW w \in Workers, spinlock_try(w) PROVE Goal'
  BY <1>1 DEF spinlock_try
<1>2. ASSUME NEW w \in Workers, NoLock(w) PROVE Goal'
  BY <1>2 DEF NoLock
<1>3. ASSUME NEW w \in Workers, AddListeners(w) PROVE Goal'
  <2>1. PICK k \in 1..(NServers + 1) : AddListeners(w)!(k)
    BY <1>3 DEF AddListeners
  <2>2. hold[w] /\ hold' = hold /\ cur' = cur /\ failed' = failed
    BY <2>1
  <2>3. pc' = [pc EXCEPT ![w] = pc'[w]] /\ pc'[w] \in {"wait", "dead"}
    BY <2>1
  <2>4. \A v \in Workers \ {w} : reg'[v] = reg[v] /\ tagged'[v] = tagged[v]
    BY <2>1
  <2>5. tagged'[w] \cap reg'[w] = {}
    <3>1. CASE tagged[w] \cap (1..k) = {}
      <4>1. reg'[w] = reg[w] \cup 1..(k - 1)
        BY <2>1, <3>1
      <4>2. tagged'[w] = tagged[w] \/ (tagged'[w] = tagged[w] \cup {k}
                                      /\ k \notin reg[w])
        BY <2>1
      <4>3. \A i \in 1..(k - 1) : i \in 1..k /\ i # k
        BY <2>1, ConstantsAssumption
      <4>. QED
        BY <4>1, <4>2, <4>3, <3>1
    <3>2. CASE tagged[w] \cap (1..k) # {}
      BY <2>1, <3>2
    <3>. QED
      BY <3>1, <3>2
  <2>. QED
    BY <2>2, <2>3, <2>4, <2>5
<1>4. ASSUME NEW w \in Workers, EpollWait(w) PROVE Goal'
  BY <1>4 DEF EpollWait
<1>5. ASSUME NEW w \in Workers, ClearListeners(w) PROVE Goal'
  <2>1. PICK k \in 1..(NServers + 1) : ClearListeners(w)!2!(k)
    BY <1>5 DEF ClearListeners
  <2>2. hold' = hold /\ cur' = cur /\ hold[w] /\ pc' = [pc EXCEPT ![w] = "post"]
    BY <1>5 DEF ClearListeners
  <2>3. \A v \in Workers \ {w} : /\ reg'[v] = reg[v] /\ tagged'[v] = tagged[v]
                                /\ failed'[v] = failed[v]
    BY <2>1
  <2>4. reg'[w] \subseteq reg[w] /\ tagged'[w] \subseteq tagged[w]
    BY <2>1
  <2>5. reg'[w] # {} \/ tagged'[w] # {} => failed'[w]
    <3>1. CASE k = NServers + 1
      <4>1. 1..(k - 1) = Listeners
        BY <3>1, Passed
      <4>2. reg'[w] = reg[w] \ (Listeners \ tagged[w])
        BY <2>1, <4>1
      <4>3. tagged'[w] = tagged[w] \ Listeners
        BY <2>1, <4>1
      <4>. QED
        BY <4>2, <4>3
    <3>2. CASE k <= NServers
      BY <2>1, <3>2
    <3>3. k = NServers + 1 \/ k <= NServers
      BY ConstantsAssumption
    <3>. QED
      BY <3>1, <3>2, <3>3
  <2>. QED
    BY <2>2, <2>3, <2>4, <2>5
<1>6. ASSUME NEW w \in Workers, spinlock_unlock(w) PROVE Goal'
  BY <1>6 DEF spinlock_unlock
<1>7. ASSUME NEW w \in Workers, CloseConnection(w) PROVE Goal'
  BY <1>7 DEF CloseConnection
<1>8. ASSUME NEW w \in Workers, HandleListener(w) PROVE Goal'
  BY <1>8 DEF HandleListener
<1>9. ASSUME NEW w \in Workers, Again(w) PROVE Goal'
  BY <1>9 DEF Again
<1>10. ASSUME NEW w \in Workers, Accept(w) PROVE Goal'
  BY <1>10 DEF Accept
<1>11. ASSUME NEW w \in Workers, AcceptEnds(w) PROVE Goal'
  BY <1>11 DEF AcceptEnds
<1>12. ASSUME NEW w \in Workers, Crash(w) PROVE Goal'
  BY <1>12 DEF Crash
<1>13. ASSUME NEW l \in Listeners, Arrive(l) PROVE Goal'
  BY <1>13 DEF Arrive
<1>14. CASE UNCHANGED vars
  BY <1>14 DEF vars
<1>. QED
  BY <1>1, <1>2, <1>3, <1>4, <1>5, <1>6, <1>7, <1>8, <1>9, <1>10, <1>11,
     <1>12, <1>13, <1>14 DEF Next, Step

(* Every step keeps the count of connections exact.                        *)
LEMMA CountStep == IInv /\ [Next]_vars => CountInv'
<1> DEFINE Goal == CountInv
<1> SUFFICES ASSUME IInv, [Next]_vars PROVE Goal'
  OBVIOUS
<1> USE PowerType, ConstantsAssumption DEF IInv, TypeOK, CountInv, Goto,
        epoll, loop, count
<1>1. ASSUME NEW w \in Workers, spinlock_try(w) PROVE Goal'
  BY <1>1 DEF spinlock_try
<1>2. ASSUME NEW w \in Workers, NoLock(w) PROVE Goal'
  BY <1>2 DEF NoLock
<1>3. ASSUME NEW w \in Workers, AddListeners(w) PROVE Goal'
  BY <1>3 DEF AddListeners
<1>4. ASSUME NEW w \in Workers, EpollWait(w) PROVE Goal'
  BY <1>4 DEF EpollWait
<1>5. ASSUME NEW w \in Workers, ClearListeners(w) PROVE Goal'
  BY <1>5 DEF ClearListeners
<1>6. ASSUME NEW w \in Workers, spinlock_unlock(w) PROVE Goal'
  BY <1>6 DEF spinlock_unlock
<1>7. ASSUME NEW w \in Workers, CloseConnection(w) PROVE Goal'
  BY <1>7 DEF CloseConnection
<1>8. ASSUME NEW w \in Workers, HandleListener(w) PROVE Goal'
  BY <1>8 DEF HandleListener
<1>9. ASSUME NEW w \in Workers, Again(w) PROVE Goal'
  BY <1>9 DEF Again
<1>10. ASSUME NEW w \in Workers, Accept(w) PROVE Goal'
  BY <1>10 DEF Accept
<1>11. ASSUME NEW w \in Workers, AcceptEnds(w) PROVE Goal'
  BY <1>11 DEF AcceptEnds
<1>12. ASSUME NEW w \in Workers, Crash(w) PROVE Goal'
  BY <1>12 DEF Crash
<1>13. ASSUME NEW l \in Listeners, Arrive(l) PROVE Goal'
  BY <1>13 DEF Arrive
<1>14. CASE UNCHANGED vars
  BY <1>14 DEF vars
<1>. QED
  BY <1>1, <1>2, <1>3, <1>4, <1>5, <1>6, <1>7, <1>8, <1>9, <1>10, <1>11,
     <1>12, <1>13, <1>14 DEF Next, Step

(* The invariant holds in every reachable state: the lock word names the   *)
(* only worker between spinlock_try and unlock, and every worker's power   *)
(* agrees with its connections.                                            *)
THEOREM Inductive == Spec => []IInv
<1>1. Init => IInv
  BY IInvInit
<1>2. IInv /\ [Next]_vars => IInv'
  BY TypeStep, LockStep, PlaceStep, CountStep DEF IInv
<1>. QED
  BY <1>1, <1>2, PTL DEF Spec

(* Types, in every reachable state.                                        *)
THEOREM TypeCorrect == Spec => []TypeOK
<1>1. IInv => TypeOK
  BY DEF IInv
<1>. QED
  BY <1>1, Inductive, PTL

(* The lock word is set exactly while one worker, dead or alive, has it.   *)
THEOREM LockCorrect == Spec => []LockOwned
<1>1. IInv => LockOwned
  BY DEF IInv
<1>. QED
  BY <1>1, Inductive, PTL

(* Only the worker with the lock watches the listeners, and no two do at   *)
(* the same time, but for those whose last EPOLL_CTL_DEL loop failed.      *)
THEOREM Exclusive == Spec => []ListenExclusive
<1>1. IInv => ListenExclusive
  BY DEF IInv, LockOwned, PlaceInv, ListenExclusive
<1>. QED
  BY <1>1, Inductive, PTL

(* An entry is tagged when the loop that adds the listeners begins only if *)
(* the last loop that removed them failed: without that the assertion on   *)
(* the low bit holds, however many EPOLL_CTL_ADDs fail.                    *)
THEOREM TagsCorrect == Spec => []TagsDropped
<1>1. IInv => TagsDropped
  BY DEF IInv, PlaceInv, TagsDropped
<1>. QED
  BY <1>1, Inductive, PTL

(* Every worker's m_power counts its connections, within the cache.        *)
THEOREM PowerCorrect == Spec => []PowerAccounting
<1>1. IInv => PowerAccounting
  BY PowerType, ConstantsAssumption
  DEF IInv, TypeOK, CountInv, PowerAccounting, Alive
<1>. QED
  BY <1>1, Inductive, PTL

-----------------------------------------------------------------------------
(* The cycle of WorkerCycle *)

(* A step of worker w is a step of its own cycle.                          *)
LEMMA OwnStep ==
  ASSUME IInv, NEW w \in Workers, Step(w) \/ Crash(w)
  PROVE  [Cycle(w)!Next]_(Cycle(w)!vars)
<1> USE PowerType, ConstantsAssumption DEF IInv, TypeOK, Goto, Cycle!Goto,
        epoll, loop, count
<1>1. CASE spinlock_try(w)
  <2>1. Cycle(w)!TakeLock
    BY <1>1 DEF spinlock_try, Cycle!TakeLock
  <2>. QED
    BY <2>1 DEF Cycle!Next
<1>2. CASE NoLock(w)
  <2>1. Cycle(w)!GoWithout
    BY <1>2 DEF NoLock, Cycle!GoWithout
  <2>. QED
    BY <2>1 DEF Cycle!Next
<1>3. CASE AddListeners(w)
  <2>1. PICK k \in 1..(NServers + 1) : AddListeners(w)!(k)
    BY <1>3 DEF AddListeners
  <2>2. /\ pc[w] = "add" /\ pc'[w] \in {"wait", "dead"}
        /\ pc'[w] = "dead" => reg'[w] = {}
        /\ hold'[w] = hold[w] /\ failed'[w] = failed[w]
        /\ conn'[w] = conn[w] /\ power'[w] = power[w]
    BY <2>1
  <2>3. CASE pc'[w] = "wait"
    BY <2>2, <2>3 DEF Cycle!Watch, Cycle!Next
  <2>4. CASE pc'[w] = "dead"
    BY <2>2, <2>4 DEF Cycle!Die, Cycle!Next
  <2>. QED
    BY <2>2, <2>3, <2>4
<1>4. CASE EpollWait(w)
  <2>1. Cycle(w)!Wait
    BY <1>4 DEF EpollWait, Cycle!Wait
  <2>. QED
    BY <2>1 DEF Cycle!Next
<1>5. CASE ClearListeners(w)
  <2>1. PICK k \in 1..(NServers + 1) : ClearListeners(w)!2!(k)
    BY <1>5 DEF ClearListeners
  <2>2. reg'[w] \subseteq reg[w] /\ failed'[w] = (k <= NServers)
    BY <2>1
  <2>3. k = NServers + 1 => reg'[w] = {}
    <3>1. k = NServers + 1 => reg'[w] = reg[w] \ (Listeners \ tagged[w])
      BY <2>1, Passed
    <3>. QED
      BY <3>1 DEF PlaceInv
  <2>4. failed'[w] \in BOOLEAN /\ (reg'[w] # {} => reg[w] # {} /\ failed'[w])
    <3>1. k = NServers + 1 \/ k <= NServers
      OBVIOUS
    <3>2. CASE k <= NServers
      BY <2>2, <3>2
    <3>3. CASE k = NServers + 1
      BY <2>2, <2>3, <3>3
    <3>. QED
      BY <3>1, <3>2, <3>3
  <2>5. /\ Cycle(w)!Goto("clear", "post")
        /\ UNCHANGED <<hold[w], conn[w], power[w]>>
    BY <1>5 DEF ClearListeners
  <2>6. Cycle(w)!Unwatch
    BY <2>4, <2>5, Zenon DEF Cycle!Unwatch
  <2>. QED
    BY <2>6 DEF Cycle!Next
<1>6. CASE spinlock_unlock(w)
  <2>1. Cycle(w)!Release
    BY <1>6 DEF spinlock_unlock, Cycle!Release
  <2>. QED
    BY <2>1 DEF Cycle!Next
<1>7. CASE CloseConnection(w)
  <2>1. Cycle(w)!CloseOne
    BY <1>7 DEF CloseConnection, Cycle!CloseOne, CountInv
  <2>. QED
    BY <2>1 DEF Cycle!Next
<1>8. CASE HandleListener(w) \/ AcceptEnds(w)
  BY <1>8 DEF HandleListener, AcceptEnds, Cycle!vars
<1>9. CASE Again(w)
  <2>1. Cycle(w)!Again
    BY <1>9 DEF Again, Cycle!Again
  <2>. QED
    BY <2>1 DEF Cycle!Next
<1>10. CASE Accept(w)
  <2>1. Cycle(w)!AcceptOne \/ UNCHANGED Cycle(w)!vars
    BY <1>10 DEF Accept, Cycle!AcceptOne, Cycle!vars
  <2>. QED
    BY <2>1 DEF Cycle!Next
<1>11. CASE Crash(w)
  <2>1. Cycle(w)!Die
    BY <1>11 DEF Crash, Cycle!Die
  <2>. QED
    BY <2>1 DEF Cycle!Next
<1>. QED
  BY <1>1, <1>2, <1>3, <1>4, <1>5, <1>6, <1>7, <1>8, <1>9, <1>10, <1>11
  DEF Step

(* A step of worker v leaves every other worker's cycle where it is.       *)
LEMMA OthersStep ==
  ASSUME IInv, NEW v \in Workers, NEW w \in Workers, v # w,
         Step(v) \/ Crash(v)
  PROVE  UNCHANGED Cycle(w)!vars
<1> USE DEF IInv, TypeOK, Goto, Cycle!vars, epoll, loop, count
<1>1. CASE spinlock_try(v) \/ NoLock(v)
  BY <1>1 DEF spinlock_try, NoLock
<1>2. CASE AddListeners(v)
  <2>1. PICK k \in 1..(NServers + 1) : AddListeners(v)!(k)
    BY <1>2 DEF AddListeners
  <2>. QED
    BY <2>1
<1>3. CASE EpollWait(v) \/ ClearListeners(v)
  BY <1>3 DEF EpollWait, ClearListeners
<1>4. CASE spinlock_unlock(v) \/ CloseConnection(v)
  BY <1>4 DEF spinlock_unlock, CloseConnection
<1>5. CASE HandleListener(v) \/ AcceptEnds(v) \/ Again(v)
  BY <1>5 DEF HandleListener, AcceptEnds, Again
<1>6. CASE Accept(v)
  BY <1>6 DEF Accept
<1>7. CASE Crash(v)
  BY <1>7 DEF Crash
<1>. QED
  BY <1>1, <1>2, <1>3, <1>4, <1>5, <1>6, <1>7 DEF Step

(* Every worker of every configuration goes through the cycle of           *)
(* WorkerCycle: lock with power, watch, stop watching (or fail to), release *)
(* and only then accept and close, whatever the other workers do and       *)
(* wherever one of them dies.                                              *)
THEOREM CycleImplemented == Spec => ImplementsCycle
<1>1. Init => \A w \in Workers : Cycle(w)!Init
  BY DEF Init, Cycle!Init
<1>2. IInv /\ [Next]_vars
        => [\A w \in Workers : [Cycle(w)!Next]_(Cycle(w)!vars)]_vars
  <2> SUFFICES ASSUME IInv, Next, NEW w \in Workers
               PROVE  [Cycle(w)!Next]_(Cycle(w)!vars)
    OBVIOUS
  <2>1. ASSUME NEW v \in Workers, Step(v) \/ Crash(v)
        PROVE  [Cycle(w)!Next]_(Cycle(w)!vars)
    <3>1. CASE v = w
      BY <2>1, <3>1, OwnStep
    <3>2. CASE v # w
      BY <2>1, <3>2, OthersStep
    <3>. QED
      BY <3>1, <3>2
  <2>2. ASSUME NEW l \in Listeners, Arrive(l)
        PROVE  [Cycle(w)!Next]_(Cycle(w)!vars)
    BY <2>2 DEF Arrive, Cycle!vars, loop, count
  <2>. QED
    BY <2>1, <2>2 DEF Next
<1>. QED
  BY <1>1, <1>2, Inductive, PTL DEF Spec, ImplementsCycle
=============================================================================
