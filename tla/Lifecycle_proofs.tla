------------------------- MODULE Lifecycle_proofs -------------------------
(* Theorems about Lifecycle, for every number of workers and servers, any  *)
(* number of failing calls and any number of killed processes.             *)
EXTENDS Lifecycle, TLAPS

(* The invariant holds initially.                                          *)
LEMMA IInvInit == Init => IInv
<1> SUFFICES ASSUME Init PROVE IInv
  OBVIOUS
<1> USE ConstantsAssumption DEF Init, Procs, Master, Starting, Working,
        Finished
<1>1. TypeOK
  <2>1. AppsType
    BY DEF AppsType
  <2>. QED
    BY <2>1 DEF TypeOK, Resources
<1>2. ChainInv
  BY DEF ChainInv
<1>3. HasInv /\ ListenInv
  BY DEF HasInv, HasAt, ListenInv
<1>4. SegInv /\ AppsInv
  BY DEF SegInv, AppsInv
<1>. QED
  BY <1>1, <1>2, <1>3, <1>4 DEF IInv

(* Every step keeps the types.                                             *)
LEMMA TypeStep == IInv /\ [Next]_vars => TypeOK'
<1> DEFINE Goal == TypeOK
<1> SUFFICES ASSUME IInv, [Next]_vars PROVE Goal'
  OBVIOUS
<1>0. AppsType'
  <2>1. AppsType
    BY DEF IInv, TypeOK
  <2>2. CASE apps' = apps
    BY <2>1, <2>2 DEF AppsType
  <2>3. ASSUME NEW p \in Procs, hixo_spawn_workers(p) PROVE AppsType'
    <3>1. apps' = [apps EXCEPT ![p + 1] = apps[p]]
      BY <2>3 DEF hixo_spawn_workers
    <3>. QED
      BY <2>1, <3>1 DEF AppsType
  <2>4. ASSUME NEW p \in Procs, event_core_init_worker(p) PROVE AppsType'
    <3>1. AppList \in Seq(1..NApplications)
      <4>1. AppList \in [1..NApplications -> 1..NApplications]
        BY ConstantsAssumption DEF AppList
      <4>. QED
        BY <4>1, ConstantsAssumption
    <3>2. AppList \o apps[p] \in Seq(1..NApplications)
      BY <2>1, <3>1 DEF AppsType
    <3>3. \/ apps' = [apps EXCEPT ![p] = AppList \o apps[p]]
          \/ apps' = [apps EXCEPT ![p] = apps[p]]
      BY <2>4 DEF event_core_init_worker
    <3>. QED
      BY <2>1, <3>2, <3>3 DEF AppsType
  <2>. QED
    BY <2>2, <2>3, <2>4 DEF Next, Step, main_core_init, event_core_init_master,
       InitMasterFails, fall_into_daemon, ForkFails, master_main, ExitModules,
       Return, Gone, AssertFails, ShmatFails, epoll_init, EpollInitFails,
       InitApps, ExitWorker, LoopFails, Kill, Running, Stopped, private, vars
<1> USE ConstantsAssumption DEF Procs, Master, Starting, Working, Finished,
        Goto, Fault, IInv, TypeOK, Resources
<1>1. ASSUME NEW p \in Procs, main_core_init(p) PROVE Goal'
  BY <1>0, <1>1, SMTT(20) DEF main_core_init, Acquire
<1>2. ASSUME NEW p \in Procs, event_core_init_master(p) PROVE Goal'
  BY <1>0, <1>2 DEF event_core_init_master, Acquire, event_core_create_listeners
<1>3. ASSUME NEW p \in Procs, InitMasterFails(p) PROVE Goal'
  <2>1. has' \in [Procs -> SUBSET Resources]
    BY <1>3, SMTT(20) DEF InitMasterFails, Acquire
  <2>2. shm' \in {"none", "live", "marked"}
    BY <1>3 DEF InitMasterFails, Acquire
  <2>. QED
    BY <1>0, <1>3, <2>1, <2>2, SMTT(20) DEF InitMasterFails
<1>4. ASSUME NEW p \in Procs, fall_into_daemon(p) PROVE Goal'
  <2>1. has' \in [Procs -> SUBSET Resources]
    BY <1>4 DEF fall_into_daemon
  <2>2. pc' \in [Procs -> {"unborn", "master", "exit", "end"} \cup Starting
                        \cup Working \cup Finished]
    BY <1>4, SMTT(20) DEF fall_into_daemon
  <2>3. faults' \in 0..MaxFaults
    BY <1>4 DEF fall_into_daemon
  <2>. QED
    BY <1>0, <1>4, <2>1, <2>2, <2>3 DEF fall_into_daemon
<1>5. ASSUME NEW p \in Procs, hixo_spawn_workers(p) PROVE Goal'
  <2>1. p \in -1..(MaxPss - 1) /\ ps[p] \in -1..(MaxPss - 1)
    BY <1>5, SMTT(20) DEF hixo_spawn_workers
  <2>2. p % NCpus \in 0..(NCpus - 1)
    OBVIOUS
  <2>3. pc' \in [Procs -> {"unborn", "master", "exit", "end"} \cup Starting
                        \cup Working \cup Finished]
    BY <1>5 DEF hixo_spawn_workers
  <2>4. has' \in [Procs -> SUBSET Resources] /\ up' \in [Procs -> 0..2]
    BY <1>5 DEF hixo_spawn_workers
  <2>5. ps' \in [Procs -> -1..(MaxPss - 1)]
    BY <1>5, <2>1 DEF hixo_spawn_workers, inherited
  <2>6. cpu' \in [Procs -> -1..(NCpus - 1)]
    BY <1>5, <2>2, SMTT(20) DEF hixo_spawn_workers, cpuid
  <2>7. masked' \in [Procs -> BOOLEAN]
    BY <1>5 DEF hixo_spawn_workers
  <2>. QED
    BY <1>0, <1>5, <2>3, <2>4, <2>5, <2>6, <2>7 DEF hixo_spawn_workers
<1>6. ASSUME NEW p \in Procs, ForkFails(p) PROVE Goal'
  BY <1>0, <1>6 DEF ForkFails
<1>7. ASSUME NEW p \in Procs, master_main(p) PROVE Goal'
  BY <1>0, <1>7 DEF master_main, private
<1>8. ASSUME NEW p \in Procs, ExitModules(p) PROVE Goal'
  <2>1. has' = [has EXCEPT ![p] = has'[p]] /\ has'[p] \subseteq has[p]
    BY <1>8 DEF ExitModules, event_core_exit_master, ToExit
  <2>2. has' \in [Procs -> SUBSET Resources]
    BY <2>1
  <2>3. PICK x \in {"end", "corrupt"} : pc' = [pc EXCEPT ![p] = x]
    BY <1>8 DEF ExitModules, event_core_exit_master, ToExit
  <2>4. shm' \in {"none", "live", "marked"}
    BY <1>8 DEF ExitModules, event_core_exit_master, ToExit
  <2>. QED
    BY <1>0, <1>8, <2>2, <2>3, <2>4 DEF ExitModules
<1>9. ASSUME NEW p \in Procs, Return(p) PROVE Goal'
  BY <1>0, <1>9 DEF Return, Gone
<1>10. ASSUME NEW p \in Procs, AssertFails(p) PROVE Goal'
  BY <1>0, <1>10 DEF AssertFails, Gone
<1>11. ASSUME NEW p \in Procs, event_core_init_worker(p) PROVE Goal'
  BY <1>0, <1>11 DEF event_core_init_worker, Acquire, EvTimer
<1>12. ASSUME NEW p \in Procs, ShmatFails(p) PROVE Goal'
  BY <1>0, <1>12, SMTT(20) DEF ShmatFails, EvTimer
<1>13. ASSUME NEW p \in Procs, epoll_init(p) PROVE Goal'
  BY <1>0, <1>13 DEF epoll_init, Acquire
<1>14. ASSUME NEW p \in Procs, EpollInitFails(p) PROVE Goal'
  BY <1>0, <1>14 DEF EpollInitFails, private
<1>15. ASSUME NEW p \in Procs, InitApps(p) PROVE Goal'
  BY <1>0, <1>15 DEF InitApps, htons_ports
<1>16. ASSUME NEW p \in Procs, ExitWorker(p) PROVE Goal'
  BY <1>0, <1>16 DEF ExitWorker, event_core_exit_master
<1>17. ASSUME NEW p \in Procs, LoopFails(p) PROVE Goal'
  BY <1>0, <1>17 DEF LoopFails, private
<1>18. ASSUME NEW p \in Procs, Kill(p) PROVE Goal'
  BY <1>0, <1>18, SMTT(20) DEF Kill, Gone
<1>19. CASE UNCHANGED vars
  BY <1>0, <1>19 DEF vars
<1>. QED
  BY <1>1, <1>2, <1>3, <1>4, <1>5, <1>6, <1>7, <1>8, <1>9,
     <1>10, <1>11, <1>12, <1>13, <1>14, <1>15, <1>16, <1>17, <1>18, <1>19
  DEF Next, Step, Running, Stopped

(* Every step keeps the order in which the processes are forked.           *)
LEMMA ChainStep == IInv /\ [Next]_vars => ChainInv'
<1> DEFINE Goal == ChainInv
<1> SUFFICES ASSUME IInv, [Next]_vars PROVE Goal'
  OBVIOUS
<1> USE ConstantsAssumption DEF Procs, Master, Starting, Working, Finished,
        Goto, Fault, IInv, TypeOK, ChainInv
<1>1. ASSUME NEW p \in Procs, main_core_init(p) PROVE Goal'
  BY <1>1 DEF main_core_init, Acquire
<1>2. ASSUME NEW p \in Procs, event_core_init_master(p) PROVE Goal'
  BY <1>2 DEF event_core_init_master, Acquire, event_core_create_listeners
<1>3. ASSUME NEW p \in Procs, InitMasterFails(p) PROVE Goal'
  BY <1>3 DEF InitMasterFails, Acquire
<1>4. ASSUME NEW p \in Procs, fall_into_daemon(p) PROVE Goal'
  BY <1>4 DEF fall_into_daemon
<1>5. ASSUME NEW p \in Procs, hixo_spawn_workers(p) PROVE Goal'
  <2>1. /\ pc[p] = "spawn"
        /\ pc' = [pc EXCEPT ![p] = "core",
                        ![p + 1] = IF p + 1 = Master THEN "master" ELSE "spawn"]
        /\ ps' = [ps EXCEPT ![p] = p, ![p + 1] = ps[p]]
    BY <1>5 DEF hixo_spawn_workers, inherited
  <2>2. cpu' = [cpu EXCEPT ![p] = p % NCpus] /\ p % NCpus # -1
    <3>1. p % NCpus \in 0..(NCpus - 1)
      OBVIOUS
    <3>2. cpu' = [cpu EXCEPT ![p] = p % NCpus]
      BY <1>5 DEF hixo_spawn_workers, cpuid
    <3>. QED
      BY <3>1, <3>2
  <2>3. /\ p # Master /\ p + 1 \in Procs /\ p + 1 # p
        /\ \A q \in Procs : q > p => pc[q] = "unborn"
    BY <2>1
  <2>4. /\ pc'[p] = "core" /\ ps'[p] = p /\ cpu'[p] # -1 /\ ps'[p + 1] = -1
        /\ pc'[p + 1] = IF p + 1 = Master THEN "master" ELSE "spawn"
    BY <2>1, <2>2, <2>3
  <2>5. \A q \in Procs : q # p /\ q # p + 1 =>
          pc'[q] = pc[q] /\ ps'[q] = ps[q] /\ cpu'[q] = cpu[q]
    BY <2>1, <2>2
  <2>6. p \in Nat /\ p < NWorkers /\ p + 1 \in Nat
    BY <2>3
  <2>7. ASSUME NEW q \in Procs, pc'[q] \in Starting
        PROVE  /\ q # Master /\ \A x \in Procs : x > q => pc'[x] = "unborn"
               /\ pc'[q] \in {"main", "event", "daemon"} => q = 0
    <3>1. CASE q = p + 1
      BY <2>3, <2>4, <2>5, <2>6, <2>7, <3>1
    <3>2. CASE q # p /\ q # p + 1
      BY <2>1, <2>3, <2>5, <2>6, <2>7, <3>2
    <3>. QED
      BY <2>4, <2>7, <3>1, <3>2
  <2>8. ASSUME NEW q \in Procs
        PROVE  /\ pc'[q] \in Starting \cup {"unborn", "master"} => ps'[q] = -1
               /\ pc'[q] \in Working =>
                    q # Master /\ ps'[q] = q /\ cpu'[q] # -1
    <3>1. CASE q = p + 1
      BY <2>3, <2>4, <3>1
    <3>2. CASE q # p /\ q # p + 1
      BY <2>5, <3>2
    <3>. QED
      BY <2>3, <2>4, <3>1, <3>2
  <2>. QED
    BY <2>7, <2>8
<1>6. ASSUME NEW p \in Procs, ForkFails(p) PROVE Goal'
  BY <1>6 DEF ForkFails
<1>7. ASSUME NEW p \in Procs, master_main(p) PROVE Goal'
  BY <1>7 DEF master_main, private
<1>8. ASSUME NEW p \in Procs, ExitModules(p) PROVE Goal'
  <2>1. PICK x \in {"end", "corrupt"} : pc' = [pc EXCEPT ![p] = x]
    BY <1>8 DEF ExitModules, event_core_exit_master, ToExit
  <2>. QED
    BY <1>8, <2>1, SMTT(20) DEF ExitModules
<1>9. ASSUME NEW p \in Procs, Return(p) PROVE Goal'
  BY <1>9 DEF Return, Gone
<1>10. ASSUME NEW p \in Procs, AssertFails(p) PROVE Goal'
  BY <1>10 DEF AssertFails, Gone
<1>11. ASSUME NEW p \in Procs, event_core_init_worker(p) PROVE Goal'
  BY <1>11, SMTT(20) DEF event_core_init_worker, Acquire
<1>12. ASSUME NEW p \in Procs, ShmatFails(p) PROVE Goal'
  BY <1>12 DEF ShmatFails
<1>13. ASSUME NEW p \in Procs, epoll_init(p) PROVE Goal'
  BY <1>13 DEF epoll_init, Acquire
<1>14. ASSUME NEW p \in Procs, EpollInitFails(p) PROVE Goal'
  BY <1>14 DEF EpollInitFails, private
<1>15. ASSUME NEW p \in Procs, InitApps(p) PROVE Goal'
  BY <1>15 DEF InitApps, htons_ports
<1>16. ASSUME NEW p \in Procs, ExitWorker(p) PROVE Goal'
  BY <1>16 DEF ExitWorker, event_core_exit_master
<1>17. ASSUME NEW p \in Procs, LoopFails(p) PROVE Goal'
  BY <1>17 DEF LoopFails, private
<1>18. ASSUME NEW p \in Procs, Kill(p) PROVE Goal'
  BY <1>18 DEF Kill, Gone
<1>19. CASE UNCHANGED vars
  BY <1>19 DEF vars
<1>. QED
  BY <1>1, <1>2, <1>3, <1>4, <1>5, <1>6, <1>7, <1>8, <1>9,
     <1>10, <1>11, <1>12, <1>13, <1>14, <1>15, <1>16, <1>17, <1>18, <1>19
  DEF Next, Step, Running, Stopped

(* What a process has depends on its place and on nothing of others.       *)
LEMMA HasFrame ==
  ASSUME NEW q \in Procs, HasAt(q),
         pc'[q] = pc[q], has'[q] = has[q], up'[q] = up[q]
  PROVE  HasAt(q)'
  BY DEF HasAt

(* Every step keeps what a process has at each place.                      *)
LEMMA HasStep == IInv /\ [Next]_vars => HasInv'
<1> DEFINE Goal == HasInv
<1> SUFFICES ASSUME IInv, [Next]_vars PROVE Goal'
  OBVIOUS
<1> USE ConstantsAssumption DEF Procs, Master, Starting, Working, Finished,
        Goto, IInv, TypeOK, HasInv
<1>1. ASSUME NEW p \in Procs, main_core_init(p) PROVE Goal'
  <2>1. \A q \in Procs : q # p =>
          pc'[q] = pc[q] /\ has'[q] = has[q] /\ up'[q] = up[q]
    BY <1>1 DEF main_core_init, Acquire
  <2>2. HasAt(p)'
    BY <1>1 DEF main_core_init, Acquire, HasAt, Base
  <2>. QED
    BY <2>1, <2>2, HasFrame
<1>2. ASSUME NEW p \in Procs, event_core_init_master(p) PROVE Goal'
  <2>1. \A q \in Procs : q # p =>
          pc'[q] = pc[q] /\ has'[q] = has[q] /\ up'[q] = up[q]
    BY <1>2 DEF event_core_init_master, Acquire, event_core_create_listeners
  <2>2. HasAt(p)'
        BY <1>2 DEF event_core_init_master, Acquire,
         event_core_create_listeners, HasAt, Base
  <2>. QED
    BY <2>1, <2>2, HasFrame
<1>3. ASSUME NEW p \in Procs, InitMasterFails(p) PROVE Goal'
  <2>1. \A q \in Procs : q # p =>
          pc'[q] = pc[q] /\ has'[q] = has[q] /\ up'[q] = up[q]
    BY <1>3 DEF InitMasterFails, Acquire
  <2>2. HasAt(p)'
    <3>1. CASE UNCHANGED <<has, shm>>
      BY <1>3, <3>1 DEF InitMasterFails, Acquire, HasAt, Base
    <3>2. CASE has' = [has EXCEPT ![p] = @ \cup {"shmid"}]
      BY <1>3, <3>2 DEF InitMasterFails, Acquire, HasAt, Base
    <3>. QED
      BY <1>3, <3>1, <3>2 DEF InitMasterFails, Acquire
  <2>. QED
    BY <2>1, <2>2, HasFrame
<1>4. ASSUME NEW p \in Procs, fall_into_daemon(p) PROVE Goal'
  <2>1. \A q \in Procs : q # p =>
          pc'[q] = pc[q] /\ has'[q] = has[q] /\ up'[q] = up[q]
    BY <1>4 DEF fall_into_daemon
  <2>2. HasAt(p)'
    <3>1. CASE pc' = [pc EXCEPT ![p] = "spawn"] /\ UNCHANGED has
      BY <1>4, <3>1 DEF fall_into_daemon, HasAt, Base
    <3>2. CASE pc' = [pc EXCEPT ![p] = "quit"] /\ has' = [has EXCEPT ![p] = {}]
      BY <1>4, <3>2 DEF fall_into_daemon, HasAt, Base
    <3>. QED
      BY <1>4, <3>1, <3>2 DEF fall_into_daemon
  <2>. QED
    BY <2>1, <2>2, HasFrame
<1>5. ASSUME NEW p \in Procs, hixo_spawn_workers(p) PROVE Goal'
  <2>1. p # Master /\ p + 1 \in Procs /\ p + 1 # p
    BY <1>5, SMTT(20) DEF hixo_spawn_workers, ChainInv
  <2>2. \A q \in Procs : q # p /\ q # p + 1 =>
          pc'[q] = pc[q] /\ has'[q] = has[q] /\ up'[q] = up[q]
    BY <1>5, <2>1 DEF hixo_spawn_workers
  <2>3. has[p] \ Servers = Base /\ up[p] = 2
    BY <1>5 DEF hixo_spawn_workers, HasAt
  <2>4. /\ pc'[p] = "core" /\ has'[p] = has[p] /\ up'[p] = 2
        /\ pc'[p + 1] \in {"master", "spawn"} /\ has'[p + 1] = has[p]
        /\ up'[p + 1] = 2
    BY <1>5, <2>1, <2>3 DEF hixo_spawn_workers
  <2>5. HasAt(p)' /\ HasAt(p + 1)'
    BY <2>3, <2>4 DEF HasAt, Base
  <2>. QED
    BY <2>2, <2>5, HasFrame
<1>6. ASSUME NEW p \in Procs, ForkFails(p) PROVE Goal'
  <2>1. \A q \in Procs : q # p =>
          pc'[q] = pc[q] /\ has'[q] = has[q] /\ up'[q] = up[q]
    BY <1>6 DEF ForkFails
  <2>2. HasAt(p)'
    BY <1>6 DEF ForkFails, HasAt, Base
  <2>. QED
    BY <2>1, <2>2, HasFrame
<1>7. ASSUME NEW p \in Procs, master_main(p) PROVE Goal'
  <2>1. \A q \in Procs : q # p =>
          pc'[q] = pc[q] /\ has'[q] = has[q] /\ up'[q] = up[q]
    BY <1>7 DEF master_main, private
  <2>2. HasAt(p)'
    BY <1>7 DEF master_main, private, HasAt, Base
  <2>. QED
    BY <2>1, <2>2, HasFrame
<1>8. ASSUME NEW p \in Procs, ExitModules(p) PROVE Goal'
  <2>1. \A q \in Procs : q # p =>
          pc'[q] = pc[q] /\ has'[q] = has[q] /\ up'[q] = up[q]
    BY <1>8 DEF ExitModules, event_core_exit_master, ToExit
  <2>2. HasAt(p)'
    <3>1. CASE up[p] = 2
            BY <1>8, <3>1 DEF ExitModules, event_core_exit_master, ToExit,
           HasAt, Base
    <3>2. CASE up[p] # 2
            BY <1>8, <3>2 DEF ExitModules, event_core_exit_master, ToExit,
           HasAt, Base
    <3>. QED
      BY <1>8, <3>1, <3>2 DEF ExitModules, event_core_exit_master, ToExit
  <2>. QED
    BY <2>1, <2>2, HasFrame
<1>9. ASSUME NEW p \in Procs, Return(p) PROVE Goal'
  <2>1. \A q \in Procs : q # p =>
          pc'[q] = pc[q] /\ has'[q] = has[q] /\ up'[q] = up[q]
    BY <1>9 DEF Return, Gone
  <2>2. HasAt(p)'
    BY <1>9 DEF Return, Gone, HasAt, Base
  <2>. QED
    BY <2>1, <2>2, HasFrame
<1>10. ASSUME NEW p \in Procs, AssertFails(p) PROVE Goal'
  <2>1. \A q \in Procs : q # p =>
          pc'[q] = pc[q] /\ has'[q] = has[q] /\ up'[q] = up[q]
    BY <1>10 DEF AssertFails, Gone
  <2>2. HasAt(p)'
    BY <1>10 DEF AssertFails, Gone, HasAt, Base
  <2>. QED
    BY <2>1, <2>2, HasFrame
<1>11. ASSUME NEW p \in Procs, event_core_init_worker(p) PROVE Goal'
  <2>1. \A q \in Procs : q # p =>
          pc'[q] = pc[q] /\ has'[q] = has[q] /\ up'[q] = up[q]
    BY <1>11 DEF event_core_init_worker, Acquire
  <2>2. HasAt(p)'
    <3>1. \/ pc'[p] = "core" /\ has'[p] \in {has[p], has[p] \cup {"events"}}
          \/ pc'[p] = "epoll" /\ has'[p] = has[p] \cup {"events", "lock"}
      BY <1>11 DEF event_core_init_worker, Acquire
    <3>2. has[p] \ Servers \in {Base, Base \cup {"events"}}
      BY <1>11 DEF event_core_init_worker, HasAt
    <3>3. "events" \notin Servers /\ "lock" \notin Servers
      <4>1. "events" \in {"conf", "shmid", "cache", "lock", "events", "epoll",
                          "ports"}
        OBVIOUS
      <4>2. "lock" \in {"conf", "shmid", "cache", "lock", "events", "epoll",
                        "ports"}
        OBVIOUS
      <4>. QED
        BY <4>1, <4>2
    <3>4. \/ pc'[p] = "core" /\ has'[p] \ Servers \in {Base, Base \cup {"events"}}
          \/ /\ pc'[p] = "epoll"
             /\ has'[p] \ Servers = Base \cup {"lock", "events"}
      BY <3>1, <3>2, <3>3
    <3>. QED
      BY <3>4 DEF HasAt
  <2>. QED
    BY <2>1, <2>2, HasFrame
<1>12. ASSUME NEW p \in Procs, ShmatFails(p) PROVE Goal'
  <2>1. \A q \in Procs : q # p =>
          pc'[q] = pc[q] /\ has'[q] = has[q] /\ up'[q] = up[q]
    BY <1>12 DEF ShmatFails
  <2>2. HasAt(p)'
    BY <1>12 DEF ShmatFails, HasAt, Base
  <2>. QED
    BY <2>1, <2>2, HasFrame
<1>13. ASSUME NEW p \in Procs, epoll_init(p) PROVE Goal'
  <2>1. \A q \in Procs : q # p =>
          pc'[q] = pc[q] /\ has'[q] = has[q] /\ up'[q] = up[q]
    BY <1>13 DEF epoll_init, Acquire
  <2>2. HasAt(p)'
    BY <1>13 DEF epoll_init, Acquire, HasAt, Base
  <2>. QED
    BY <2>1, <2>2, HasFrame
<1>14. ASSUME NEW p \in Procs, EpollInitFails(p) PROVE Goal'
  <2>1. \A q \in Procs : q # p =>
          pc'[q] = pc[q] /\ has'[q] = has[q] /\ up'[q] = up[q]
    BY <1>14 DEF EpollInitFails, private
  <2>2. HasAt(p)'
    BY <1>14 DEF EpollInitFails, private, HasAt, Base
  <2>. QED
    BY <2>1, <2>2, HasFrame
<1>15. ASSUME NEW p \in Procs, InitApps(p) PROVE Goal'
  <2>1. \A q \in Procs : q # p =>
          pc'[q] = pc[q] /\ has'[q] = has[q] /\ up'[q] = up[q]
    BY <1>15 DEF InitApps
  <2>2. has[p] \ Servers = {"conf", "shmid", "cache", "lock", "events", "epoll"}
    BY <1>15 DEF InitApps, HasAt, Base
  <2>3. "ports" \notin has[p] /\ "ports" \notin Servers
    <3>1. "ports" \notin Servers
      <4>1. "ports" \in {"conf", "shmid", "cache", "lock", "events", "epoll",
                         "ports"}
        OBVIOUS
      <4>. QED
        BY <4>1
    <3>2. "ports" \notin has[p] \ Servers
      BY <2>2
    <3>. QED
      BY <3>1, <3>2
  <2>4. pc'[p] = "run" /\ has'[p] = has[p] \cup {"ports"}
    BY <1>15, <2>3 DEF InitApps, htons_ports
  <2>5. has'[p] \ Servers = {"conf", "shmid", "cache", "lock", "events",
                             "epoll", "ports"}
    BY <2>2, <2>3, <2>4
  <2>6. HasAt(p)'
    BY <2>4, <2>5 DEF HasAt, Base
  <2>. QED
    BY <2>1, <2>6, HasFrame
<1>16. ASSUME NEW p \in Procs, ExitWorker(p) PROVE Goal'
  <2>1. \A q \in Procs : q # p =>
          pc'[q] = pc[q] /\ has'[q] = has[q] /\ up'[q] = up[q]
    BY <1>16 DEF ExitWorker, event_core_exit_master
  <2>2. HasAt(p)'
    BY <1>16 DEF ExitWorker, event_core_exit_master, HasAt, Base
  <2>. QED
    BY <2>1, <2>2, HasFrame
<1>17. ASSUME NEW p \in Procs, LoopFails(p) PROVE Goal'
  <2>1. \A q \in Procs : q # p =>
          pc'[q] = pc[q] /\ has'[q] = has[q] /\ up'[q] = up[q]
    BY <1>17 DEF LoopFails, private
  <2>2. HasAt(p)'
    BY <1>17 DEF LoopFails, private, HasAt, Base
  <2>. QED
    BY <2>1, <2>2, HasFrame
<1>18. ASSUME NEW p \in Procs, Kill(p) PROVE Goal'
  <2>1. \A q \in Procs : q # p =>
          pc'[q] = pc[q] /\ has'[q] = has[q] /\ up'[q] = up[q]
    BY <1>18 DEF Kill, Gone
  <2>2. HasAt(p)'
    BY <1>18 DEF Kill, Gone, HasAt, Base
  <2>. QED
    BY <2>1, <2>2, HasFrame
<1>19. CASE UNCHANGED vars
  BY <1>19 DEF vars, HasAt
<1>. QED
  BY <1>1, <1>2, <1>3, <1>4, <1>5, <1>6, <1>7, <1>8, <1>9,
     <1>10, <1>11, <1>12, <1>13, <1>14, <1>15, <1>16, <1>17, <1>18, <1>19
  DEF Next, Step, Running, Stopped

(* The listening sockets stay alike if no process loses one.               *)
LEMMA ListenFrame ==
  ASSUME ListenInv,
         \A q \in Procs : "cache" \in has'[q] =>
           "cache" \in has[q] /\ has'[q] \cap Servers = has[q] \cap Servers
  PROVE  ListenInv'
  BY DEF ListenInv

(* Every step keeps the listening sockets of the processes alike.          *)
LEMMA ListenStep == IInv /\ [Next]_vars => ListenInv'
<1> DEFINE Goal == ListenInv
<1> SUFFICES ASSUME IInv, [Next]_vars PROVE Goal'
  OBVIOUS
<1> USE ConstantsAssumption DEF Procs, Master, Starting, Working, Finished,
        Goto, Fault, IInv, TypeOK, ListenInv
<1>1. ASSUME NEW p \in Procs, main_core_init(p) PROVE Goal'
  <2>1. \A q \in Procs : "cache" \in has'[q] =>
          "cache" \in has[q] /\ has'[q] \cap Servers = has[q] \cap Servers
    BY <1>1 DEF main_core_init, Acquire
  <2>. QED
    BY <2>1, ListenFrame
<1>2. ASSUME NEW p \in Procs, event_core_init_master(p) PROVE Goal'
  <2>1. \A q \in Procs : q # p => has[q] = {} /\ has'[q] = {}
    BY <1>2 DEF event_core_init_master, Acquire, event_core_create_listeners,
           HasInv, HasAt, ChainInv
  <2>2. PICK L \in (SUBSET Servers) \ {{}} :
          has' = [has EXCEPT ![p] = @ \cup ({"shmid", "cache"} \cup L)]
    BY <1>2 DEF event_core_init_master, Acquire, event_core_create_listeners
  <2>3. has'[p] \cap Servers # {}
    BY <2>2
  <2>. QED
    BY <2>1, <2>3
<1>3. ASSUME NEW p \in Procs, InitMasterFails(p) PROVE Goal'
  <2>1. \A q \in Procs : /\ has'[q] \cap Servers = has[q] \cap Servers
                         /\ "cache" \in has'[q] => "cache" \in has[q]
    <3>1. CASE UNCHANGED <<has, shm>>
      BY <3>1
    <3>2. CASE has' = [has EXCEPT ![p] = @ \cup {"shmid"}]
      BY <3>2
    <3>. QED
      BY <1>3, <3>1, <3>2 DEF InitMasterFails, Acquire
  <2>. QED
    BY <2>1
<1>4. ASSUME NEW p \in Procs, fall_into_daemon(p) PROVE Goal'
  <2>1. \A q \in Procs : "cache" \in has'[q] =>
          "cache" \in has[q] /\ has'[q] \cap Servers = has[q] \cap Servers
    BY <1>4 DEF fall_into_daemon
  <2>. QED
    BY <2>1, ListenFrame
<1>5. ASSUME NEW p \in Procs, hixo_spawn_workers(p) PROVE Goal'
  <2>1. \A q \in Procs : has'[q] \in {has[p], has[q]}
    BY <1>5 DEF hixo_spawn_workers
  <2>. QED
    BY <2>1
<1>6. ASSUME NEW p \in Procs, ForkFails(p) PROVE Goal'
  BY <1>6 DEF ForkFails
<1>7. ASSUME NEW p \in Procs, master_main(p) PROVE Goal'
  BY <1>7 DEF master_main, private
<1>8. ASSUME NEW p \in Procs, ExitModules(p) PROVE Goal'
  <2>1. \A q \in Procs :
          \/ has'[q] = has[q]
          \/ has'[q] = has[q] \ (Servers \cup {"cache", "shmid"})
    BY <1>8, SMTT(20) DEF ExitModules, event_core_exit_master, ToExit
  <2>2. \A q \in Procs : "cache" \in has'[q] => has'[q] = has[q]
    BY <2>1
  <2>. QED
    BY <2>2
<1>9. ASSUME NEW p \in Procs, Return(p) PROVE Goal'
  BY <1>9 DEF Return, Gone
<1>10. ASSUME NEW p \in Procs, AssertFails(p) PROVE Goal'
  BY <1>10 DEF AssertFails, Gone
<1>11. ASSUME NEW p \in Procs, event_core_init_worker(p) PROVE Goal'
  <2>1. \A q \in Procs : "cache" \in has'[q] =>
          "cache" \in has[q] /\ has'[q] \cap Servers = has[q] \cap Servers
    BY <1>11 DEF event_core_init_worker, Acquire
  <2>. QED
    BY <2>1, ListenFrame
<1>12. ASSUME NEW p \in Procs, ShmatFails(p) PROVE Goal'
  BY <1>12 DEF ShmatFails
<1>13. ASSUME NEW p \in Procs, epoll_init(p) PROVE Goal'
  <2>1. \A q \in Procs : "cache" \in has'[q] =>
          "cache" \in has[q] /\ has'[q] \cap Servers = has[q] \cap Servers
    BY <1>13 DEF epoll_init, Acquire
  <2>. QED
    BY <2>1, ListenFrame
<1>14. ASSUME NEW p \in Procs, EpollInitFails(p) PROVE Goal'
  BY <1>14 DEF EpollInitFails, private
<1>15. ASSUME NEW p \in Procs, InitApps(p) PROVE Goal'
  <2>1. \A q \in Procs : "cache" \in has'[q] =>
          "cache" \in has[q] /\ has'[q] \cap Servers = has[q] \cap Servers
    BY <1>15 DEF InitApps, htons_ports
  <2>. QED
    BY <2>1, ListenFrame
<1>16. ASSUME NEW p \in Procs, ExitWorker(p) PROVE Goal'
  BY <1>16 DEF ExitWorker, event_core_exit_master
<1>17. ASSUME NEW p \in Procs, LoopFails(p) PROVE Goal'
  BY <1>17 DEF LoopFails, private
<1>18. ASSUME NEW p \in Procs, Kill(p) PROVE Goal'
  BY <1>18 DEF Kill, Gone
<1>19. CASE UNCHANGED vars
  BY <1>19 DEF vars
<1>. QED
  BY <1>1, <1>2, <1>3, <1>4, <1>5, <1>6, <1>7, <1>8, <1>9,
     <1>10, <1>11, <1>12, <1>13, <1>14, <1>15, <1>16, <1>17, <1>18, <1>19
  DEF Next, Step, Running, Stopped

(* Every step keeps the segment marked by whoever tore down.               *)
LEMMA SegStep == IInv /\ [Next]_vars => SegInv'
<1> DEFINE Goal == SegInv
<1> SUFFICES ASSUME IInv, [Next]_vars PROVE Goal'
  OBVIOUS
<1> USE ConstantsAssumption DEF Procs, Master, Starting, Working, Finished,
        Goto, Fault, IInv, TypeOK, SegInv, HasInv, HasAt, Base
<1>1. ASSUME NEW p \in Procs, main_core_init(p) PROVE Goal'
  BY <1>1 DEF main_core_init, Acquire, ChainInv
<1>2. ASSUME NEW p \in Procs, event_core_init_master(p) PROVE Goal'
    BY <1>2 DEF event_core_init_master, Acquire, event_core_create_listeners,
       ChainInv
<1>3. ASSUME NEW p \in Procs, InitMasterFails(p) PROVE Goal'
  <2>1. pc' = [pc EXCEPT ![p] = "exit"] /\ shm' \in {shm, "marked"}
    BY <1>3 DEF InitMasterFails
  <2>2. \A q \in Procs :
          has[q] \subseteq {"conf"} /\ has'[q] \subseteq {"conf", "shmid"}
    <3>1. \A q \in Procs : has[q] \subseteq {"conf"}
      BY <1>3 DEF InitMasterFails, ChainInv
    <3>2. \A q \in Procs : has'[q] \subseteq has[q] \cup {"shmid"}
      <4>1. CASE UNCHANGED <<has, shm>>
        BY <4>1
      <4>2. CASE has' = [has EXCEPT ![p] = @ \cup {"shmid"}]
        BY <4>2
      <4>. QED
        BY <1>3, <4>1, <4>2 DEF InitMasterFails, Acquire
    <3>. QED
      BY <3>1, <3>2
  <2>3. p = 0 /\ \A q \in Procs : q # p => pc[q] = "unborn"
    BY <1>3 DEF InitMasterFails, ChainInv
  <2>4. pc[p] = "event" => shm # "live"
    OBVIOUS
  <2>. QED
    BY <1>3, <2>1, <2>2, <2>3, <2>4 DEF InitMasterFails
<1>4. ASSUME NEW p \in Procs, fall_into_daemon(p) PROVE Goal'
  <2>1. PICK x \in {"spawn", "quit"} : pc' = [pc EXCEPT ![p] = x]
    BY <1>4 DEF fall_into_daemon
  <2>2. \A q \in Procs : has'[q] \in {{}, has[q]} /\ (q # p => has'[q] = has[q])
    BY <1>4 DEF fall_into_daemon
  <2>. QED
    BY <1>4, <2>1, <2>2, SMTT(20) DEF fall_into_daemon
<1>5. ASSUME NEW p \in Procs, hixo_spawn_workers(p) PROVE Goal'
  BY <1>5, SMTT(40) DEF hixo_spawn_workers, cpuid, inherited
<1>6. ASSUME NEW p \in Procs, ForkFails(p) PROVE Goal'
  BY <1>6 DEF ForkFails
<1>7. ASSUME NEW p \in Procs, master_main(p) PROVE Goal'
  BY <1>7 DEF master_main, private
<1>8. ASSUME NEW p \in Procs, ExitModules(p) PROVE Goal'
  <2>1. \A q \in Procs : has'[q] \subseteq has[q] /\ (q # p => has'[q] = has[q])
    BY <1>8, SMTT(20) DEF ExitModules, event_core_exit_master, ToExit
  <2>2. PICK x \in {"end", "corrupt"} : pc' = [pc EXCEPT ![p] = x]
    BY <1>8 DEF ExitModules, event_core_exit_master, ToExit
  <2>3. shm' \in {shm, "marked"} /\ shm' # "live"
    <3>1. CASE up[p] = 2
      BY <1>8, <3>1 DEF ExitModules, event_core_exit_master, ToExit
    <3>2. CASE up[p] # 2
      BY <1>8, <3>2 DEF ExitModules, ToExit
    <3>. QED
      BY <1>8, <3>1, <3>2 DEF ExitModules, ToExit
  <2>4. \A q \in Procs : pc[q] \notin {"main", "event"}
    BY <1>8, SMTT(20) DEF ExitModules, ChainInv
  <2>. QED
    BY <1>8, <2>1, <2>2, <2>3, <2>4 DEF ExitModules
<1>9. ASSUME NEW p \in Procs, Return(p) PROVE Goal'
  BY <1>9 DEF Return, Gone
<1>10. ASSUME NEW p \in Procs, AssertFails(p) PROVE Goal'
  BY <1>10 DEF AssertFails, Gone
<1>11. ASSUME NEW p \in Procs, event_core_init_worker(p) PROVE Goal'
  BY <1>11 DEF event_core_init_worker, Acquire, SegmentExists
<1>12. ASSUME NEW p \in Procs, ShmatFails(p) PROVE Goal'
  BY <1>12 DEF ShmatFails
<1>13. ASSUME NEW p \in Procs, epoll_init(p) PROVE Goal'
  BY <1>13 DEF epoll_init, Acquire
<1>14. ASSUME NEW p \in Procs, EpollInitFails(p) PROVE Goal'
  BY <1>14 DEF EpollInitFails, private
<1>15. ASSUME NEW p \in Procs, InitApps(p) PROVE Goal'
  BY <1>15 DEF InitApps, htons_ports
<1>16. ASSUME NEW p \in Procs, ExitWorker(p) PROVE Goal'
  BY <1>16 DEF ExitWorker, event_core_exit_master, ChainInv
<1>17. ASSUME NEW p \in Procs, LoopFails(p) PROVE Goal'
  BY <1>17 DEF LoopFails, private
<1>18. ASSUME NEW p \in Procs, Kill(p) PROVE Goal'
  BY <1>18 DEF Kill, Gone
<1>19. CASE UNCHANGED vars
  BY <1>19 DEF vars
<1>. QED
  BY <1>1, <1>2, <1>3, <1>4, <1>5, <1>6, <1>7, <1>8, <1>9,
     <1>10, <1>11, <1>12, <1>13, <1>14, <1>15, <1>16, <1>17, <1>18, <1>19
  DEF Next, Step, Running, Stopped

(* Every step keeps the lists of the applications.                         *)
LEMMA AppsStep == IInv /\ [Next]_vars => AppsInv'
<1> DEFINE Goal == AppsInv
<1> SUFFICES ASSUME IInv, [Next]_vars PROVE Goal'
  OBVIOUS
<1> USE ConstantsAssumption DEF Procs, Master, Starting, Working, Finished,
        Goto, Fault, IInv, TypeOK, AppsInv
<1>1. ASSUME NEW p \in Procs, main_core_init(p) PROVE Goal'
  BY <1>1 DEF main_core_init, Acquire
<1>2. ASSUME NEW p \in Procs, event_core_init_master(p) PROVE Goal'
  BY <1>2 DEF event_core_init_master, Acquire, event_core_create_listeners
<1>3. ASSUME NEW p \in Procs, InitMasterFails(p) PROVE Goal'
  BY <1>3 DEF InitMasterFails, Acquire
<1>4. ASSUME NEW p \in Procs, fall_into_daemon(p) PROVE Goal'
  BY <1>4 DEF fall_into_daemon
<1>5. ASSUME NEW p \in Procs, hixo_spawn_workers(p) PROVE Goal'
  <2>1. /\ pc[p] = "spawn" /\ p # Master /\ p + 1 \in Procs /\ p + 1 # p
        /\ pc' = [pc EXCEPT ![p] = "core",
                        ![p + 1] = IF p + 1 = Master THEN "master" ELSE "spawn"]
        /\ apps' = [apps EXCEPT ![p + 1] = apps[p]]
        /\ has' = [has EXCEPT ![p + 1] = has[p]]
    BY <1>5, SMTT(20) DEF hixo_spawn_workers, ChainInv
  <2>2. \A q \in Procs : q # p /\ q # p + 1 =>
          pc'[q] = pc[q] /\ apps'[q] = apps[q] /\ has'[q] = has[q]
    BY <2>1
  <2>3. /\ pc'[p] = "core" /\ pc'[p + 1] \in {"master", "spawn"}
        /\ apps'[p] = apps[p] /\ apps'[p + 1] = apps[p] /\ apps[p] = <<>>
    BY <2>1 DEF AppsType
  <2>. QED
    BY <2>2, <2>3
<1>6. ASSUME NEW p \in Procs, ForkFails(p) PROVE Goal'
  BY <1>6 DEF ForkFails
<1>7. ASSUME NEW p \in Procs, master_main(p) PROVE Goal'
  BY <1>7 DEF master_main, private
<1>8. ASSUME NEW p \in Procs, ExitModules(p) PROVE Goal'
  BY <1>8 DEF ExitModules, event_core_exit_master, ToExit
<1>9. ASSUME NEW p \in Procs, Return(p) PROVE Goal'
  BY <1>9 DEF Return, Gone
<1>10. ASSUME NEW p \in Procs, AssertFails(p) PROVE Goal'
  BY <1>10 DEF AssertFails, Gone
<1>11. ASSUME NEW p \in Procs, event_core_init_worker(p) PROVE Goal'
  <2>1. apps[p] = <<>> /\ AppList \o <<>> = AppList
    <3>1. AppList \in Seq(Nat)
      <4>1. AppList \in [1..NApplications -> Nat]
        BY DEF AppList
      <4>. QED
        BY <4>1, SMTT(20)
    <3>. QED
      BY <1>11, <3>1 DEF event_core_init_worker
  <2>2. \/ pc' = [pc EXCEPT ![p] = "core"] /\ apps'[p] = <<>>
        \/ /\ pc' = [pc EXCEPT ![p] = "epoll"]
           /\ apps'[p] = AppList /\ AppList # <<>>
    BY <1>11, <2>1 DEF event_core_init_worker, AppsType
  <2>3. \A q \in Procs : q # p => /\ pc'[q] = pc[q] /\ apps'[q] = apps[q]
                                  /\ has'[q] = has[q]
    BY <1>11 DEF event_core_init_worker, Acquire, AppsType
  <2>. QED
    BY <2>2, <2>3
<1>12. ASSUME NEW p \in Procs, ShmatFails(p) PROVE Goal'
  BY <1>12 DEF ShmatFails
<1>13. ASSUME NEW p \in Procs, epoll_init(p) PROVE Goal'
  BY <1>13 DEF epoll_init, Acquire
<1>14. ASSUME NEW p \in Procs, EpollInitFails(p) PROVE Goal'
  BY <1>14 DEF EpollInitFails, private
<1>15. ASSUME NEW p \in Procs, InitApps(p) PROVE Goal'
  BY <1>15 DEF InitApps, htons_ports
<1>16. ASSUME NEW p \in Procs, ExitWorker(p) PROVE Goal'
  BY <1>16 DEF ExitWorker, event_core_exit_master
<1>17. ASSUME NEW p \in Procs, LoopFails(p) PROVE Goal'
  BY <1>17 DEF LoopFails, private
<1>18. ASSUME NEW p \in Procs, Kill(p) PROVE Goal'
  BY <1>18 DEF Kill, Gone
<1>19. CASE UNCHANGED vars
  BY <1>19 DEF vars
<1>. QED
  BY <1>1, <1>2, <1>3, <1>4, <1>5, <1>6, <1>7, <1>8, <1>9,
     <1>10, <1>11, <1>12, <1>13, <1>14, <1>15, <1>16, <1>17, <1>18, <1>19
  DEF Next, Step, Running, Stopped

(* The invariant holds in every reachable state.                           *)
LEMMA Inv == Spec => []IInv
<1>1. IInv /\ [Next]_vars => IInv'
  BY TypeStep, ChainStep, HasStep, ListenStep, SegStep, AppsStep DEF IInv
<1>. QED
  BY IInvInit, <1>1, PTL DEF Spec

-----------------------------------------------------------------------------
(* The variables keep their types: in particular a worker's index stays    *)
(* within ga_pss_info and its cpu below M_NCPUS.                           *)
THEOREM TypeCorrect == Spec => []TypeOK
<1>1. IInv => TypeOK
  BY DEF IInv
<1>. QED
  BY Inv, <1>1, PTL

(* A worker that enters event_loop has what the initialisers make, every   *)
(* application linked once, and the same listeners as the other running    *)
(* workers, whatever failed before and however often it tried.             *)
THEOREM Ready == Spec => []RunReady
<1>1. IInv => RunReady
  <2> SUFFICES ASSUME IInv, NEW p \in Procs, pc[p] = "run"
               PROVE  /\ has[p] \ Servers = Resources \ Servers
                      /\ has[p] \cap Servers # {}
                      /\ apps[p] = AppList /\ apps[p] # <<>>
                      /\ \A q \in Procs : pc[q] = "run" => has[q] = has[p]
    BY DEF RunReady
  <2> USE ConstantsAssumption
  <2>1. \A q \in Procs : pc[q] = "run" =>
        has[q] \ Servers = {"conf", "shmid", "cache", "lock", "events", "epoll",
                            "ports"}
    BY DEF IInv, HasInv, HasAt, Base
  <2>2. \A q \in Procs : pc[q] = "run" => "cache" \in has[q]
    BY <2>1
  <2>3. has[p] \ Servers = Resources \ Servers
    BY <2>1 DEF Resources
  <2>4. has[p] \cap Servers # {}
    BY <2>2 DEF IInv, ListenInv
  <2>5. apps[p] = AppList /\ apps[p] # <<>>
    BY DEF IInv, AppsInv
  <2>6. ASSUME NEW q \in Procs, pc[q] = "run" PROVE has[q] = has[p]
    <3>1. has[p] \cap Servers = has[q] \cap Servers
      BY <2>2, <2>6 DEF IInv, ListenInv
    <3>. QED
      BY <3>1, <2>1, <2>6
  <2>. QED
    BY <2>3, <2>4, <2>5, <2>6
<1>. QED
  BY Inv, <1>1, PTL

(* Every worker has an entry of ga_pss_info of its own; the master has     *)
(* none, as hixo_main asserts.                                             *)
THEOREM Entries == Spec => []EntriesDistinct
<1>1. IInv => EntriesDistinct
  BY ConstantsAssumption DEF IInv, ChainInv, EntriesDistinct, Procs
<1>. QED
  BY Inv, <1>1, PTL

(* event_core_exit_master never runs without a cache to destroy. *)
THEOREM DestroyedOnce == Spec => []NoDoubleDestroy
<1>1. IInv => NoDoubleDestroy
  BY DEF IInv, HasInv, HasAt, NoDoubleDestroy
<1>. QED
  BY Inv, <1>1, PTL

(* The segment does not outlive the processes once one of them came to its *)
(* tear-down.                                                              *)
THEOREM NoSegmentLeak == Spec => []SegmentFreed
<1>1. IInv => SegmentFreed
  <2> SUFFICES ASSUME IInv,
                      \A p \in Procs : pc[p] \in Finished \cup {"unborn"},
                      NEW e \in Procs, pc[e] \in {"ended", "aborted"}
               PROVE  ~SegmentExists
    BY DEF SegmentFreed
  <2>1. shm # "live"
    BY DEF IInv, SegInv
  <2>2. Attached = {}
    BY DEF IInv, HasInv, HasAt, Attached
  <2>. QED
    BY <2>1, <2>2 DEF SegmentExists
<1>. QED
  BY Inv, <1>1, PTL

(* What the initialisation of the master made is given back, and once.     *)
THEOREM TornDown == Spec => []TornDownOnce
  BY DestroyedOnce, NoSegmentLeak, PTL DEF TornDownOnce
=============================================================================
