------------------------------ MODULE Lifecycle ------------------------------
(***************************************************************************)
(* hixo_main: the modules are initialised, the process splits into         *)
(* workers and a master, every worker initialises its own part and runs    *)
(* the event loop (module EventLoop), and whoever leaves tears down.       *)
(*                                                                         *)
(* The workers are a chain: process p forks process p + 1 and becomes the  *)
(* p-th worker, and the last child is the master.  Apart from the shared   *)
(* memory segment of the accept lock all state is private and copied by    *)
(* fork.  has[p] is what process p has acquired: the configuration, the    *)
(* id of the segment (m_shmid # -1), the socket cache, the listeners, the  *)
(* attached segment, the context of the event module (mp_ev_ctx), the      *)
(* epoll instance, and the ports in network order.                         *)
(***************************************************************************)
EXTENDS Integers, FiniteSets, Sequences

CONSTANTS
  NWorkers,        \* p_conf->m_worker_processes
  Servers,         \* the servers the applications configure
  EventModules,    \* the event modules of gap_modules that have a context
  NApplications,   \* the applications of gap_modules: 1..NApplications
  Daemon,          \* p_conf->m_daemon
  TimerResolution, \* p_conf->m_timer_resolution
  NCpus,           \* g_sysconf.M_NCPUS
  MaxPss,          \* HIXO_MAX_PSS
  MaxFaults,       \* bound: system calls that fail
  MaxKills         \* bound: processes that are killed

ASSUME ConstantsAssumption ==
  /\ NWorkers \in Nat \ {0}
  /\ MaxPss \in Nat /\ NWorkers < MaxPss   \* assert in hixo_main
  /\ Daemon \in BOOLEAN
  /\ TimerResolution \in Nat
  /\ NCpus \in Nat \ {0}
  /\ MaxFaults \in Nat /\ MaxKills \in Nat
  /\ NApplications \in Nat
  /\ Servers \cap {"conf", "shmid", "cache", "lock", "events", "epoll",
                   "ports"} = {}

VARIABLES
  pc,      \* per process: where it is
  has,     \* per process: what it has acquired
  apps,    \* per process: m_app_ctx_list, from its head
  up,      \* per process: core modules hixo_main has initialised (its i)
  ps,      \* per process: gp_ps_info, an index of ga_pss_info, or -1 (NULL)
  cpu,     \* per process: the cpu it is bound to, -1 if none
  masked,  \* per process: all signals are blocked
  timer,   \* per process: s_event_core_private.m_ev_timer_ms
  shm,     \* the segment: "none", "live", or "marked" by IPC_RMID
  faults,  \* faults so far (bounded by MaxFaults)
  kills    \* kills so far (bounded by MaxKills)

private == <<has, apps, up, ps, cpu, masked, timer>>
vars == <<pc, has, apps, up, ps, cpu, masked, timer, shm, faults, kills>>

Procs == 0..NWorkers
Master == NWorkers
Resources == {"conf", "shmid", "cache", "lock", "events", "epoll", "ports"}
               \cup Servers
Starting == {"main", "event", "daemon", "spawn"}
Working == {"core", "epoll", "app", "run", "leave"}
Finished == {"ended", "aborted", "corrupt", "quit", "killed"}

(* Once marked, the segment exists as long as somebody has it attached. *)
Attached == {p \in Procs : "lock" \in has[p]}
SegmentExists == shm = "live" \/ (shm = "marked" /\ Attached # {})

AppsType == apps \in [Procs -> Seq(1..NApplications)]
TypeOK ==
  /\ pc \in [Procs -> {"unborn", "master", "exit", "end"} \cup Starting
                        \cup Working \cup Finished]
  /\ has \in [Procs -> SUBSET Resources]
  /\ AppsType
  /\ up \in [Procs -> 0..2]
  /\ ps \in [Procs -> -1..(MaxPss - 1)]
  /\ cpu \in [Procs -> -1..(NCpus - 1)]
  /\ masked \in [Procs -> BOOLEAN]
  /\ timer \in [Procs -> {-1} \cup Nat]
  /\ shm \in {"none", "live", "marked"}
  /\ faults \in 0..MaxFaults
  /\ kills \in 0..MaxKills

Init ==
  /\ pc = [p \in Procs |-> IF p = 0 THEN "main" ELSE "unborn"]
  /\ has = [p \in Procs |-> {}]
  /\ apps = [p \in Procs |-> <<>>]
  /\ up = [p \in Procs |-> 0]
  /\ ps = [p \in Procs |-> -1]
  /\ cpu = [p \in Procs |-> -1]
  /\ masked = [p \in Procs |-> FALSE]
  /\ timer = [p \in Procs |-> -1]
  /\ shm = "none"
  /\ faults = 0
  /\ kills = 0

Goto(p, from, to) ==
  /\ pc[p] = from
  /\ pc' = [pc EXCEPT ![p] = to]

Acquire(p, R) == has' = [has EXCEPT ![p] = @ \cup R]

(* A system call or an allocation fails. *)
Fault == faults < MaxFaults /\ faults' = faults + 1

-----------------------------------------------------------------------------
(* hixo_main before the fork *)

main_core_init(p) ==
  /\ Goto(p, "main", "event")
  /\ Acquire(p, {"conf"})
  /\ up' = [up EXCEPT ![p] = 1]
  /\ UNCHANGED <<apps, ps, cpu, masked, timer, shm, faults, kills>>

(* A server whose address is bad or whose socket, bind or listen fails is  *)
(* left out.                                                               *)
event_core_create_listeners == SUBSET Servers

(* At least one listener has to remain. *)
event_core_init_master(p) ==
  /\ Goto(p, "event", "daemon")
  /\ \E L \in event_core_create_listeners \ {{}} :
       Acquire(p, {"shmid", "cache"} \cup L)
  /\ up' = [up EXCEPT ![p] = 2]
  /\ shm' = "live"
  /\ UNCHANGED <<apps, ps, cpu, masked, timer, faults, kills>>

InitMasterFails_keep(p) ==   \* mutant: the segment is not removed
  /\ Goto(p, "event", "exit")
  /\ Fault
  /\ \/ UNCHANGED <<has, shm>>
     \/ Acquire(p, {"shmid"}) /\ shm' = "live"
  /\ UNCHANGED <<apps, up, ps, cpu, masked, timer, kills>>
(* shmget fails; or calloc, create_resource or every listener does and the *)
(* segment is removed, though m_shmid keeps its id.                        *)
InitMasterFails(p) ==
  /\ Goto(p, "event", "exit")
  /\ Fault
  /\ \/ UNCHANGED <<has, shm>>
     \/ Acquire(p, {"shmid"}) /\ shm' = "marked"
  /\ UNCHANGED <<apps, up, ps, cpu, masked, timer, kills>>

(* Forks twice; a parent exits at once, and so does a process whose fork   *)
(* failed.  The grandchild goes on in its place.                           *)
fall_into_daemon(p) ==
  /\ \/ /\ Goto(p, "daemon", "spawn")
        /\ UNCHANGED <<has, faults>>
     \/ /\ Daemon
        /\ Goto(p, "daemon", "quit")
        /\ Fault
        /\ has' = [has EXCEPT ![p] = {}]
  /\ UNCHANGED <<apps, up, ps, cpu, masked, timer, shm, kills>>

cpuid(p) == p % NCpus
inherited_early(p) == p    \* mutant: the parent sets gp_ps_info before the fork
(* gp_ps_info of the child: the parent sets its own after the fork. *)
inherited(p) == ps[p]

(* One round of the loop: the parent is worker p, the child goes on, and   *)
(* the child of the last round is the master.                              *)
hixo_spawn_workers(p) ==
  /\ pc[p] = "spawn"
  /\ pc' = [pc EXCEPT ![p] = "core",
                      ![p + 1] = IF p + 1 = Master THEN "master" ELSE "spawn"]
  /\ has' = [has EXCEPT ![p + 1] = has[p]]
  /\ apps' = [apps EXCEPT ![p + 1] = apps[p]]
  /\ up' = [up EXCEPT ![p + 1] = up[p]]
  /\ ps' = [ps EXCEPT ![p] = p, ![p + 1] = inherited(p)]
  /\ cpu' = [cpu EXCEPT ![p] = cpuid(p)]
  /\ masked' = [masked EXCEPT ![p] = TRUE, ![p + 1] = p + 1 # Master]
  /\ UNCHANGED <<timer, shm, faults, kills>>

ForkFails(p) ==
  /\ Goto(p, "spawn", "exit")
  /\ Fault
  /\ masked' = [masked EXCEPT ![p] = TRUE]
  /\ UNCHANGED <<has, apps, up, ps, cpu, timer, shm, kills>>

-----------------------------------------------------------------------------
(* Tear-down *)

(* Closes the listeners, destroys the cache, which must still be there,    *)
(* and marks the segment.                                                  *)
event_core_exit_master(p, to) ==
  /\ has' = [has EXCEPT ![p] = @ \ (Servers \cup {"cache", "shmid"})]
  /\ pc' = [pc EXCEPT ![p] = IF "cache" \in has[p] THEN to ELSE "corrupt"]
  /\ shm' = IF "shmid" \in has[p] THEN "marked" ELSE shm

master_main_waits(p) ==   \* mutant: g_child_count is n_workers, and no SIGCHLD
  /\ Goto(p, "master", "exit")
  /\ NWorkers = 0
  /\ UNCHANGED <<private, shm, faults, kills>>
(* g_child_count is 0 in every process, so the loop over sigsuspend is not *)
(* entered; the handlers are set and the mask is as before.                *)
master_main(p) ==
  /\ Goto(p, "master", "exit")
  /\ UNCHANGED <<private, shm, faults, kills>>

(* EXIT of hixo_main starts at the module before the one that failed. *)
ToExit(p) == up[p] = 2

(* main_core_exit does nothing, so only the event core matters. *)
ExitModules(p) ==
  /\ pc[p] = "exit"
  /\ \/ ToExit(p) /\ event_core_exit_master(p, "end")
     \/ ~ToExit(p) /\ pc' = [pc EXCEPT ![p] = "end"] /\ UNCHANGED <<has, shm>>
  /\ UNCHANGED <<apps, up, ps, cpu, masked, timer, faults, kills>>

(* The process is gone and the kernel has released what it still held. *)
Gone(p, how) ==
  /\ pc' = [pc EXCEPT ![p] = how]
  /\ has' = [has EXCEPT ![p] = {}]
  /\ UNCHANGED <<apps, up, ps, cpu, masked, timer, shm, faults>>

Return(p) == pc[p] = "end" /\ Gone(p, "ended") /\ UNCHANGED kills

(* Killed from outside, at any point; only SIGKILL reaches a worker. *)
Kill(p) ==
  /\ pc[p] \notin {"unborn"} \cup Finished
  /\ kills < MaxKills
  /\ kills' = kills + 1
  /\ Gone(p, "killed")

-----------------------------------------------------------------------------
(* worker_main: worker_main_core again and again *)

(* assert(-1 != m_shmid) at the start of event_core_init_worker fails. *)
AssertFails(p) ==
  /\ pc[p] = "core"
  /\ "shmid" \notin has[p]
  /\ Gone(p, "aborted")
  /\ UNCHANGED kills

(* With a coarse resolution epoll_wait gets a timeout; with a fine one it  *)
(* gets none and an interval timer sends SIGALRM.                          *)
EvTimer == IF TimerResolution > 20 THEN TimerResolution ELSE -1

(* dlist_add_head of the applications in the order of gap_modules.         *)
AppList == [i \in 1..NApplications |-> NApplications + 1 - i]

(* After the segment the event module is looked for, then the list of the  *)
(* applications built; without the one or the other                        *)
(* (ERR_NECESSARY_MODULE_NOT_FOUND) the segment is detached again and      *)
(* worker_main tries once more.                                            *)
event_core_init_worker(p) ==
  LET found == EventModules # {}
      linked == IF found THEN AppList \o apps[p] ELSE apps[p]
      ready == found /\ linked # <<>>
  IN /\ Goto(p, "core", IF ready THEN "epoll" ELSE "core")
     /\ "shmid" \in has[p]
     /\ SegmentExists
     /\ Acquire(p, (IF found THEN {"events"} ELSE {})
                     \cup (IF ready THEN {"lock"} ELSE {}))
     /\ apps' = [apps EXCEPT ![p] = linked]
     /\ timer' = [timer EXCEPT ![p] = EvTimer]
     /\ UNCHANGED <<up, ps, cpu, masked, shm, faults, kills>>

ShmatFails_linked(p) ==   \* mutant: the list is built before the shmat
  /\ pc[p] = "core"
  /\ "shmid" \in has[p]
  /\ \/ ~SegmentExists /\ UNCHANGED faults
     \/ SegmentExists /\ Fault
  /\ apps' = [apps EXCEPT ![p] = IF Len(@) > NApplications
                                 THEN @ ELSE AppList \o @]
  /\ timer' = [timer EXCEPT ![p] = EvTimer]
  /\ UNCHANGED <<pc, has, up, ps, cpu, masked, shm, kills>>
(* shmat fails, for ever once the segment is gone; worker_main tries again. *)
ShmatFails(p) ==
  /\ pc[p] = "core"
  /\ "shmid" \in has[p]
  /\ \/ ~SegmentExists /\ UNCHANGED faults
     \/ SegmentExists /\ Fault
  /\ timer' = [timer EXCEPT ![p] = EvTimer]
  /\ UNCHANGED <<pc, has, apps, up, ps, cpu, masked, shm, kills>>

epoll_init(p) ==
  /\ Goto(p, "epoll", "app")
  /\ Acquire(p, {"epoll"})
  /\ UNCHANGED <<apps, up, ps, cpu, masked, timer, shm, faults, kills>>

EpollInitFails(p) ==
  /\ Goto(p, "epoll", "leave")
  /\ Fault
  /\ UNCHANGED <<private, shm, kills>>

(* echo_init_worker and simple_http_init_worker apply htons to their ports; *)
(* done twice it undoes itself.                                             *)
htons_ports(R) == IF "ports" \in R THEN R \ {"ports"} ELSE R \cup {"ports"}

InitApps(p) ==
  /\ Goto(p, "app", "run")
  /\ has' = [has EXCEPT ![p] = htons_ports(@)]
  /\ UNCHANGED <<apps, up, ps, cpu, masked, timer, shm, faults, kills>>

(* event_loop returns -1: epoll_wait failed, not with EINTR. *)
LoopFails(p) ==
  /\ Goto(p, "run", "leave")
  /\ Fault
  /\ UNCHANGED <<private, shm, kills>>

(* EXIT_WORKER calls mpf_exit_master, of the core modules only: those of   *)
(* the event and application modules are NULL.  The segment stays attached *)
(* and the epoll instance open.                                            *)
ExitWorker(p) ==
  /\ pc[p] = "leave"
  /\ event_core_exit_master(p, "core")
  /\ UNCHANGED <<apps, up, ps, cpu, masked, timer, faults, kills>>

(* The event loop goes on (module EventLoop). *)
Running(p) == pc[p] = "run" /\ UNCHANGED vars

Stopped ==
  /\ \A p \in Procs : pc[p] \in Finished \cup {"unborn"}
  /\ UNCHANGED vars

-----------------------------------------------------------------------------
Step(p) ==
  \/ main_core_init(p) \/ event_core_init_master(p) \/ InitMasterFails(p)
  \/ fall_into_daemon(p) \/ hixo_spawn_workers(p) \/ ForkFails(p)
  \/ master_main(p) \/ ExitModules(p) \/ Return(p)
  \/ AssertFails(p) \/ event_core_init_worker(p) \/ ShmatFails(p)
  \/ epoll_init(p) \/ EpollInitFails(p) \/ InitApps(p)
  \/ ExitWorker(p)

Next ==
  \/ \E p \in Procs : Step(p) \/ LoopFails(p) \/ Kill(p) \/ Running(p)
  \/ Stopped

Spec == Init /\ [][Next]_vars

(* Every process is scheduled. *)
FairSpec == Spec /\ \A p \in Procs : WF_vars(Step(p))

-----------------------------------------------------------------------------
(* Properties *)

(* A worker enters event_loop only with what the initialisers are there   *)
(* to make, whatever failed and was tried again before: the configuration, *)
(* the cache and at least one listener, the lock mapped, the event module  *)
(* found, the epoll instance, the ports in network order, every            *)
(* application linked once in the list that hixo_handle_accept searches;   *)
(* and all running workers have the same listeners.                        *)
RunReady ==
  \A p \in Procs : pc[p] = "run" =>
    /\ has[p] \ Servers = Resources \ Servers
    /\ has[p] \cap Servers # {}
    /\ apps[p] = AppList /\ apps[p] # <<>>
    /\ \A q \in Procs : pc[q] = "run" => has[q] = has[p]

(* Along the fork chain every worker gets an entry of ga_pss_info of its   *)
(* own and a cpu, and the master none: assert(NULL == gp_ps_info).         *)
EntriesDistinct ==
  /\ \A p \in Procs : pc[p] \in Working =>
       /\ ps[p] # -1 /\ cpu[p] # -1
       /\ \A q \in Procs \ {p} : pc[q] \in Working => ps[q] # ps[p]
  /\ \A p \in Procs : pc[p] = "master" => ps[p] = -1

(* No sequence of failures, restarts and exits runs event_core_exit_master *)
(* on a cache that is not there or was destroyed before.                   *)
NoDoubleDestroy == \A p \in Procs : pc[p] # "corrupt"

(* System V segments outlive their processes.  When no process is left and *)
(* at least one of them got to its tear-down, the segment is gone.         *)
SegmentFreed ==
  (/\ \A p \in Procs : pc[p] \in Finished \cup {"unborn"}
   /\ \E p \in Procs : pc[p] \in {"ended", "aborted"})
  => ~SegmentExists

(* However the server ends, what event_core_init_master made is given back *)
(* once, and not more than once.                                           *)
TornDownOnce == NoDoubleDestroy /\ SegmentFreed

Settled(p) ==
  \/ pc[p] \in {"run"} \cup Finished
  \/ pc[p] = "core" /\ ~SegmentExists
(* Every process comes to its event loop or to an end; only a worker that  *)
(* finds the segment gone tries for ever.                                  *)
Settles == \A p \in Procs : pc[p] # "unborn" ~> Settled(p)

(* assert(-1 != s_event_core_private.m_shmid) of event_core_init_worker. *)
NoShmAssert == \A p \in Procs : pc[p] # "aborted"

(* The master waits for its workers and reports those that "exit           *)
(* unnormally": it does not end before them.                               *)
MasterOutlives ==
  pc[Master] = "ended" => \A p \in Procs : pc[p] \in Finished

-----------------------------------------------------------------------------
(* The inductive invariant of Lifecycle_proofs *)

Base == {"conf", "shmid", "cache"}

(* The chain of forks: behind its head there is nobody yet. *)
ChainInv ==
  \A p \in Procs :
    /\ pc[p] \in Starting =>
         p # Master /\ \A q \in Procs : q > p => pc[q] = "unborn"
    /\ pc[p] \in {"main", "event", "daemon"} => p = 0
    /\ pc[p] \in Starting \cup {"unborn", "master"} => ps[p] = -1
    /\ pc[p] \in Working => p # Master /\ ps[p] = p /\ cpu[p] # -1

(* What a process has at each point. *)
HasAt(p) ==
  /\ pc[p] # "corrupt"
  /\ pc[p] \in {"main", "unborn"} \cup Finished => has[p] = {}
  /\ pc[p] = "event" => has[p] = {"conf"} /\ up[p] = 1
  /\ pc[p] \in {"daemon", "spawn", "master"} =>
       has[p] \ Servers = Base /\ up[p] = 2
  /\ pc[p] = "core" => \/ has[p] \ Servers \in {Base, Base \cup {"events"}}
                       \/ "shmid" \notin has[p]
  /\ pc[p] = "epoll" => has[p] \ Servers = Base \cup {"lock", "events"}
  /\ pc[p] = "app" => has[p] \ Servers = Base \cup {"lock", "events", "epoll"}
  /\ pc[p] = "run" =>
       has[p] \ Servers = Base \cup {"lock", "events", "epoll", "ports"}
  /\ pc[p] = "leave" => Base \subseteq has[p]
  /\ pc[p] = "exit" /\ up[p] = 2 => Base \subseteq has[p]
HasInv == \A p \in Procs : HasAt(p)

(* The listeners are the ones that were opened before the first fork. *)
ListenInv ==
  \A p, q \in Procs : "cache" \in has[p] /\ "cache" \in has[q] =>
    has[p] \cap Servers # {} /\ has[p] \cap Servers = has[q] \cap Servers

(* Whoever tore down has marked the segment. *)
SegInv ==
  \A p \in Procs :
    /\ pc[p] \in {"main", "event"} => shm = "none"
    /\ "lock" \in has[p] => shm # "none"
    /\ pc[p] \in {"end", "ended", "aborted"} => shm # "live"
    /\ pc[p] = "core" /\ "shmid" \notin has[p] => shm # "live"
    /\ pc[p] = "exit" /\ up[p] # 2 => shm # "live"

(* A worker builds the list of the applications once: when it comes back   *)
(* to the start with the list built, m_shmid is -1 and it aborts.          *)
AppsInv ==
  \A p \in Procs :
    /\ pc[p] \in {"main", "event", "daemon", "spawn", "unborn"} =>
         apps[p] = <<>>
    /\ pc[p] = "core" /\ "shmid" \in has[p] => apps[p] = <<>>
    /\ pc[p] \in {"epoll", "app", "run"} => apps[p] = AppList /\ AppList # <<>>

IInv ==
  /\ TypeOK
  /\ ChainInv /\ HasInv /\ ListenInv /\ SegInv /\ AppsInv
=============================================================================
