---------------------------- MODULE WorkerCycle ----------------------------
(***************************************************************************)
(* What one worker of hixo promises to the others: the order in which it   *)
(* takes the accept lock, watches the listeners and releases the lock, and *)
(* that its power follows its connections.  EventLoop has the worker in    *)
(* detail, AcceptLock all of them at once; both implement this cycle, so   *)
(* what AcceptLock shows of the lock holds for workers like EventLoop's.   *)
(***************************************************************************)
EXTENDS Integers

CONSTANTS
  InitialPower,
  PoolSize       \* slots for connections

VARIABLES
  phase,
  hold,          \* has the lock
  watching,      \* a listener is in its epoll instance
  failed,        \* history: its last attempt to stop watching failed
  conn,          \* open connections
  power

vars == <<phase, hold, watching, failed, conn, power>>

Init ==
  /\ phase = "lock"
  /\ ~hold /\ ~watching /\ ~failed
  /\ conn = 0
  /\ power = InitialPower

Goto(from, to) == phase = from /\ phase' = to

(* A worker without power does not ask for the lock. *)
TakeLock ==
  /\ Goto("lock", "add")
  /\ power > 0
  /\ hold' = TRUE
  /\ UNCHANGED <<watching, failed, conn, power>>

GoWithout ==
  /\ Goto("lock", "wait")
  /\ hold' = FALSE
  /\ UNCHANGED <<watching, failed, conn, power>>

Watch ==
  /\ Goto("add", "wait")
  /\ watching' \in BOOLEAN
  /\ UNCHANGED <<hold, failed, conn, power>>

Wait ==
  /\ Goto("wait", IF hold THEN "clear" ELSE "post")
  /\ UNCHANGED <<hold, watching, failed, conn, power>>

(* It stops watching, unless EPOLL_CTL_DEL fails. *)
Unwatch ==
  /\ Goto("clear", "post")
  /\ failed' \in BOOLEAN
  /\ watching' => watching /\ failed'
  /\ UNCHANGED <<hold, conn, power>>

Release ==
  /\ Goto("post", "work")
  /\ hold' = FALSE
  /\ UNCHANGED <<watching, failed, conn, power>>

(* Connections come and go only after the lock was released. *)
AcceptOne ==
  /\ phase = "work"
  /\ conn < PoolSize
  /\ conn' = conn + 1
  /\ power' = power - 1
  /\ UNCHANGED <<phase, hold, watching, failed>>

CloseOne ==
  /\ phase = "work"
  /\ conn > 0
  /\ conn' = conn - 1
  /\ power' = power + 1
  /\ UNCHANGED <<phase, hold, watching, failed>>

Again ==
  /\ Goto("work", "lock")
  /\ UNCHANGED <<hold, watching, failed, conn, power>>

(* Killed anywhere, with what it has; or it leaves its loop after an error *)
(* of epoll_wait, and then it releases the lock first.                     *)
Die ==
  /\ phase # "dead"
  /\ phase' = "dead"
  /\ hold' = hold \/ (phase = "post" /\ ~hold')
  /\ watching' \in {watching, FALSE}
  /\ UNCHANGED <<failed, conn, power>>

Next ==
  \/ TakeLock \/ GoWithout \/ Watch \/ Wait \/ Unwatch \/ Release
  \/ AcceptOne \/ CloseOne \/ Again \/ Die

Spec == Init /\ [][Next]_vars
=============================================================================
