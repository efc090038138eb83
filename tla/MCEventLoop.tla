---------------------------- MODULE MCEventLoop ----------------------------
(* Small instances of EventLoop for TLC. *)
EXTENDS EventLoop, TLC

CONSTANTS l1, l2, fl1, fl2

MCServers == [i \in 1..NServers |-> IF i = 1 THEN l1 ELSE l2]
MCAppOf == [l \in Listeners |-> IF l = l1 THEN "echo" ELSE "http"]
MCListenFd == [l \in Listeners |-> IF l = l1 THEN fl1 ELSE fl2]

(* Slots of connections are interchangeable, and so are descriptors. *)
Symm == Permutations(Slots \ {l1, l2}) \cup Permutations(Fds)
=============================================================================
