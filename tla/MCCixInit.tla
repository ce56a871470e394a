----------------------------- MODULE MCCixInit -----------------------------
(* Small instances of the supervisor for TLC.                              *)
EXTENDS CixInitProps

Svc(t, a, r, o) == [type |-> t, after |-> a, ready |-> r, on_exit |-> o]

MCTwoStatuses == {[kind |-> "exited", value |-> 0], [kind |-> "killed", value |-> 9]}

\* Pairs: every kind of dependency under every kind of dependent.
Pair(a, b) == [i \in 0 .. 1 |-> IF i = 0 THEN a ELSE b]
MCPairs ==
  {Pair(Svc("oneshot", {}, "none", "fail-container"), Svc("daemon", {0}, "command", "restart")),
   Pair(Svc("oneshot", {}, "none", "stop"), Svc("daemon", {0}, "none", "fail-container")),
   Pair(Svc("daemon", {}, "net", "restart"), Svc("oneshot", {0}, "none", "stop")),
   Pair(Svc("daemon", {}, "command", "stop"), Svc("daemon", {0}, "net", "fail-container")),
   Pair(Svc("daemon", {1}, "none", "restart"), Svc("daemon", {}, "none", "restart"))}

\* Chains and forks of three.
Triple(a, b, c) == [i \in 0 .. 2 |-> IF i = 0 THEN a ELSE IF i = 1 THEN b ELSE c]
MCTriples ==
  {Triple(Svc("daemon", {}, "net", "restart"), Svc("oneshot", {0}, "none", "stop"),
          Svc("daemon", {1}, "none", "fail-container")),
   Triple(Svc("daemon", {}, "none", "restart"), Svc("daemon", {0}, "none", "stop"),
          Svc("daemon", {0, 1}, "none", "restart"))}

\* For liveness: connect probes, and the two ways a container ends by itself.
MCLive ==
  {Pair(Svc("daemon", {}, "net", "restart"), Svc("daemon", {0}, "none", "fail-container")),
   Pair(Svc("oneshot", {}, "none", "fail-container"), Svc("daemon", {0}, "net", "stop"))}

\* A fail-container service beside one that stays down when it exits.
MCFailBesideStop ==
  {Pair(Svc("daemon", {}, "none", "stop"), Svc("daemon", {}, "none", "fail-container"))}

\* A daemon with a command probe.
MCCommandProbe == {[i \in 0 .. 0 |-> Svc("daemon", {}, "command", "restart")]}

NoOps == {}
StartOnly == {"START"}
AllOps == {"START", "STOP", "RESTART"}
StopOnly == {"STOP"}
=============================================================================
