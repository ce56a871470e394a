---------------------------- MODULE Supervisor -----------------------------
(***************************************************************************)
(* What a supervisor of services promises its operator and its services,   *)
(* whatever table, probes, timers and loop it is built from: a service is  *)
(* started only while the container is open, when it is not held and when  *)
(* everything it comes after has once been ready; it is told to stop before *)
(* it is killed; a stop holds and a restart passes through a stop; once the *)
(* container is closing nothing starts, services are stopped from the      *)
(* leaves of the graph inwards, and the end comes when none is up.         *)
(***************************************************************************)
EXTENDS Naturals

CONSTANT Service

VARIABLES
  after,      \* of each service: the services it comes after
  vital,      \* the services whose failure closes the container
  up,         \* the services that have a process
  told,       \* of those, the ones that were told to stop
  slain,      \* of those, the ones that were killed
  held,       \* the services the operator stopped and did not start again
  again,      \* of those up, the ones to be started again once they are down
  proven,     \* while open: the services that have ever been ready
  phase,      \* "open", "closing", "ended"
  code        \* the exit status, once closing has fixed it

table == <<after, vital>>
services == <<up, told, slain, held, again, proven>>
svars == <<table, services, phase, code>>

Init ==
  /\ after \in [Service -> SUBSET Service] /\ vital \in SUBSET Service
  /\ up = {} /\ told = {} /\ slain = {} /\ held = {} /\ again = {} /\ proven = {}
  /\ phase = "open" /\ code = 0

\* A service whose process forks may be ready at once,
Start(i) ==
  /\ phase = "open"
  /\ i \notin up /\ i \notin held /\ after[i] \subseteq proven
  /\ up' = up \cup {i}
  /\ proven' \in {proven, proven \cup {i}}
  /\ UNCHANGED <<table, told, slain, held, again, phase, code>>

\* or later,
BecomeReady(i) ==
  /\ phase = "open" /\ i \in up
  /\ proven' = proven \cup {i}
  /\ UNCHANGED <<table, up, told, slain, held, again, phase, code>>

\* or, when finishing is what it is for, by exiting.
Down(i) ==
  /\ i \in up
  /\ up' = up \ {i} /\ told' = told \ {i} /\ slain' = slain \ {i} /\ again' = again \ {i}
  /\ UNCHANGED <<table, held>>

Exit(i) ==
  /\ Down(i)
  /\ proven' \in {proven} \cup (IF phase = "open" THEN {proven \cup {i}} ELSE {})
  /\ UNCHANGED <<phase, code>>

\* The operator's three commands.
OperatorStart(i) ==
  /\ phase # "ended"
  /\ held' = held \ {i}
  /\ UNCHANGED <<table, up, told, slain, again, proven, phase, code>>

OperatorStop(i) ==
  /\ phase # "ended"
  /\ held' = held \cup {i} /\ again' = again \ {i} /\ told' = told \cup ({i} \cap up)
  /\ UNCHANGED <<table, up, slain, proven, phase, code>>

OperatorRestart(i) ==
  /\ phase # "ended"
  /\ held' = held \ {i} /\ again' = again \cup ({i} \cap up) /\ told' = told \cup ({i} \cap up)
  /\ UNCHANGED <<table, up, slain, proven, phase, code>>

\* Closing, by order or because a vital service exited or cannot start.
\* What was ready no longer matters: nothing starts any more.
Close(codes) ==
  /\ phase = "open" /\ phase' = "closing" /\ code' \in codes /\ proven' = {}

CloseByOrder == Close({0}) /\ UNCHANGED <<table, up, told, slain, held, again>>

CloseByExit(i) ==
  /\ i \in vital /\ i \notin held /\ i \notin again
  /\ Down(i)
  /\ Close(Nat)

CloseByFailure(i) ==
  /\ i \in vital /\ i \notin held /\ i \notin up
  /\ Close(Nat)
  /\ UNCHANGED <<table, up, told, slain, held, again>>

\* A closing supervisor tells a service to stop when nothing up comes after it,
TellToStop(i) ==
  /\ phase = "closing" /\ i \in up
  /\ \A j \in up : i \notin after[j]
  /\ told' = told \cup {i}
  /\ UNCHANGED <<table, up, slain, held, again, proven, phase, code>>

\* and kills, closing or not, only what was told.
Kill(i) ==
  /\ i \in told
  /\ slain' = slain \cup {i}
  /\ UNCHANGED <<table, up, told, held, again, proven, phase, code>>

\* Nothing is up: the end, with the code closing fixed if it closed.
End ==
  /\ phase # "ended" /\ up = {}
  /\ phase' = "ended" /\ proven' = {}
  /\ code' \in (IF phase = "closing" THEN {code} ELSE Nat)
  /\ UNCHANGED <<table, up, told, slain, held, again>>

Next ==
  \/ \E i \in Service :
       \/ Start(i) \/ BecomeReady(i) \/ Exit(i) \/ Kill(i) \/ TellToStop(i)
       \/ OperatorStart(i) \/ OperatorStop(i) \/ OperatorRestart(i)
       \/ CloseByExit(i) \/ CloseByFailure(i)
  \/ CloseByOrder \/ End

Spec == Init /\ [][Next]_svars
=============================================================================
