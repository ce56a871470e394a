---------------------------- MODULE CixInitProps ----------------------------
(***************************************************************************)
(* What cix-init promises: invariants, action properties and liveness of   *)
(* the supervisor of CixInit.                                              *)
(***************************************************************************)
EXTENDS CixInit

\* Every variable has its type: the states of enum svc_state, wait statuses
\* as wait4() gives them, a queue of command records.
TypeOK ==
  /\ def \in [Service -> ServiceRecord]
  /\ state \in [Service -> States]
  /\ proc \in [Service -> Procs]
  /\ probe \in [Service -> Probes]
  /\ stop_sent \in [Service -> BOOLEAN]
  /\ killed \in [Service -> BOOLEAN]
  /\ operator_stopped \in [Service -> BOOLEAN]
  /\ restart_after_stop \in [Service -> BOOLEAN]
  /\ exit \in [Service -> Status]
  /\ due \in [Service -> SUBSET Deadlines]
  /\ pc \in Phases
  /\ cur \in -1 .. N
  /\ pc = "schedule" => cur >= 0
  /\ pc = "shutdown" => cur < N
  /\ shutting_down \in BOOLEAN
  /\ exit_code \in Nat
  /\ sigterm \in BOOLEAN
  /\ control \in Seq(Command)
  /\ sent \in Nat
  /\ ended_by \in Enders
  /\ reached \subseteq Service

\* A service that runs is STARTING or READY, and outside a shutdown nothing
\* else is: the state dependents wait for (dep_ready) never outlives its
\* process.  A fail-container exit leaves the state behind, so a shutdown is
\* where the converse stops holding.
ReadyMeansRunning ==
  \A i \in Service :
    /\ Running(i) => state[i] \in {"STARTING", "READY"}
    /\ ~shutting_down /\ state[i] \in {"STARTING", "READY"} => Running(i)

\* A service runs only after everything it is `after' has been ready, at
\* every depth: a crash restart does not recheck the dependencies
\* (schedule(), RESTART_WAIT), but the first start did, and so did theirs.
StartedAfterDependencies ==
  \A i \in Service :
    Running(i) \/ i \in reached => \A j \in def[i].after : j \in reached

\* CIXINIT_OP_STOP holds: a service the operator stopped is down as STOPPED,
\* or is on its way down with its stop signal sent, unless a shutdown has
\* overtaken it.  No restart is left pending behind the hold.
HeldStaysDown ==
  \A i \in Service : operator_stopped[i] =>
    /\ ~restart_after_stop[i]
    /\ \/ shutting_down
       \/ Running(i) /\ stop_sent[i]
       \/ ~Running(i) /\ state[i] = "STOPPED"

\* CIXINIT_OP_RESTART is not lost: while it is pending the service is on its
\* way down, so its exit is what service_exited() turns back into PENDING.
RestartIsUnderWay ==
  \A i \in Service :
    restart_after_stop[i] /\ ~shutting_down => Running(i) /\ stop_sent[i]

\* finish() leaves nothing behind: no service process, no restart waited for,
\* and no service that could still have started.
ExitLeavesNothing ==
  pc = "exited" =>
    \A i \in Service :
      /\ ~Running(i)
      /\ state[i] # "RESTART_WAIT"
      /\ ValidTable => ~(state[i] = "PENDING" /\ DepsSatisfied(i))

\* An orderly shutdown exits 0 (include/cixinit.h, EXIT STATUS), whatever
\* the services it stopped exited with.
OrderlyExitsZero == ended_by = "orderly" /\ pc = "exited" => exit_code = 0

\* Once a shutdown begins no process is started and the exit code is fixed,
\* from the same pass of schedule() on.
ShutdownOnlyStops ==
  [][shutting_down => /\ shutting_down'
                      /\ exit_code' = exit_code
                      /\ \A i \in Service : Running(i)' => Running(i)]_vars

\* shutdown_step() stops services in reverse dependency order: it signals
\* one only when every direct dependent has been reaped.
DependentsStopFirst ==
  [][pc = "shutdown" =>
       \A i \in Service : stop_sent'[i] /\ ~stop_sent[i] =>
         \A j \in Service : i \in def[j].after => ~Running(j)]_vars

\* SIGKILL only ever follows the declared stop signal and its timeout, and
\* reaches the process the signal was sent to: no start is killed by a stop
\* that was meant for the incarnation before it.
KillFollowsStop ==
  \A i \in Service : killed[i] => stop_sent[i] /\ Running(i) /\ "stop_timeout" \in due[i]

----------------------------------------------------------------------------
(* The promise as a whole. *)

\* The supervisor that struct svc, the phase of the loop and the globals stand
\* for.  What is left in the fields of a service that does not run is from its
\* last process, and the exit code is open until the shutdown begins.
Phase == IF pc = "exited" THEN "ended" ELSE IF shutting_down THEN "closing" ELSE "open"
After == [i \in Service |-> def[i].after]
Vital == {i \in Service : def[i].on_exit = "fail-container"}
Up == {i \in Service : Running(i)}
Told == {i \in Up : stop_sent[i]}
Slain == {i \in Up : killed[i]}
Held == {i \in Service : operator_stopped[i]}
Again == {i \in Up : restart_after_stop[i]}
Proven == IF Phase = "open" THEN reached ELSE {}
Code == IF Phase = "open" THEN 0 ELSE exit_code

S == INSTANCE Supervisor WITH
       after <- After, vital <- Vital, up <- Up, told <- Told, slain <- Slain, held <- Held,
       again <- Again, proven <- Proven, phase <- Phase, code <- Code

\* cix-init is a supervisor: every turn of its loop, whatever exits, commands,
\* signals and deadlines it meets, is a step the promise allows.
ImplementsSupervisor == S!Spec

----------------------------------------------------------------------------
(* What the proofs add to make these inductive. *)

\* A held service is never waiting to start, during a shutdown either.
HeldNotPending == \A i \in Service : operator_stopped[i] => state[i] # "PENDING"

\* Once schedule() has begun a shutdown nothing it still has to visit is
\* waiting to start; afterwards a command may make it so again, but only
\* shutdown_step() runs.
PassIsOver ==
  pc = "schedule" /\ shutting_down =>
    \A i \in Service : state[i] \notin {"PENDING", "RESTART_WAIT"}

\* Nothing has run before the table is read, and only a valid one is run.
FreshUntilRead ==
  /\ pc = "read_table" =>
       /\ ~shutting_down
       /\ \A i \in Service : proc[i] = "none" /\ state[i] = "PENDING"
  /\ pc \notin {"read_table", "exited"} => ValidTable

\* shutdown_step() is called only once a shutdown has begun.
ShutdownHasBegun == pc = "shutdown" => shutting_down

\* The code is fixed by whoever began the shutdown.
CodeIsFixed ==
  /\ shutting_down <=> ended_by # "none"
  /\ ended_by = "orderly" => exit_code = 0

\* A service that has run, or is to be restarted, once had every dependency ready.
HasRun(i) ==
  \/ Running(i) \/ i \in reached \/ exit[i].kind # "none"
  \/ state[i] \in {"STARTING", "READY", "RESTART_WAIT"}

RanAfterDependencies ==
  \A i \in Service :
    /\ HasRun(i) => def[i].after \subseteq reached
    /\ DepReady(i) => i \in reached

IInv ==
  /\ ReadyMeansRunning /\ HeldStaysDown /\ RestartIsUnderWay /\ KillFollowsStop
  /\ HeldNotPending /\ PassIsOver /\ FreshUntilRead /\ CodeIsFixed
  /\ ShutdownHasBegun /\ RanAfterDependencies /\ ExitLeavesNothing

----------------------------------------------------------------------------
(* Liveness. *)

\* A shutdown completes: cix-init stops every service, with SIGKILL if it
\* must, and exits.
ShutdownCompletes == shutting_down ~> pc = "exited"

\* A stop takes effect: a service that was sent its stop signal is reaped.
StopTakesEffect == \A i \in Service : stop_sent[i] ~> ~Running(i)

\* A probe does not hold the graph for ever: a service does not stay
\* STARTING, whatever its probe answers.
ProbeIsBounded == \A i \in Service : state[i] = "STARTING" ~> state[i] # "STARTING"
=============================================================================
