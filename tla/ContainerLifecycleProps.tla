---------------------- MODULE ContainerLifecycleProps ----------------------
(***************************************************************************)
(* What cixd promises about a container's life, over ContainerLifecycle.   *)
(***************************************************************************)
EXTENDS ContainerLifecycle

\* Every variable has its type; roll_failures stays below the limit at which
\* container_exit_finalize() rolls back.
TypeOK ==
    /\ def \in ContainerDef
    /\ entry \in RegistryEntry
    /\ proc \in Processes
    /\ restart \in Nat
    /\ rolling \in Nat
    /\ watch \in BOOLEAN
    /\ escalate \subseteq EscalationTimer
    /\ current \in Versions
    /\ runnable \subseteq Versions
    /\ moves \in 0 .. MaxMoves
    /\ queued \in BOOLEAN
    /\ bad \subseteq Versions
    /\ created \in 0 .. MaxInc
    /\ clock \in 0 .. MaxInc

\* A registered container has a definition unless its own DELETE is under way:
\* whatever teardown a DELETE meets becomes its own, and no timer that outlived
\* the definition brings a container back.
NoOrphan ==
    entry.in_use => def.in_use \/ entry.teardown_kind = "DELETE"

\* A container that runs and is not being torn down is one that nobody has
\* stopped: no stop is outlived by a replay that was already under way.
RunningIsWanted ==
    entry.running /\ entry.teardown_kind = "NONE" => ~def.stopped

\* A container whose policy is to be restarted, which nobody stopped and which
\* is down, has something that brings it back: a timer, or an awaited image.
\* Crashes, refused creates, reboots and handovers never strand it.
NoLostRestart ==
    /\ def.in_use
    /\ def.policy \in {"always", "unless-stopped"}
    /\ ~def.stopped
    /\ ~entry.in_use
    => restart > 0 \/ rolling > 0 \/ def.awaiting_image

\* A refusal that GET shows as being retried is: a timer is armed, or the
\* definition waits for its image.
RefusedIsRetried ==
    def.restart_refused /\ ~def.stopped =>
        restart > 0 \/ rolling > 0 \/ def.awaiting_image

\* Every teardown under way is bounded: the container has been killed, has
\* exited, or a timer that will recognise it is armed.
StopIsBounded ==
    entry.teardown_kind # "NONE" =>
        \/ proc # "alive"
        \/ \E t \in escalate : t.of = entry.pid /\ Escalates(t)

\* A roll on probation always has the timer that closes its window.
WindowIsWatched ==
    def.roll_deadline # "none" => def.roll_to # 0 /\ watch

\* A container that runs another version than its definition is pinned to is
\* about to be restarted onto it.
VersionConverges ==
    /\ entry.running
    /\ entry.teardown_kind = "NONE"
    /\ def.pin # 0
    /\ entry.version # def.pin
    => rolling > 0

-----------------------------------------------------------------------------
(* What the proofs add to make these inductive                             *)

\* A slot that is not in use is empty, a running incarnation has a process
\* until its exit is handled, and only a running one is being torn down.
SlotsAreWhole ==
    /\ ~def.in_use => def = EmptyDef
    /\ ~entry.in_use => entry = EmptyEntry
    /\ entry.running => entry.in_use
    /\ entry.running <=> proc # "none"
    /\ entry.teardown_kind # "NONE" => entry.running

\* The teardown under way is the one the definition tells of.
TeardownAgrees ==
    /\ entry.teardown_kind = "STOP" => def.stopped
    /\ entry.teardown_kind = "DELETE" => ~def.in_use

\* An exited record is kept only of a container that may stay down.
KeptMayStayDown ==
    entry.in_use /\ ~entry.running => def.policy \in {"no", "on-failure"}

\* A refused definition that does not wait for its image is not registered.
RefusedIsDown ==
    def.restart_refused /\ ~def.awaiting_image => ~entry.in_use

LInv ==
    /\ SlotsAreWhole /\ TeardownAgrees /\ KeptMayStayDown /\ RefusedIsDown
    /\ NoOrphan /\ RunningIsWanted /\ NoLostRestart /\ RefusedIsRetried
    /\ StopIsBounded /\ WindowIsWatched

-----------------------------------------------------------------------------
(* Liveness                                                                *)

\* A teardown under way completes: the incarnation leaves the registry.
StopCompletes ==
    \A p \in 1 .. MaxInc :
        (entry.pid = p /\ entry.teardown_kind # "NONE") ~> (entry.pid # p \/ ~entry.running)

\* A roll on probation is decided: confirmed, rolled back, or superseded.
RollSettles == (def.roll_deadline # "none") ~> (def.roll_deadline = "none")

-----------------------------------------------------------------------------
(* What comments and decision records say, and the code does not do        *)

\* A finished package job does not undo an operator's stop ("A stop or a DELETE
\* ends it", restart_was_refused()).
StopHolds == [][PackageJobDone => (def.stopped => def'.stopped)]_vars

\* A roll is confirmed by a container that runs the version it rolled to ("The
\* window starts when the rolled incarnation starts", ADR-0323).
ConfirmedRollRan ==
    [][RollConfirmed /\ ~def.stopped => entry.version = def.roll_to]_vars

=============================================================================
