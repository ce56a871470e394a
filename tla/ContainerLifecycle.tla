------------------------- MODULE ContainerLifecycle -------------------------
(***************************************************************************)
(* How cixd keeps one container name: the persisted definition             *)
(* (containerdef.c), the registry entry of the incarnation that runs       *)
(* (registry.c) and the handlers of daemon/src/main.c that create, stop,   *)
(* delete, restart, roll and roll back, with the timers they leave behind. *)
(*                                                                         *)
(* cixd is one thread around epoll, so every handler is one action.  What  *)
(* interleaves is the order of requests, timer expiries, container exits,  *)
(* package jobs, host reboots and handovers (cixd replacing itself by      *)
(* exec).  Handlers find a container by its name alone, and no handler     *)
(* touches two names at once, so one name is modelled; timers carry the    *)
(* name and outlive the incarnation they were armed for.                   *)
(*                                                                         *)
(* The definition follows its image (follow_rolling); one that does not is *)
(* one whose image never settles.                                          *)
(*                                                                         *)
(* Durations, and the backoff between crash restarts, are abstracted: an   *)
(* armed timer may fire at any later moment.                               *)
(* Failures of timerfd_create() and of writing the state file are not      *)
(* modelled.                                                               *)
(***************************************************************************)
EXTENDS Naturals, FiniteSets

CONSTANTS
    MaxInc,         \* bound: how many incarnations a behaviour may create
    MaxVersion,     \* bound: how many versions the image may have
    MaxMoves,       \* bound: how often its current version changes
    MaxRolling,     \* bound: rolling timers armed when another is asked for
    UnstableExits,  \* CONTAINER_ROLLBACK_UNSTABLE_EXITS
    Policies,       \* the restart policies a create may ask for
    Handovers       \* whether cixd may hand over to its successor

ASSUME LifecycleConstants ==
    /\ MaxInc \in Nat
    /\ MaxVersion \in Nat \ {0}
    /\ MaxMoves \in Nat
    /\ MaxRolling \in Nat
    /\ UnstableExits \in Nat \ {0}
    /\ Policies \subseteq {"no", "always", "on-failure", "unless-stopped"}
    /\ Handovers \in BOOLEAN

VARIABLES
    def,       \* the slot of g_defs[] with this name
    entry,     \* the slot of g_entries[] with this name
    proc,      \* the incarnation's pid 1 and the exit status it left
    restart,   \* armed CONN_RESTART_TIMERs with this name
    rolling,   \* armed CONN_ROLLING_RESTART_TIMERs with this name
    watch,     \* whether a CONN_ROLL_WATCH_TIMER with this name is armed
    escalate,  \* armed CONN_STOP_ESCALATE_TIMERs with this name
    current,   \* the image's current version
    runnable,  \* the image's versions that hold a loader, each for good
    moves,     \* how often the current version has changed
    queued,    \* whether the image is on the rebuild queue
    bad,       \* image versions a failed roll marked
    created,   \* how many incarnations there have been
    clock      \* the second in which the latest one started

vars == <<def, entry, proc, restart, rolling, watch, escalate, current, runnable,
          moves, queued, bad, created, clock>>

supply == <<runnable, moves>>
image == <<current, supply, queued, bad>>
births == <<created, clock>>

AllPolicies == {"no", "always", "on-failure", "unless-stopped"}
Teardowns == {"NONE", "STOP", "DELETE", "RESTART", "FAIL"}
Processes == {"none", "alive", "killed", "exited", "failed"}
Gone == {"exited", "failed"}
Deadlines == {"none", "open", "due"}
Versions == 1 .. MaxVersion

\* struct container_def.  body's own "restart" is want, its "image_version"
\* pin (0 when it has none).  roll_deadline is "none" for 0, "open" while it
\* lies ahead and "due" once it has passed.
ContainerDef ==
    [in_use : BOOLEAN, policy : AllPolicies, want : AllPolicies,
     stopped : BOOLEAN, awaiting_image : BOOLEAN, restart_refused : BOOLEAN,
     pin : Versions \cup {0}, roll_from : Versions \cup {0},
     roll_to : Versions \cup {0}, roll_deadline : Deadlines,
     roll_failures : 0 .. UnstableExits - 1]

\* struct registry_entry.  pid stands for the incarnation, started_at for the
\* second it started in.
RegistryEntry ==
    [in_use : BOOLEAN, pid : 0 .. MaxInc, version : Versions \cup {0},
     running : BOOLEAN, ready : BOOLEAN, teardown_kind : Teardowns,
     started_at : 0 .. MaxInc]

\* A stop-escalation timer remembers started_at; of is the incarnation it was
\* armed for, which the code does not keep.
EscalationTimer == [started_at : 0 .. MaxInc, of : 0 .. MaxInc]

EmptyDef ==
    [in_use |-> FALSE, policy |-> "no", want |-> "no", stopped |-> FALSE,
     awaiting_image |-> FALSE, restart_refused |-> FALSE, pin |-> 0,
     roll_from |-> 0, roll_to |-> 0, roll_deadline |-> "none",
     roll_failures |-> 0]

EmptyEntry ==
    [in_use |-> FALSE, pid |-> 0, version |-> 0, running |-> FALSE,
     ready |-> FALSE, teardown_kind |-> "NONE", started_at |-> 0]

Init ==
    /\ def = EmptyDef
    /\ entry = EmptyEntry
    /\ proc = "none"
    /\ restart = 0
    /\ rolling = 0
    /\ watch = FALSE
    /\ escalate = {}
    /\ current = 1
    /\ runnable \in SUBSET Versions
    /\ moves = 0
    /\ queued = FALSE
    /\ bad = {}
    /\ created = 0
    /\ clock = 0

-----------------------------------------------------------------------------
(* Creating from a definition's body                                       *)

\* The image version create_container_from_body() resolves.
Resolved(d) == IF d.pin = 0 THEN current ELSE d.pin

\* deployment_image_can_run()
CanRun == current \in runnable

\* create_container_from_body() on a free name, succeeding: the version must
\* hold a loader.  Two starts may fall in the same second.
CreateFromBody(d) ==
    /\ created < MaxInc
    /\ Resolved(d) \in runnable
    /\ created' = created + 1
    /\ clock' \in {clock, clock + 1} \cap (1 .. MaxInc)
    /\ entry' = [in_use |-> TRUE, pid |-> created + 1, version |-> Resolved(d),
                 running |-> TRUE, ready |-> FALSE, teardown_kind |-> "NONE",
                 started_at |-> clock']
    /\ proc' = "alive"

\* create_container_from_body() refused, and whatever the handler had already
\* released stays released.  A reference the body makes may be gone at any time.
CreateRefused ==
    /\ entry' = EmptyEntry
    /\ proc' = "none"
    /\ UNCHANGED <<created, clock>>

\* Every successful create clears restart_refused.
Running(d) == [d EXCEPT !.restart_refused = FALSE]

ClearRoll(d) ==
    [d EXCEPT !.roll_from = 0, !.roll_to = 0, !.roll_deadline = "none",
              !.roll_failures = 0]

SetStopped(d) ==
    IF d.in_use
    THEN ClearRoll([d EXCEPT !.stopped = TRUE, !.restart_refused = FALSE])
    ELSE d

\* containerdef_promote_pending(), then the pin of the version that came up.
PromotePending(d) ==
    [d EXCEPT !.policy = d.want, !.awaiting_image = FALSE,
              !.restart_refused = FALSE, !.stopped = FALSE,
              !.pin = Resolved(d)]

\* roll_back(): mark what the failed version brought, go back to the pin before.
RollBack(d) == ClearRoll([d EXCEPT !.pin = d.roll_from])
MarkFailedRoll(d) == bad' = bad \cup {d.roll_to}

\* start_roll_watch(): a rolled incarnation has come up, its window opens.
StartRollWatch(d) ==
    IF d.roll_to = 0 THEN d
    ELSE [d EXCEPT !.roll_deadline = "open", !.roll_failures = 0]

\* Mutated: only a policy that restarts after a crash is retried.
RestartWasRefusedByPolicy(d, n) ==
    /\ def' = [d EXCEPT !.restart_refused = TRUE]
    /\ restart' = IF d.policy = "no" THEN n ELSE n + 1

\* restart_was_refused(d) with n timers armed already: wait for the image's
\* build, or retry on a timer.  deployment_image_prepare() may find nothing to
\* build toward.
RestartWasRefused(d, n) ==
    \/ /\ ~CanRun
       /\ def' = [d EXCEPT !.awaiting_image = TRUE, !.restart_refused = FALSE]
       /\ restart' = n
    \/ /\ def' = [d EXCEPT !.restart_refused = TRUE]
       /\ restart' = n + 1

\* Declaring the recipe of an image with an empty manifest may queue its build,
\* when the queue may be any of qs before it.
MayQueue(qs) == queued' \in qs \cup {q \/ ~CanRun : q \in qs}

-----------------------------------------------------------------------------
(* Stopping                                                                *)

\* Mutated: the stop is asked for and nothing is armed behind it.
BeginContainerStopUnarmed(kind) ==
    /\ entry' = [entry EXCEPT !.teardown_kind = kind]
    /\ UNCHANGED escalate

\* begin_container_stop(): ask, remember why, arm the SIGKILL.
BeginContainerStop(kind) ==
    /\ entry' = [entry EXCEPT !.teardown_kind = kind]
    /\ escalate' = escalate \cup {[started_at |-> entry.started_at, of |-> entry.pid]}

\* What handle_stop_escalation_timer_event() asks before its SIGKILL.
Escalates(t) ==
    /\ entry.running
    /\ entry.teardown_kind # "NONE"
    /\ entry.started_at = t.started_at

\* Mutated: only an operator's own stop is escalated.
StopEscalatesOnlyStop(t) ==
    /\ t \in escalate
    /\ escalate' = escalate \ {t}
    /\ proc' = IF Escalates(t) /\ entry.teardown_kind = "STOP" /\ proc = "alive"
               THEN "killed" ELSE proc
    /\ UNCHANGED <<def, entry, restart, rolling, watch, image, births>>

\* handle_stop_escalation_timer_event().  Two timers of one incarnation are one
\* here: only the first can find it alive.
StopEscalates(t) ==
    /\ t \in escalate
    /\ escalate' = escalate \ {t}
    /\ proc' = IF Escalates(t) /\ proc = "alive" THEN "killed" ELSE proc
    /\ UNCHANGED <<def, entry, restart, rolling, watch, image, births>>

\* handle_stop() of a running container.
StopRunning ==
    /\ entry.running
    /\ def' = SetStopped(def)
    /\ IF entry.teardown_kind = "NONE"
       THEN BeginContainerStop("STOP")
       ELSE UNCHANGED <<entry, escalate>>
    /\ UNCHANGED <<proc, restart, rolling, watch, image, births>>

\* handle_stop() of one that is not running: an exited record is released.
StopDown ==
    /\ ~entry.running
    /\ def.in_use
    /\ def' = SetStopped(def)
    /\ entry' = EmptyEntry
    /\ UNCHANGED <<proc, restart, rolling, watch, escalate, image, births>>

\* handle_delete() of a running container with no teardown under way.
DeleteRunning ==
    /\ entry.running
    /\ entry.teardown_kind = "NONE"
    /\ def' = EmptyDef
    /\ BeginContainerStop("DELETE")
    /\ UNCHANGED <<proc, restart, rolling, watch, image, births>>

\* Mutated: the DELETE is acknowledged and the other teardown keeps its kind.
DeleteDuringTeardownKeepsKind ==
    /\ entry.running
    /\ entry.teardown_kind \in {"STOP", "RESTART", "FAIL"}
    /\ def' = EmptyDef
    /\ UNCHANGED <<entry, proc, restart, rolling, watch, escalate, image, births>>

\* handle_delete() during another teardown: its completion becomes this one's.
DeleteDuringTeardown ==
    /\ entry.running
    /\ entry.teardown_kind \in {"STOP", "RESTART", "FAIL"}
    /\ def' = EmptyDef
    /\ entry' = [entry EXCEPT !.teardown_kind = "DELETE"]
    /\ UNCHANGED <<proc, restart, rolling, watch, escalate, image, births>>

\* handle_delete() of one that is not running.
DeleteDown ==
    /\ ~entry.running
    /\ def.in_use
    /\ def' = EmptyDef
    /\ entry' = EmptyEntry
    /\ UNCHANGED <<proc, restart, rolling, watch, escalate, image, births>>

\* reconcile_live_device_revocations(): an interface's hardware left the host.
InterfaceLeaves ==
    /\ entry.running
    /\ entry.teardown_kind = "NONE"
    /\ BeginContainerStop("FAIL")
    /\ UNCHANGED <<def, proc, restart, rolling, watch, image, births>>

-----------------------------------------------------------------------------
(* Starting on request                                                     *)

\* What containerdef_add() writes; the roll fields of a slot that was in use
\* stay as they were.
DefAdded(policy, want, pin) ==
    [def EXCEPT !.in_use = TRUE, !.policy = policy, !.want = want, !.pin = pin,
                !.stopped = FALSE, !.awaiting_image = FALSE,
                !.restart_refused = FALSE]

\* handle_create(): a request's own body names no version, so the definition
\* is pinned to the one it came up on.  A refused create changes nothing.
Create(policy) ==
    /\ ~entry.in_use
    /\ CreateFromBody(EmptyDef)
    /\ def' = DefAdded(policy, policy, current)
    /\ UNCHANGED <<restart, rolling, watch, escalate, image>>

\* handle_container_recipe_apply() whose image cannot run yet:
\* deployment_mark_pending() keeps the body with a placeholder policy.
Deploy(policy) ==
    /\ ~entry.in_use
    /\ ~CanRun
    /\ def' = [DefAdded("no", policy, 0) EXCEPT !.awaiting_image = TRUE]
    /\ queued' = TRUE
    /\ UNCHANGED <<entry, proc, restart, rolling, watch, escalate, current,
                   supply, bad, births>>

\* handle_start() that comes up.
Start ==
    /\ ~entry.running
    /\ def.in_use
    /\ CreateFromBody(def)
    /\ def' = Running([def EXCEPT !.stopped = FALSE])
    /\ UNCHANGED <<restart, rolling, watch, escalate, image>>

\* handle_start() that is refused, after it released the exited record.
StartRefused ==
    /\ ~entry.running
    /\ def.in_use
    /\ CreateRefused
    /\ UNCHANGED <<def, restart, rolling, watch, escalate, image>>

\* dhcp_apply_and_maybe_restart() of a container that serves DHCP.
DhcpRestart ==
    /\ entry.running
    /\ rolling < MaxRolling
    /\ rolling' = rolling + 1
    /\ UNCHANGED <<def, entry, proc, restart, watch, escalate, image, births>>

-----------------------------------------------------------------------------
(* The crash-restart timer                                                 *)

\* What handle_restart_timer_event() asks before it creates anything.
RestartWanted ==
    /\ def.in_use
    /\ ~def.stopped
    /\ ~def.awaiting_image
    /\ ~entry.in_use

RestartTimerIdle ==
    /\ restart > 0
    /\ ~RestartWanted
    /\ restart' = restart - 1
    /\ UNCHANGED <<def, entry, proc, rolling, watch, escalate, image, births>>

RestartTimerCreates ==
    /\ restart > 0
    /\ RestartWanted
    /\ CreateFromBody(def)
    /\ def' = Running(def)
    /\ restart' = restart - 1
    /\ UNCHANGED <<rolling, watch, escalate, image>>

\* A rolled version that cannot be created again goes back at once.
RestartTimerRollsBack ==
    /\ restart > 0
    /\ RestartWanted
    /\ def.roll_to # 0
    /\ CreateRefused
    /\ def' = RollBack(def)
    /\ MarkFailedRoll(def)
    /\ UNCHANGED <<restart, rolling, watch, escalate, current, supply, queued>>

RestartTimerRefused ==
    /\ restart > 0
    /\ RestartWanted
    /\ def.roll_to = 0
    /\ CreateRefused
    /\ RestartWasRefused(def, restart - 1)
    /\ MayQueue({queued})
    /\ UNCHANGED <<rolling, watch, escalate, current, supply, bad>>

-----------------------------------------------------------------------------
(* The rolling-restart timer                                               *)

\* rolling_restart_replay(d), with r rolling timers armed and the rebuild queue
\* any of qs before it.
RollingRestartReplay(d, r, qs) ==
    \/ /\ CreateFromBody(d)
       /\ def' = StartRollWatch(Running(d))
       /\ watch' = (watch \/ d.roll_to # 0)
       /\ rolling' = r
       /\ queued' \in qs
       /\ UNCHANGED <<restart, current, supply, bad>>
    \/ /\ CreateRefused
       /\ d.roll_to # 0
       /\ def' = RollBack(d)
       /\ MarkFailedRoll(d)
       /\ rolling' = r + 1
       /\ queued' \in qs
       /\ UNCHANGED <<restart, watch, current, supply>>
    \/ /\ CreateRefused
       /\ d.roll_to = 0
       /\ RestartWasRefused(d, restart)
       /\ MayQueue(qs)
       /\ rolling' = r
       /\ UNCHANGED <<watch, current, supply, bad>>

\* handle_rolling_restart_timer_event()
RollingTimerIdle ==
    /\ rolling > 0
    /\ ~def.in_use \/ def.stopped
    /\ rolling' = rolling - 1
    /\ UNCHANGED <<def, entry, proc, restart, watch, escalate, image, births>>

RollingTimerStops ==
    /\ rolling > 0
    /\ def.in_use
    /\ ~def.stopped
    /\ entry.running
    /\ BeginContainerStop("RESTART")
    /\ rolling' = rolling - 1
    /\ UNCHANGED <<def, proc, restart, watch, image, births>>

RollingTimerReplays ==
    /\ rolling > 0
    /\ def.in_use
    /\ ~def.stopped
    /\ ~entry.running
    /\ RollingRestartReplay(def, rolling - 1, {queued})
    /\ UNCHANGED escalate

-----------------------------------------------------------------------------
(* The roll watch                                                          *)

\* handle_roll_watch_timer_event(); before the deadline it only re-arms itself.
RollWatchIdle ==
    /\ watch
    /\ ~def.in_use \/ def.roll_to = 0 \/ def.roll_deadline = "none"
    /\ watch' = FALSE
    /\ UNCHANGED <<def, entry, proc, restart, rolling, escalate, image, births>>

WindowOver ==
    /\ watch
    /\ def.in_use
    /\ def.roll_to # 0
    /\ def.roll_deadline = "due"

\* Mutated: the window closes and the roll stays on record.
RollConfirmedUnrecorded ==
    /\ WindowOver
    /\ def.stopped \/ (entry.running /\ entry.ready)
    /\ watch' = FALSE
    /\ UNCHANGED <<def, entry, proc, restart, rolling, escalate, image, births>>

RollConfirmed ==
    /\ WindowOver
    /\ def.stopped \/ (entry.running /\ entry.ready)
    /\ def' = ClearRoll(def)
    /\ watch' = FALSE
    /\ UNCHANGED <<entry, proc, restart, rolling, escalate, image, births>>

\* Mutated: the verdict is recorded and the failed version left running.
RollFailedUnrestarted ==
    /\ WindowOver
    /\ ~def.stopped
    /\ ~(entry.running /\ entry.ready)
    /\ def' = RollBack(def)
    /\ MarkFailedRoll(def)
    /\ watch' = FALSE
    /\ UNCHANGED <<entry, proc, restart, rolling, escalate, current, supply,
                   queued, births>>

RollFailed ==
    /\ WindowOver
    /\ ~def.stopped
    /\ ~(entry.running /\ entry.ready)
    /\ def' = RollBack(def)
    /\ MarkFailedRoll(def)
    /\ watch' = FALSE
    /\ rolling' = IF entry.in_use THEN rolling + 1 ELSE rolling
    /\ UNCHANGED <<entry, proc, restart, escalate, current, supply, queued,
                   births>>

-----------------------------------------------------------------------------
(* The pass over the definitions after a package job, and after every exit *)

\* Whether apply_rolling_container_restarts() rolls this container.  Past the
\* bound on its timers the image does not settle.
Rolls(settled) ==
    /\ settled
    /\ rolling < MaxRolling
    /\ def.in_use
    /\ def.policy # "no"
    /\ def.pin \notin {0, current}
    /\ current \notin bad

\* Whether the container is up and ready on the version it was rolled to.
Proven == entry.running /\ entry.ready /\ entry.version = def.roll_to

KnownGood(proven) ==
    IF def.roll_to # 0 /\ ~proven THEN def.roll_from ELSE def.pin

\* The definition apply_rolling_container_restarts() leaves.
Rolled(settled, proven) ==
    IF ~Rolls(settled) THEN def
    ELSE IF ~entry.in_use THEN [def EXCEPT !.pin = current]
    ELSE [def EXCEPT !.pin = current, !.roll_from = KnownGood(proven),
                     !.roll_to = current, !.roll_deadline = "none",
                     !.roll_failures = 0]

ArmRolling(settled) ==
    IF Rolls(settled) /\ entry.in_use THEN rolling + 1 ELSE rolling

\* Whether apply_pending_deployments() tries to create this container.
Pending == def.in_use /\ def.awaiting_image /\ CanRun

\* The definition the pass leaves when it comes with the container's own exit,
\* which finds it registered and down: nothing is proven, and a create refused.
FollowedUp(settled) ==
    [Rolled(settled, FALSE) EXCEPT !.restart_refused = @ \/ Pending]

\* What the pass leaves of the rebuild queue.
Drained == {queued, FALSE}

-----------------------------------------------------------------------------
(* A container exits: handle_container_event(), container_exit_finalize()  *)

Exited ==
    /\ entry.running
    /\ proc \in Gone

\* The completion of a stop or a delete.
ExitOfStop(settled) ==
    /\ Exited
    /\ entry.teardown_kind \in {"STOP", "DELETE"}
    /\ def' = FollowedUp(settled)
    /\ rolling' = ArmRolling(settled)
    /\ queued' \in Drained
    /\ entry' = EmptyEntry
    /\ proc' = "none"
    /\ UNCHANGED <<restart, watch, escalate, current, supply, bad, births>>

\* Mutated: a stop asked for while the container shut down is not looked at.
ExitOfRestartUnchecked(settled) ==
    /\ Exited
    /\ entry.teardown_kind = "RESTART"
    /\ def.in_use
    /\ RollingRestartReplay(FollowedUp(settled), ArmRolling(settled), Drained)
    /\ UNCHANGED escalate

\* The completion of a rolling restart's stop.
ExitOfRestart(settled) ==
    /\ Exited
    /\ entry.teardown_kind = "RESTART"
    /\ def.in_use
    /\ ~def.stopped
    /\ RollingRestartReplay(FollowedUp(settled), ArmRolling(settled), Drained)
    /\ UNCHANGED escalate

\* The same, when a stop came while it was shutting down.
ExitOfRestartStopped(settled) ==
    /\ Exited
    /\ entry.teardown_kind = "RESTART"
    /\ def.stopped
    /\ def' = FollowedUp(settled)
    /\ rolling' = ArmRolling(settled)
    /\ queued' \in Drained
    /\ entry' = EmptyEntry
    /\ proc' = "none"
    /\ UNCHANGED <<restart, watch, escalate, current, supply, bad, births>>

\* An exit nobody asked for, or a FAIL, of a defined container.
ExitByItself ==
    /\ Exited
    /\ entry.teardown_kind \in {"NONE", "FAIL"}
    /\ def.in_use

ShouldRestart ==
    /\ def.policy # "no"
    /\ def.policy = "on-failure" =>
         proc = "failed" \/ entry.teardown_kind = "FAIL"

\* Whether an exit after less than CONTAINER_RESTART_STABILITY_SECONDS counts
\* against the roll of d.
CountsAgainstRoll(d, stable) ==
    /\ d.roll_deadline # "none"
    /\ ~stable
    /\ entry.teardown_kind # "FAIL"

\* Mutated: one unstable exit more than the limit.
FailsRollLate(d) == d.roll_failures >= UnstableExits

\* CONTAINER_ROLLBACK_UNSTABLE_EXITS of them roll it back.
FailsRoll(d) == d.roll_failures + 1 >= UnstableExits

\* The definition an exit leaves that is to be restarted.
ExitCounted(d, stable) ==
    IF ~CountsAgainstRoll(d, stable) THEN d
    ELSE IF FailsRoll(d) THEN RollBack(d)
    ELSE [d EXCEPT !.roll_failures = @ + 1]

ExitRestarts(settled, stable) ==
    LET d == FollowedUp(settled) IN
    /\ ExitByItself
    /\ ShouldRestart
    /\ entry' = EmptyEntry
    /\ proc' = "none"
    /\ restart' = restart + 1
    /\ def' = ExitCounted(d, stable)
    /\ bad' = IF CountsAgainstRoll(d, stable) /\ FailsRoll(d)
              THEN bad \cup {d.roll_to} ELSE bad
    /\ rolling' = ArmRolling(settled)
    /\ queued' \in Drained
    /\ UNCHANGED <<watch, escalate, current, supply, births>>

\* A container that is not restarted stays as its own exited record.
ExitKept(settled) ==
    /\ ExitByItself
    /\ ~ShouldRestart
    /\ entry' = [entry EXCEPT !.running = FALSE, !.teardown_kind = "NONE"]
    /\ proc' = "none"
    /\ def' = FollowedUp(settled)
    /\ rolling' = ArmRolling(settled)
    /\ queued' \in Drained
    /\ UNCHANGED <<restart, watch, escalate, current, supply, bad, births>>

-----------------------------------------------------------------------------
(* A package job finished: try_start_queued_pkg_rebuild()                  *)

JobDone(settled) ==
    /\ ~Pending
    /\ def' = Rolled(settled, Proven)
    /\ rolling' = ArmRolling(settled)
    /\ queued' \in BOOLEAN
    /\ UNCHANGED <<entry, proc, restart, watch, escalate, current, supply, bad,
                   births>>

JobDoneCreates(settled) ==
    /\ Pending
    /\ ~entry.in_use
    /\ CreateFromBody(Rolled(settled, Proven))
    /\ def' = PromotePending(Rolled(settled, Proven))
    /\ rolling' = ArmRolling(settled)
    /\ queued' \in BOOLEAN
    /\ UNCHANGED <<restart, watch, escalate, current, supply, bad>>

\* Refused, by a name in use if by nothing else.
JobDoneRefused(settled) ==
    /\ Pending
    /\ def' = [Rolled(settled, Proven) EXCEPT !.restart_refused = TRUE]
    /\ rolling' = ArmRolling(settled)
    /\ queued' \in BOOLEAN
    /\ UNCHANGED <<entry, proc, restart, watch, escalate, current, supply, bad,
                   births>>

-----------------------------------------------------------------------------
(* A new cixd: after a reboot, or by handover                              *)

\* def_bringup_decision()
BringUp(after_reboot) ==
    IF \/ ~def.in_use
       \/ def.policy = "no" /\ ~def.awaiting_image
    THEN "SKIP"
    ELSE IF def.awaiting_image /\ ~CanRun THEN "AWAIT_IMAGE"
    ELSE IF def.stopped /\ (~after_reboot \/ def.policy = "unless-stopped")
    THEN "SKIP"
    ELSE "START"

\* What a new process reads back from the state file, with the roll watch that
\* rearm_roll_watches() starts again.
Reloaded ==
    [def EXCEPT !.restart_refused = FALSE, !.roll_failures = 0,
                !.roll_deadline = IF def.roll_to # 0 /\ @ = "none"
                                  THEN "open" ELSE @]

\* Mutated: rolls on probation are not watched again.
RearmRollWatchesNone == watch' = FALSE

RearmRollWatches == watch' = (def.roll_to # 0)

NoTimers ==
    /\ rolling' = 0
    /\ escalate' = {}

\* A reboot that leaves the container down: containerdef_autostart_all().
RebootSkips ==
    /\ BringUp(TRUE) \in {"SKIP", "AWAIT_IMAGE"}
    /\ def' = Reloaded
    /\ entry' = EmptyEntry
    /\ proc' = "none"
    /\ restart' = 0
    /\ queued' \in {BringUp(TRUE) = "AWAIT_IMAGE", TRUE}
    /\ NoTimers
    /\ RearmRollWatches
    /\ UNCHANGED <<current, supply, bad, births>>

RebootStarts ==
    /\ BringUp(TRUE) = "START"
    /\ CreateFromBody(def)
    /\ def' = IF def.awaiting_image THEN PromotePending(Reloaded)
              ELSE [Reloaded EXCEPT !.stopped = FALSE]
    /\ restart' = 0
    /\ queued' \in BOOLEAN
    /\ NoTimers
    /\ RearmRollWatches
    /\ UNCHANGED <<current, supply, bad>>

RebootRefused ==
    /\ BringUp(TRUE) = "START"
    /\ CreateRefused
    /\ RestartWasRefused(Reloaded, 0)
    /\ queued' \in BOOLEAN
    /\ NoTimers
    /\ RearmRollWatches
    /\ UNCHANGED <<current, supply, bad>>

\* Mutated: a crash restart that was pending is forgotten.
HandoverForgets ==
    /\ Handovers
    /\ entry.teardown_kind = "NONE"
    /\ def' = Reloaded
    /\ restart' = 0
    /\ queued' \in BOOLEAN
    /\ NoTimers
    /\ RearmRollWatches
    /\ UNCHANGED <<entry, proc, current, supply, bad, births>>

\* cixd replaces itself once handover_quiescent(): containers run on, every
\* timer is gone and handover_watch_all() arms what it can tell is pending.
Handover ==
    /\ Handovers
    /\ entry.teardown_kind = "NONE"
    /\ def' = Reloaded
    /\ restart' = IF ~entry.in_use /\ BringUp(FALSE) = "START" THEN 1 ELSE 0
    /\ queued' \in {~entry.in_use /\ BringUp(FALSE) = "AWAIT_IMAGE", TRUE}
    /\ NoTimers
    /\ RearmRollWatches
    /\ UNCHANGED <<entry, proc, current, supply, bad, births>>

-----------------------------------------------------------------------------
(* The world                                                               *)

\* Pid 1 exits by itself, on request, or by SIGKILL.
ProcessDies ==
    \/ /\ proc = "alive"
       /\ proc' \in Gone
       /\ UNCHANGED <<def, entry, restart, rolling, watch, escalate, image, births>>
    \/ /\ proc = "killed"
       /\ proc' = "failed"
       /\ UNCHANGED <<def, entry, restart, rolling, watch, escalate, image, births>>

\* cix-init's reports make the container ready, or no longer ready.
ReadyChanges ==
    /\ entry.running
    /\ entry' = [entry EXCEPT !.ready = ~@]
    /\ UNCHANGED <<def, proc, restart, rolling, watch, escalate, image, births>>

\* The rollback window of a watched roll passes.
DeadlinePasses ==
    /\ def.roll_deadline = "open"
    /\ def' = [def EXCEPT !.roll_deadline = "due"]
    /\ UNCHANGED <<entry, proc, restart, rolling, watch, escalate, image, births>>

\* A package job gives the image another version, image_record_version().  A
\* version is named by what it holds, so one may come back, and it may carry a
\* package that a failed roll marked.  The job may be one of a chain: what
\* follows a job (PackageJobDone) runs only after the last.
ImageMoves ==
    /\ moves < MaxMoves
    /\ moves' = moves + 1
    /\ current' \in Versions \ {current}
    /\ bad' \in {bad, IF bad = {} THEN {} ELSE bad \cup {current'}}
    /\ UNCHANGED <<def, entry, proc, restart, rolling, watch, escalate, runnable,
                   queued, births>>

\* A mark is cleared by an operator or pruned.
MarkCleared ==
    /\ bad # {}
    /\ bad' = {}
    /\ UNCHANGED <<def, entry, proc, restart, rolling, watch, escalate, current,
                   supply, queued, births>>

-----------------------------------------------------------------------------

Requests ==
    \/ Start \/ StartRefused
    \/ \E policy \in Policies : Create(policy) \/ Deploy(policy)
    \/ StopRunning \/ StopDown
    \/ DeleteRunning \/ DeleteDuringTeardown \/ DeleteDown
    \/ DhcpRestart

RestartTimer ==
    \/ RestartTimerIdle \/ RestartTimerCreates
    \/ RestartTimerRollsBack \/ RestartTimerRefused

RollingTimer == RollingTimerIdle \/ RollingTimerStops \/ RollingTimerReplays

RollWatchTimer == RollWatchIdle \/ RollConfirmed \/ RollFailed

StopEscalationTimer == \E t \in escalate : StopEscalates(t)

ContainerEvent ==
    \E settled \in BOOLEAN :
        \/ ExitOfStop(settled)
        \/ ExitOfRestart(settled) \/ ExitOfRestartStopped(settled)
        \/ \E stable \in BOOLEAN : ExitRestarts(settled, stable)
        \/ ExitKept(settled)

PackageJobDone ==
    \E settled \in BOOLEAN :
        JobDone(settled) \/ JobDoneCreates(settled) \/ JobDoneRefused(settled)

NewDaemon == RebootSkips \/ RebootStarts \/ RebootRefused \/ Handover

World ==
    \/ InterfaceLeaves \/ ProcessDies \/ ReadyChanges
    \/ DeadlinePasses \/ ImageMoves \/ MarkCleared

Next ==
    \/ PackageJobDone
    \/ RestartTimer
    \/ RollingTimer
    \/ RollWatchTimer
    \/ StopEscalationTimer
    \/ ContainerEvent
    \/ NewDaemon
    \/ Requests
    \/ World

Spec == Init /\ [][Next]_vars

\* epoll delivers what is ready, an armed timer expires, time passes, and a
\* process that was sent SIGKILL dies.  Nothing is assumed of requests, of the
\* container's own behaviour, or of package jobs.
FairSpec ==
    /\ Spec
    /\ WF_vars(RollWatchTimer)
    /\ WF_vars(StopEscalationTimer)
    /\ WF_vars(ContainerEvent)
    /\ WF_vars(DeadlinePasses)
    /\ WF_vars(proc = "killed" /\ ProcessDies)

=============================================================================
