---------------------- MODULE ContainerLifecycleProofs ----------------------
(***************************************************************************)
(* Proofs, for every value of the constants, of what                       *)
(* ContainerLifecycleProps says of a container's definition, registry      *)
(* entry and timers.                                                       *)
(***************************************************************************)
EXTENDS ContainerLifecycleProps, TLAPS

-----------------------------------------------------------------------------
(* The helpers keep the types                                              *)

\* Zero is a count of failures.
LEMMA ZeroFailures == 0 \in 0 .. UnstableExits - 1
  BY LifecycleConstants

\* Every version is one that a pin may name.
LEMMA ResolvedType ==
  ASSUME NEW d \in ContainerDef, current \in Versions
  PROVE  Resolved(d) \in Versions
  BY DEF Resolved, ContainerDef, Versions

\* Each rewriting of a definition gives a definition.
LEMMA DefTypes ==
  ASSUME NEW d \in ContainerDef, current \in Versions
  PROVE  /\ Running(d) \in ContainerDef
         /\ ClearRoll(d) \in ContainerDef
         /\ SetStopped(d) \in ContainerDef
         /\ PromotePending(d) \in ContainerDef
         /\ RollBack(d) \in ContainerDef
         /\ StartRollWatch(d) \in ContainerDef
<1>1. Running(d) \in ContainerDef
  BY Zenon DEF Running, ContainerDef
<1>2. ClearRoll(d) \in ContainerDef
  BY Zenon, ZeroFailures DEF ClearRoll, ContainerDef, Deadlines
<1>3. SetStopped(d) \in ContainerDef
  BY Zenon, ZeroFailures DEF SetStopped, ClearRoll, ContainerDef, Deadlines
<1>4. PromotePending(d) \in ContainerDef
  BY Zenon, ResolvedType DEF PromotePending, ContainerDef
<1>5. RollBack(d) \in ContainerDef
  BY Zenon, ZeroFailures DEF RollBack, ClearRoll, ContainerDef, Deadlines
<1>6. StartRollWatch(d) \in ContainerDef
  BY Zenon, ZeroFailures DEF StartRollWatch, ContainerDef, Deadlines
<1> QED
  BY <1>1, <1>2, <1>3, <1>4, <1>5, <1>6

\* The empty slots are slots.
LEMMA EmptyTypes == EmptyDef \in ContainerDef /\ EmptyEntry \in RegistryEntry
  BY ZeroFailures, LifecycleConstants
     DEF EmptyDef, EmptyEntry, ContainerDef, RegistryEntry, AllPolicies, Deadlines,
         Teardowns, Versions

\* A create gives the name a registry entry within the bounds.
LEMMA CreateTypes ==
  ASSUME TypeOK, NEW d \in ContainerDef, CreateFromBody(d)
  PROVE  /\ entry' \in RegistryEntry
         /\ proc' \in Processes
         /\ created' \in 0 .. MaxInc
         /\ clock' \in 0 .. MaxInc
<1>1. Resolved(d) \in Versions
  BY ResolvedType DEF TypeOK
<1>2. created + 1 \in 0 .. MaxInc /\ clock' \in 0 .. MaxInc
  BY LifecycleConstants DEF TypeOK, CreateFromBody
<1>3. created' \in 0 .. MaxInc
  BY <1>2 DEF CreateFromBody
<1>4. entry' \in RegistryEntry
  BY <1>1, <1>2 DEF CreateFromBody, RegistryEntry, Teardowns
<1> QED
  BY <1>2, <1>3, <1>4 DEF CreateFromBody, Processes

\* A refused create empties the slot.
LEMMA RefusedTypes ==
  ASSUME TypeOK, CreateRefused
  PROVE  /\ entry' \in RegistryEntry
         /\ proc' \in Processes
         /\ created' \in 0 .. MaxInc
         /\ clock' \in 0 .. MaxInc
  BY EmptyTypes DEF TypeOK, CreateRefused, Processes

\* A teardown that begins arms a timer of this incarnation.
LEMMA StopTypes ==
  ASSUME TypeOK, NEW kind \in Teardowns, BeginContainerStop(kind)
  PROVE  entry' \in RegistryEntry /\ escalate' \subseteq EscalationTimer
<1>1. entry' \in RegistryEntry
  BY DEF TypeOK, BeginContainerStop, RegistryEntry
<1>2. [started_at |-> entry.started_at, of |-> entry.pid] \in EscalationTimer
  BY DEF TypeOK, RegistryEntry, EscalationTimer
<1> QED
  BY <1>1, <1>2 DEF TypeOK, BeginContainerStop

\* A refusal leaves a definition and a number of timers.
LEMMA WasRefusedTypes ==
  ASSUME NEW d \in ContainerDef, NEW n \in Nat, RestartWasRefused(d, n)
  PROVE  def' \in ContainerDef /\ restart' \in Nat
<1>1. /\ [d EXCEPT !.awaiting_image = TRUE, !.restart_refused = FALSE] \in ContainerDef
      /\ [d EXCEPT !.restart_refused = TRUE] \in ContainerDef
  BY Zenon DEF ContainerDef
<1>2. restart' \in Nat
  BY DEF RestartWasRefused
<1>3. def' \in ContainerDef
  BY <1>1, Zenon DEF RestartWasRefused
<1> QED
  BY <1>2, <1>3

\* The pass after a package job leaves a definition and a number of timers.
LEMMA PassTypes ==
  ASSUME TypeOK, NEW settled \in BOOLEAN, NEW proven \in BOOLEAN
  PROVE  /\ Rolled(settled, proven) \in ContainerDef
         /\ FollowedUp(settled) \in ContainerDef
         /\ ArmRolling(settled) \in Nat
<1>1. ASSUME NEW p \in BOOLEAN PROVE Rolled(settled, p) \in ContainerDef
  <2>1. KnownGood(p) \in Versions \cup {0}
    BY DEF TypeOK, KnownGood, ContainerDef
  <2> QED
    BY ZenonT(60), <2>1, ZeroFailures DEF TypeOK, Rolled, ContainerDef, Deadlines
<1>2. FollowedUp(settled) \in ContainerDef
  <2>1. Rolled(settled, FALSE) \in ContainerDef
    BY Zenon, <1>1
  <2>2. (Rolled(settled, FALSE).restart_refused \/ Pending) \in BOOLEAN
    OBVIOUS
  <2> QED
    BY Zenon, <2>1, <2>2 DEF FollowedUp, ContainerDef
<1>3. ArmRolling(settled) \in Nat
  BY DEF TypeOK, ArmRolling
<1> QED
  BY <1>1, <1>2, <1>3

\* A replay keeps the types of everything it writes.
LEMMA ReplayTypes ==
  ASSUME TypeOK, NEW d \in ContainerDef, NEW r \in Nat, NEW qs \in SUBSET BOOLEAN,
         RollingRestartReplay(d, r, qs)
  PROVE  /\ def' \in ContainerDef
         /\ entry' \in RegistryEntry
         /\ proc' \in Processes
         /\ restart' \in Nat
         /\ rolling' \in Nat
         /\ watch' \in BOOLEAN
         /\ queued' \in BOOLEAN
         /\ bad' \subseteq Versions
         /\ created' \in 0 .. MaxInc
         /\ clock' \in 0 .. MaxInc
         /\ UNCHANGED <<current, supply>>
<1>1. CASE CreateFromBody(d) /\ RollingRestartReplay(d, r, qs)!1
  <2>1. StartRollWatch(Running(d)) \in ContainerDef
    BY DefTypes DEF TypeOK
  <2> QED
    BY <1>1, <2>1, CreateTypes DEF TypeOK
<1>2. CASE RollingRestartReplay(d, r, qs)!2
  <2>1. RollBack(d) \in ContainerDef /\ d.roll_to \in Versions
    BY <1>2, DefTypes DEF TypeOK, ContainerDef
  <2> QED
    BY <1>2, <2>1, RefusedTypes DEF TypeOK, MarkFailedRoll
<1>3. CASE RollingRestartReplay(d, r, qs)!3
  BY Zenon, <1>3, RefusedTypes, WasRefusedTypes DEF TypeOK, MayQueue
<1> QED
  BY Zenon, <1>1, <1>2, <1>3 DEF RollingRestartReplay

-----------------------------------------------------------------------------
(* Every action keeps the types                                            *)

\* Each group of actions keeps every type: the requests,
LEMMA RequestsType ==
  ASSUME TypeOK, Requests
  PROVE  TypeOK'
<1> USE DEF image, supply, births
<1>1. CASE Start
  <2>1. def \in ContainerDef /\ [def EXCEPT !.stopped = FALSE] \in ContainerDef
    BY Zenon DEF TypeOK, ContainerDef
  <2>2. def' \in ContainerDef
    BY <1>1, <2>1, DefTypes DEF TypeOK, Start
  <2> QED
    BY <1>1, <2>1, <2>2, CreateTypes DEF TypeOK, Start
<1>2. CASE StartRefused
  BY <1>2, RefusedTypes DEF TypeOK, StartRefused
<1>3. ASSUME NEW policy \in Policies, Create(policy) PROVE TypeOK'
  <2>1. CreateFromBody(EmptyDef) /\ EmptyDef \in ContainerDef
    BY <1>3, EmptyTypes DEF Create
  <2>2. DefAdded(policy, policy, current) \in ContainerDef
    BY Zenon, LifecycleConstants DEF TypeOK, DefAdded, ContainerDef, AllPolicies
  <2> QED
    BY <1>3, <2>1, <2>2, CreateTypes DEF TypeOK, Create
<1>4. ASSUME NEW policy \in Policies, Deploy(policy) PROVE TypeOK'
  <2>1. DefAdded("no", policy, 0) \in ContainerDef
    BY Zenon, LifecycleConstants DEF TypeOK, DefAdded, ContainerDef, AllPolicies
  <2>2. [DefAdded("no", policy, 0) EXCEPT !.awaiting_image = TRUE] \in ContainerDef
    BY Zenon, <2>1 DEF ContainerDef
  <2> QED
    BY <1>4, <2>2 DEF TypeOK, Deploy
<1>5. CASE StopRunning
  <2>1. def' \in ContainerDef
    BY <1>5, DefTypes DEF TypeOK, StopRunning
  <2>2. entry' \in RegistryEntry /\ escalate' \subseteq EscalationTimer
    BY <1>5, StopTypes DEF TypeOK, StopRunning, Teardowns
  <2> QED
    BY <1>5, <2>1, <2>2 DEF TypeOK, StopRunning
<1>6. CASE StopDown
  BY <1>6, DefTypes, EmptyTypes DEF TypeOK, StopDown
<1>7. CASE DeleteRunning
  BY <1>7, EmptyTypes, StopTypes DEF TypeOK, DeleteRunning, Teardowns
<1>8. CASE DeleteDuringTeardown
  BY <1>8, EmptyTypes DEF TypeOK, DeleteDuringTeardown, RegistryEntry, Teardowns
<1>9. CASE DeleteDown
  BY <1>9, EmptyTypes DEF TypeOK, DeleteDown
<1>10. CASE DhcpRestart
  BY <1>10 DEF TypeOK, DhcpRestart
<1> QED
  BY <1>1, <1>2, <1>3, <1>4, <1>5, <1>6, <1>7, <1>8, <1>9, <1>10 DEF Requests

\* the crash-restart, rolling, roll-watch and stop-escalation timers,
LEMMA TimersType ==
  ASSUME TypeOK, RestartTimer \/ RollingTimer \/ RollWatchTimer \/ StopEscalationTimer
  PROVE  TypeOK'
<1> USE DEF image, supply, births
<1>0. def \in ContainerDef /\ restart \in Nat /\ rolling \in Nat
  BY DEF TypeOK
<1>1. CASE RestartTimerIdle
  BY <1>1 DEF TypeOK, RestartTimerIdle
<1>2. CASE RestartTimerCreates
  <2>1. def' \in ContainerDef
    BY <1>2, DefTypes DEF TypeOK, RestartTimerCreates
  <2> QED
    BY <1>2, <1>0, <2>1, CreateTypes DEF TypeOK, RestartTimerCreates
<1>3. CASE RestartTimerRollsBack
  <2>1. def.roll_to \in Versions /\ def' = RollBack(def)
    BY <1>0, <1>3 DEF RestartTimerRollsBack, ContainerDef
  <2>2. def' \in ContainerDef
    BY <1>0, <2>1, DefTypes DEF TypeOK
  <2> QED
    BY <1>3, <2>1, <2>2, RefusedTypes DEF TypeOK, RestartTimerRollsBack, MarkFailedRoll
<1>4. CASE RestartTimerRefused
  <2>1. restart - 1 \in Nat
    BY <1>0, <1>4 DEF RestartTimerRefused
  <2>2. def' \in ContainerDef /\ restart' \in Nat
    BY <1>0, <1>4, <2>1, WasRefusedTypes DEF RestartTimerRefused
  <2> QED
    BY Zenon, <1>4, <2>2, RefusedTypes DEF TypeOK, RestartTimerRefused, MayQueue
<1>5. CASE RollingTimerIdle
  BY <1>5 DEF TypeOK, RollingTimerIdle
<1>6. CASE RollingTimerStops
  BY <1>6, StopTypes DEF TypeOK, RollingTimerStops, Teardowns
<1>7. CASE RollingTimerReplays
  <2>1. rolling - 1 \in Nat /\ {queued} \in SUBSET BOOLEAN
    BY <1>0, <1>7 DEF TypeOK, RollingTimerReplays
  <2>2. RollingRestartReplay(def, rolling - 1, {queued}) /\ escalate' = escalate
    BY <1>7 DEF RollingTimerReplays
  <2> QED
    BY <1>0, <2>1, <2>2, ReplayTypes DEF TypeOK
<1>8. CASE RollWatchIdle
  BY Zenon, <1>8 DEF TypeOK, RollWatchIdle
<1>9. CASE RollConfirmed
  BY Zenon, <1>9, DefTypes DEF TypeOK, RollConfirmed
<1>10. CASE RollFailed
  <2>1. def.roll_to \in Versions /\ def' = RollBack(def)
    BY <1>0, <1>10 DEF RollFailed, WindowOver, ContainerDef
  <2>2. def' \in ContainerDef
    BY <1>0, <2>1, DefTypes DEF TypeOK
  <2>3. rolling' \in Nat
    BY <1>0, <1>10 DEF RollFailed
  <2>4. bad' \subseteq Versions
    BY <1>10, <2>1 DEF TypeOK, RollFailed, MarkFailedRoll
  <2> QED
    BY Zenon, <1>10, <2>2, <2>3, <2>4 DEF TypeOK, RollFailed
<1>11. ASSUME NEW t \in escalate, StopEscalates(t) PROVE TypeOK'
  BY <1>11 DEF TypeOK, StopEscalates, Processes
<1> QED
  BY <1>1, <1>2, <1>3, <1>4, <1>5, <1>6, <1>7, <1>8, <1>9, <1>10, <1>11
     DEF RestartTimer, RollingTimer, RollWatchTimer, StopEscalationTimer

\* What the pass that comes with an exit leaves alone, and that it closes the
\* window of whatever it rolls.
LEMMA PassFields ==
  ASSUME TypeOK, NEW settled \in BOOLEAN, NEW proven \in BOOLEAN,
         NEW d, d = Rolled(settled, proven) \/ d = FollowedUp(settled)
  PROVE  /\ d.in_use = def.in_use
         /\ d.policy = def.policy
         /\ d.want = def.want
         /\ d.stopped = def.stopped
         /\ d.awaiting_image = def.awaiting_image
         /\ d.roll_deadline # "none" =>
              d.roll_deadline = def.roll_deadline /\ d.roll_to = def.roll_to
<1>1. ASSUME NEW p \in BOOLEAN
      PROVE  LET c == Rolled(settled, p) IN
             /\ c.in_use = def.in_use
             /\ c.policy = def.policy
             /\ c.want = def.want
             /\ c.stopped = def.stopped
             /\ c.awaiting_image = def.awaiting_image
             /\ c.restart_refused = def.restart_refused
             /\ c.roll_deadline # "none" =>
                  c.roll_deadline = def.roll_deadline /\ c.roll_to = def.roll_to
  BY DEF TypeOK, Rolled, ContainerDef
<1>2. CASE d = Rolled(settled, proven)
  BY <1>1, <1>2
<1>3. CASE d = FollowedUp(settled)
  <2>1. Rolled(settled, FALSE) \in ContainerDef
    BY Zenon, PassTypes
  <2> QED
    BY Zenon, <1>1, <1>3, <2>1 DEF FollowedUp, ContainerDef
<1> QED
  BY <1>2, <1>3

\* a container's exit, with the pass over the definitions that follows it,
LEMMA ExitsType ==
  ASSUME TypeOK, WindowIsWatched, ContainerEvent
  PROVE  TypeOK'
<1> USE DEF image, supply, births
<1>1. PICK settled \in BOOLEAN :
        \/ ExitOfStop(settled) \/ ExitOfRestart(settled) \/ ExitOfRestartStopped(settled)
        \/ \E stable \in BOOLEAN : ExitRestarts(settled, stable)
        \/ ExitKept(settled)
  BY DEF ContainerEvent
<1> DEFINE d == FollowedUp(settled)
<1>2. d \in ContainerDef /\ ArmRolling(settled) \in Nat /\ Drained \in SUBSET BOOLEAN
  BY PassTypes DEF TypeOK, Drained
<1>3. CASE ExitOfStop(settled)
  BY Zenon, <1>2, <1>3, EmptyTypes DEF TypeOK, ExitOfStop, Processes
<1>4. CASE ExitOfRestart(settled)
  <2>1. RollingRestartReplay(d, ArmRolling(settled), Drained) /\ escalate' = escalate
    BY <1>4 DEF ExitOfRestart
  <2> QED
    BY <1>2, <2>1, ReplayTypes DEF TypeOK
<1>5. CASE ExitOfRestartStopped(settled)
  BY <1>2, <1>5, EmptyTypes DEF TypeOK, ExitOfRestartStopped, Processes
<1>6. ASSUME NEW stable \in BOOLEAN, ExitRestarts(settled, stable) PROVE TypeOK'
  <2>1. CountsAgainstRoll(d, stable) => d.roll_to \in Versions
    <3>1. d.roll_deadline # "none" => d.roll_to # 0
      BY PassFields DEF WindowIsWatched
    <3> QED
      BY <1>2, <3>1 DEF CountsAgainstRoll, ContainerDef
  <2>2. ExitCounted(d, stable) \in ContainerDef
    <3>1. ~FailsRoll(d) => [d EXCEPT !.roll_failures = @ + 1] \in ContainerDef
      BY <1>2, LifecycleConstants DEF FailsRoll, ContainerDef
    <3>2. RollBack(d) \in ContainerDef
      BY <1>2, DefTypes DEF TypeOK
    <3> HIDE DEF d
    <3> QED
      BY <1>2, <3>1, <3>2 DEF ExitCounted
  <2>3. def' \in ContainerDef
    BY <1>6, <2>2 DEF ExitRestarts
  <2>4. bad' \subseteq Versions
    BY <1>6, <2>1 DEF TypeOK, ExitRestarts
  <2>5. /\ entry' = EmptyEntry /\ proc' = "none" /\ restart' = restart + 1
        /\ rolling' = ArmRolling(settled) /\ queued' \in Drained
        /\ UNCHANGED <<watch, escalate, current, supply, births>>
    BY <1>6 DEF ExitRestarts
  <2> QED
    BY <1>2, <2>3, <2>4, <2>5, EmptyTypes DEF TypeOK, Processes
<1>7. CASE ExitKept(settled)
  <2>1. entry' \in RegistryEntry
    BY Zenon, <1>7 DEF TypeOK, ExitKept, RegistryEntry, Teardowns
  <2> QED
    BY <1>2, <1>7, <2>1 DEF TypeOK, ExitKept, Processes
<1> QED
  BY <1>1, <1>3, <1>4, <1>5, <1>6, <1>7

\* the end of a package job,
LEMMA JobsType ==
  ASSUME TypeOK, PackageJobDone
  PROVE  TypeOK'
<1> USE DEF image, supply, births
<1>1. PICK settled \in BOOLEAN :
        JobDone(settled) \/ JobDoneCreates(settled) \/ JobDoneRefused(settled)
  BY DEF PackageJobDone
<1> DEFINE d == Rolled(settled, Proven)
<1>2. d \in ContainerDef /\ ArmRolling(settled) \in Nat
  BY Zenon, PassTypes DEF Proven, TypeOK, RegistryEntry
<1>3. CASE JobDone(settled)
  BY Zenon, <1>2, <1>3 DEF TypeOK, JobDone
<1>4. CASE JobDoneCreates(settled)
  <2>1. PromotePending(d) \in ContainerDef
    BY <1>2, DefTypes DEF TypeOK
  <2>2. CreateFromBody(d)
    BY <1>4 DEF JobDoneCreates
  <2> QED
    BY <1>2, <1>4, <2>1, <2>2, CreateTypes DEF TypeOK, JobDoneCreates
<1>5. CASE JobDoneRefused(settled)
  <2>1. [d EXCEPT !.restart_refused = TRUE] \in ContainerDef
    BY Zenon, <1>2 DEF ContainerDef
  <2> QED
    BY <1>2, <1>5, <2>1 DEF TypeOK, JobDoneRefused
<1> QED
  BY <1>1, <1>3, <1>4, <1>5

\* What a new process reads back is a definition, and only a roll has a window.
LEMMA ReloadedFields ==
  ASSUME TypeOK
  PROVE  /\ Reloaded \in ContainerDef
         /\ Reloaded.in_use = def.in_use
         /\ Reloaded.policy = def.policy
         /\ Reloaded.want = def.want
         /\ Reloaded.stopped = def.stopped
         /\ Reloaded.awaiting_image = def.awaiting_image
         /\ Reloaded.restart_refused = FALSE
         /\ Reloaded.roll_to = def.roll_to
         /\ Reloaded.roll_deadline # "none" =>
              def.roll_deadline # "none" \/ def.roll_to # 0
  BY ZenonT(60), ZeroFailures DEF TypeOK, Reloaded, ContainerDef, Deadlines

\* a new cixd after a reboot or a handover,
LEMMA NewDaemonType ==
  ASSUME TypeOK, NewDaemon
  PROVE  TypeOK'
<1> USE DEF image, supply, births, NoTimers, RearmRollWatches
<1>1. Reloaded \in ContainerDef /\ def \in ContainerDef
  BY Zenon, ReloadedFields DEF TypeOK
<1>2. CASE RebootSkips
  BY Zenon, <1>1, <1>2, EmptyTypes DEF TypeOK, RebootSkips, Processes
<1>3. CASE RebootStarts
  <2>1. /\ PromotePending(Reloaded) \in ContainerDef
        /\ [Reloaded EXCEPT !.stopped = FALSE] \in ContainerDef
    BY ZenonT(60), <1>1, DefTypes DEF TypeOK, ContainerDef
  <2>2. def' \in ContainerDef
    BY <1>3, <2>1, Zenon DEF RebootStarts
  <2>3. CreateFromBody(def)
    BY <1>3 DEF RebootStarts
  <2> QED
    BY <1>1, <1>3, <2>2, <2>3, CreateTypes DEF TypeOK, RebootStarts
<1>4. CASE RebootRefused
  <2>1. def' \in ContainerDef /\ restart' \in Nat
    BY <1>1, <1>4, WasRefusedTypes DEF RebootRefused
  <2> QED
    BY Zenon, <1>4, <2>1, RefusedTypes DEF TypeOK, RebootRefused
<1>5. CASE Handover
  BY Zenon, <1>1, <1>5 DEF TypeOK, Handover
<1> QED
  BY <1>2, <1>3, <1>4, <1>5 DEF NewDaemon

\* and what happens around cixd.
LEMMA WorldType ==
  ASSUME TypeOK, World
  PROVE  TypeOK'
<1> USE DEF image, supply, births
<1>1. CASE InterfaceLeaves
  BY Zenon, <1>1, StopTypes DEF TypeOK, InterfaceLeaves, Teardowns
<1>2. CASE ProcessDies
  BY <1>2 DEF TypeOK, ProcessDies, Processes, Gone
<1>3. CASE ReadyChanges
  BY Zenon, <1>3 DEF TypeOK, ReadyChanges, RegistryEntry
<1>4. CASE DeadlinePasses
  BY <1>4 DEF TypeOK, DeadlinePasses, ContainerDef, Deadlines
<1>5. CASE ImageMoves
  <2>1. current' \in Versions
    BY Zenon, <1>5 DEF ImageMoves
  <2>2. moves' \in 0 .. MaxMoves
    BY <1>5, LifecycleConstants DEF TypeOK, ImageMoves
  <2>3. bad' \subseteq Versions
    BY <1>5, <2>1 DEF TypeOK, ImageMoves
  <2> QED
    BY <1>5, <2>1, <2>2, <2>3 DEF TypeOK, ImageMoves
<1>6. CASE MarkCleared
  BY <1>6 DEF TypeOK, MarkCleared
<1> QED
  BY Zenon, <1>1, <1>2, <1>3, <1>4, <1>5, <1>6 DEF World

\* Every step keeps the types; an exit on probation needs to know that a window
\* belongs to a roll, or what it marks would be no version.
LEMMA TypeStep ==
  ASSUME TypeOK, WindowIsWatched, [Next]_vars
  PROVE  TypeOK'
<1>1. CASE Next
  BY <1>1, RequestsType, TimersType, ExitsType, JobsType, NewDaemonType, WorldType
     DEF Next
<1>2. CASE UNCHANGED vars
  BY <1>2 DEF TypeOK, vars
<1> QED
  BY <1>1, <1>2

\* The initial state is typed.
LEMMA InitType == Init => TypeOK
<1>1. 1 \in Versions /\ 0 \in 0 .. MaxInc /\ 0 \in 0 .. MaxMoves
  BY LifecycleConstants DEF Versions
<1> SUFFICES ASSUME Init PROVE TypeOK
  OBVIOUS
<1>2. def \in ContainerDef /\ entry \in RegistryEntry
  BY EmptyTypes, Zenon DEF Init
<1>3. /\ proc \in Processes /\ restart \in Nat /\ rolling \in Nat /\ watch \in BOOLEAN
      /\ escalate \subseteq EscalationTimer /\ queued \in BOOLEAN
  BY Zenon DEF Init, Processes
<1>4. /\ current \in Versions /\ runnable \subseteq Versions /\ bad \subseteq Versions
      /\ moves \in 0 .. MaxMoves /\ created \in 0 .. MaxInc /\ clock \in 0 .. MaxInc
  BY Zenon, <1>1 DEF Init
<1> QED
  BY <1>2, <1>3, <1>4 DEF TypeOK

-----------------------------------------------------------------------------
(* Every action keeps LInv                                                 *)

\* The fields of the empty slots.
LEMMA EmptyFields ==
  /\ ~EmptyEntry.in_use /\ ~EmptyEntry.running /\ EmptyEntry.teardown_kind = "NONE"
  /\ ~EmptyDef.in_use /\ ~EmptyDef.stopped /\ ~EmptyDef.awaiting_image
  /\ ~EmptyDef.restart_refused /\ EmptyDef.policy = "no"
  /\ EmptyDef.roll_to = 0 /\ EmptyDef.roll_deadline = "none"
  BY DEF EmptyEntry, EmptyDef

\* What the rewritings of a definition do to the fields LInv speaks of.
LEMMA RunningFields ==
  ASSUME NEW d \in ContainerDef, NEW e, e = Running(d)
  PROVE  /\ e \in ContainerDef /\ ~e.restart_refused
         /\ e.in_use = d.in_use /\ e.stopped = d.stopped
         /\ e.awaiting_image = d.awaiting_image /\ e.policy = d.policy
         /\ e.roll_to = d.roll_to /\ e.roll_deadline = d.roll_deadline
  BY Zenon DEF ContainerDef, Running

\* A roll that is over leaves no window, and nothing else changes.
LEMMA ClearRollFields ==
  ASSUME NEW d \in ContainerDef, NEW e, e = ClearRoll(d) \/ e = RollBack(d)
  PROVE  /\ e.roll_deadline = "none" /\ e.in_use = d.in_use
         /\ e.stopped = d.stopped /\ e.awaiting_image = d.awaiting_image
         /\ e.restart_refused = d.restart_refused /\ e.policy = d.policy
  BY ZenonT(60) DEF ContainerDef, RollBack, ClearRoll

\* A pending deployment that came up is neither stopped nor refused.
LEMMA PromoteFields ==
  ASSUME NEW d \in ContainerDef, NEW e, e = PromotePending(d)
  PROVE  /\ e.in_use = d.in_use /\ ~e.stopped /\ ~e.restart_refused
         /\ e.roll_to = d.roll_to /\ e.roll_deadline = d.roll_deadline
  BY DEF ContainerDef, PromotePending

\* Opening the window of a roll changes nothing but the window.
LEMMA WatchFields ==
  ASSUME NEW d \in ContainerDef, NEW e, e = StartRollWatch(d)
  PROVE  /\ e.in_use = d.in_use /\ e.stopped = d.stopped
         /\ e.restart_refused = d.restart_refused /\ e.roll_to = d.roll_to
         /\ d.roll_to = 0 => e.roll_deadline = d.roll_deadline
  BY DEF ContainerDef, StartRollWatch

\* A stopped definition is not refused and has no roll on probation.
LEMMA StoppedFields ==
  ASSUME NEW d \in ContainerDef, NEW e, e = SetStopped(d)
  PROVE  /\ d.in_use => /\ e.in_use /\ e.stopped /\ ~e.restart_refused
                        /\ e.policy = d.policy /\ e.roll_deadline = "none"
         /\ ~d.in_use => e = d
  BY DEF ContainerDef, ClearRoll, SetStopped

\* A container that has just come up, wanted and with its window watched.
LEMMA Up ==
  ASSUME NEW d \in ContainerDef, CreateFromBody(d),
         def'.in_use, ~def'.stopped, ~def'.restart_refused,
         def'.roll_deadline # "none" => def'.roll_to # 0 /\ watch'
  PROVE  LInv'
<1>1. /\ entry'.in_use /\ entry'.running /\ entry'.teardown_kind = "NONE"
      /\ proc' = "alive"
  BY Zenon DEF CreateFromBody
<1> QED
  BY Zenon, <1>1 DEF LInv, SlotsAreWhole, TeardownAgrees, KeptMayStayDown, RefusedIsDown,
     NoOrphan, RunningIsWanted, NoLostRestart, RefusedIsRetried, StopIsBounded,
     WindowIsWatched

\* A container that is down, with something to bring it back if it is wanted.
LEMMA Down ==
  ASSUME entry' = EmptyEntry, proc' = "none",
         ~def'.in_use => def' = EmptyDef,
         NoLostRestart', RefusedIsRetried', WindowIsWatched'
  PROVE  LInv'
  BY EmptyFields DEF LInv, SlotsAreWhole, TeardownAgrees, KeptMayStayDown,
     RefusedIsDown, NoOrphan, RunningIsWanted, StopIsBounded

\* Each group of actions keeps LInv: the requests,
LEMMA RequestsStep ==
  ASSUME TypeOK, LInv, Requests
  PROVE  LInv'
<1>0. def \in ContainerDef /\ entry \in RegistryEntry
  BY DEF TypeOK
<1>1. CASE Start
  <2> DEFINE e == [def EXCEPT !.stopped = FALSE]
  <2>1. /\ e \in ContainerDef /\ ~e.stopped /\ e.in_use = def.in_use
        /\ e.roll_to = def.roll_to /\ e.roll_deadline = def.roll_deadline
    BY Zenon, <1>0 DEF ContainerDef
  <2>2. CreateFromBody(def) /\ def.in_use /\ watch' = watch /\ def' = Running(e)
    BY <1>1 DEF Start
  <2> HIDE DEF e
  <2>3. /\ def'.in_use /\ ~def'.stopped /\ ~def'.restart_refused
        /\ def'.roll_deadline # "none" => def'.roll_to # 0 /\ watch'
    BY Zenon, <2>1, <2>2, RunningFields DEF LInv, WindowIsWatched
  <2> QED
    BY <1>0, <2>2, <2>3, Up
<1>2. CASE StartRefused
  <2>1. entry' = EmptyEntry /\ proc' = "none"
    BY <1>2 DEF StartRefused, CreateRefused
  <2>2. def' = def /\ restart' = restart /\ rolling' = rolling /\ watch' = watch
    BY <1>2 DEF StartRefused
  <2>3. ~entry.running
    BY Zenon, <1>2 DEF StartRefused
  <2>4. NoLostRestart' /\ RefusedIsRetried' /\ WindowIsWatched'
    BY Zenon, <2>2, <2>3 DEF LInv, KeptMayStayDown, NoLostRestart, RefusedIsRetried,
       WindowIsWatched
  <2> QED
    BY <2>1, <2>2, <2>4, Down DEF LInv, SlotsAreWhole
<1>3. ASSUME NEW policy \in Policies, Create(policy) PROVE LInv'
  <2>1. /\ CreateFromBody(EmptyDef) /\ watch' = watch
        /\ def' = DefAdded(policy, policy, current)
    BY <1>3 DEF Create
  <2>2. /\ def'.in_use /\ ~def'.stopped /\ ~def'.restart_refused
        /\ def'.roll_deadline # "none" => def'.roll_to # 0 /\ watch'
    BY <1>0, <2>1 DEF DefAdded, ContainerDef, LInv, WindowIsWatched
  <2> QED
    BY <2>1, <2>2, EmptyTypes, Up
<1>4. ASSUME NEW policy \in Policies, Deploy(policy) PROVE LInv'
  <2>1. /\ def'.in_use /\ def'.awaiting_image
        /\ def'.roll_deadline # "none" => def'.roll_to # 0 /\ watch'
    BY <1>0, <1>4 DEF Deploy, DefAdded, ContainerDef, LInv, WindowIsWatched
  <2>2. entry' = entry /\ proc' = proc /\ entry = EmptyEntry
    BY <1>4 DEF Deploy, LInv, SlotsAreWhole
  <2>3. proc' = "none"
    BY Zenon, <2>2, EmptyFields DEF LInv, SlotsAreWhole
  <2>4. NoLostRestart' /\ RefusedIsRetried' /\ WindowIsWatched'
    BY <2>1 DEF LInv, NoLostRestart, RefusedIsRetried, WindowIsWatched
  <2> QED
    BY <2>1, <2>2, <2>3, <2>4, Down
<1>5. CASE StopRunning
  <2>1. /\ entry.running /\ proc' = proc /\ UNCHANGED <<restart, rolling, watch>>
        /\ def' = SetStopped(def)
    BY Zenon, <1>5 DEF StopRunning
  <2>2. CASE entry.teardown_kind = "NONE"
    <3>1. /\ entry' = [entry EXCEPT !.teardown_kind = "STOP"]
          /\ [started_at |-> entry.started_at, of |-> entry.pid] \in escalate'
      BY <1>5, <2>2 DEF StopRunning, BeginContainerStop
    <3>2. /\ entry'.in_use = entry.in_use /\ entry'.running = entry.running
          /\ entry'.teardown_kind = "STOP" /\ entry'.pid = entry.pid
          /\ entry'.started_at = entry.started_at
      BY <1>0, <3>1 DEF RegistryEntry
    <3>3. StopIsBounded'
      BY <2>1, <3>1, <3>2 DEF Escalates, LInv, StopIsBounded
    <3>4. def.in_use
      BY <2>1, <2>2 DEF LInv, SlotsAreWhole, WindowIsWatched, NoOrphan, TeardownAgrees
    <3> QED
      BY <1>0, <2>1, <3>2, <3>3, <3>4, StoppedFields DEF LInv, SlotsAreWhole, TeardownAgrees,
         KeptMayStayDown, RefusedIsDown, NoOrphan, RunningIsWanted, NoLostRestart,
         RefusedIsRetried, WindowIsWatched
  <2>3. CASE entry.teardown_kind # "NONE"
    <3>1. entry' = entry /\ escalate' = escalate
      BY Zenon, <1>5, <2>3 DEF StopRunning
    <3>2. StopIsBounded'
      BY Zenon, <2>1, <3>1 DEF Escalates, LInv, StopIsBounded
    <3>3. CASE def.in_use
      BY ZenonT(60), <1>0, <2>1, <2>3, <3>1, <3>2, <3>3, StoppedFields DEF LInv, SlotsAreWhole,
         TeardownAgrees, KeptMayStayDown, RefusedIsDown, NoOrphan, RunningIsWanted,
         NoLostRestart, RefusedIsRetried, WindowIsWatched
    <3>4. CASE ~def.in_use
      BY <1>0, <2>1, <2>3, <3>1, <3>2, <3>4, StoppedFields DEF LInv, SlotsAreWhole,
         TeardownAgrees, KeptMayStayDown, RefusedIsDown, NoOrphan, RunningIsWanted,
         NoLostRestart, RefusedIsRetried, WindowIsWatched
    <3> QED
      BY <3>3, <3>4
  <2> QED
    BY <2>2, <2>3
<1>6. CASE StopDown
  <2>1. /\ ~entry.running /\ def.in_use /\ def' = SetStopped(def) /\ entry' = EmptyEntry
        /\ proc' = "none"
    BY Zenon, <1>6 DEF StopDown, LInv, SlotsAreWhole
  <2>2. NoLostRestart' /\ RefusedIsRetried' /\ WindowIsWatched' /\ def'.in_use
    BY Zenon, <1>0, <2>1, StoppedFields DEF LInv, NoLostRestart, RefusedIsRetried,
       WindowIsWatched
  <2> QED
    BY <2>1, <2>2, Down
<1>7. CASE DeleteRunning
  <2>1. /\ entry' = [entry EXCEPT !.teardown_kind = "DELETE"]
        /\ [started_at |-> entry.started_at, of |-> entry.pid] \in escalate'
        /\ entry.running /\ proc' = proc /\ def' = EmptyDef
    BY <1>7 DEF DeleteRunning, BeginContainerStop
  <2>2. /\ entry'.in_use = entry.in_use /\ entry'.running = entry.running
        /\ entry'.teardown_kind = "DELETE" /\ entry'.pid = entry.pid
        /\ entry'.started_at = entry.started_at
    BY Zenon, <1>0, <2>1 DEF RegistryEntry
  <2>3. StopIsBounded'
    BY <2>1, <2>2 DEF Escalates, LInv, StopIsBounded
  <2> QED
    BY <2>1, <2>2, <2>3, EmptyFields DEF LInv, SlotsAreWhole, TeardownAgrees, KeptMayStayDown,
       RefusedIsDown, NoOrphan, RunningIsWanted, NoLostRestart, RefusedIsRetried,
       WindowIsWatched
<1>8. CASE DeleteDuringTeardown
  <2>1. /\ entry' = [entry EXCEPT !.teardown_kind = "DELETE"]
        /\ entry.running /\ proc' = proc /\ def' = EmptyDef /\ escalate' = escalate
        /\ entry.teardown_kind # "NONE"
    BY <1>8 DEF DeleteDuringTeardown
  <2>2. /\ entry'.in_use = entry.in_use /\ entry'.running = entry.running
        /\ entry'.teardown_kind = "DELETE" /\ entry'.pid = entry.pid
        /\ entry'.started_at = entry.started_at
    BY Zenon, <1>0, <2>1 DEF RegistryEntry
  <2>3. StopIsBounded'
    BY Zenon, <2>1, <2>2 DEF Escalates, LInv, StopIsBounded
  <2> QED
    BY <2>1, <2>2, <2>3, EmptyFields DEF LInv, SlotsAreWhole, TeardownAgrees, KeptMayStayDown,
       RefusedIsDown, NoOrphan, RunningIsWanted, NoLostRestart, RefusedIsRetried,
       WindowIsWatched
<1>9. CASE DeleteDown
  <2>1. entry' = EmptyEntry /\ proc' = "none" /\ def' = EmptyDef
    BY Zenon, <1>9 DEF DeleteDown, LInv, SlotsAreWhole
  <2> QED
    BY <2>1, EmptyFields, Down DEF NoLostRestart, RefusedIsRetried, WindowIsWatched
<1>10. CASE DhcpRestart
  <2>1. /\ UNCHANGED <<def, entry, proc, restart, watch, escalate>>
        /\ entry.running
    BY <1>10 DEF DhcpRestart
  <2>2. StopIsBounded'
    BY <2>1 DEF Escalates, LInv, StopIsBounded
  <2> QED
    BY <2>1, <2>2 DEF LInv, SlotsAreWhole, TeardownAgrees, KeptMayStayDown, RefusedIsDown,
       NoOrphan, RunningIsWanted, NoLostRestart, RefusedIsRetried, WindowIsWatched
<1> QED
  BY <1>1, <1>2, <1>3, <1>4, <1>5, <1>6, <1>7, <1>8, <1>9, <1>10 DEF Requests

\* A refusal leaves a timer or an awaited image behind.
LEMMA WasRefusedFields ==
  ASSUME NEW d \in ContainerDef, NEW n \in Nat, RestartWasRefused(d, n)
  PROVE  /\ def'.in_use = d.in_use /\ def'.stopped = d.stopped
         /\ def'.policy = d.policy /\ def'.roll_to = d.roll_to
         /\ def'.roll_deadline = d.roll_deadline
         /\ def'.awaiting_image \/ restart' > 0
<1>1. CASE RestartWasRefused(d, n)!1
  BY <1>1 DEF ContainerDef
<1>2. CASE RestartWasRefused(d, n)!2
  BY <1>2 DEF ContainerDef
<1> QED
  BY <1>1, <1>2 DEF RestartWasRefused

\* A definition that is refused and not rolled stays looked after.
LEMMA RefusedDown ==
  ASSUME NEW d \in ContainerDef, NEW n \in Nat, d.in_use, CreateRefused,
         RestartWasRefused(d, n),
         d.roll_deadline # "none" => d.roll_to # 0 /\ watch'
  PROVE  LInv'
<1>1. entry' = EmptyEntry /\ proc' = "none"
  BY Zenon DEF CreateRefused
<1>2. NoLostRestart' /\ RefusedIsRetried' /\ WindowIsWatched' /\ def'.in_use
  BY Zenon, WasRefusedFields DEF NoLostRestart, RefusedIsRetried, WindowIsWatched
<1> QED
  BY <1>1, <1>2, Down

\* A replay of a wanted definition: up, or down and looked after.
LEMMA ReplayStep ==
  ASSUME TypeOK, NEW d \in ContainerDef, NEW r \in Nat, NEW qs,
         d.in_use, ~d.stopped, d.roll_deadline # "none" => d.roll_to # 0 /\ watch,
         RollingRestartReplay(d, r, qs)
  PROVE  LInv'
<1>1. CASE RollingRestartReplay(d, r, qs)!1
  <2>1. PICK e \in ContainerDef : e = Running(d)
    BY RunningFields
  <2>2. def' = StartRollWatch(e) /\ watch' = (watch \/ d.roll_to # 0)
    BY Zenon, <1>1, <2>1
  <2>3. /\ e.in_use /\ ~e.stopped /\ ~e.restart_refused /\ e.roll_to = d.roll_to
        /\ e.roll_deadline = d.roll_deadline
    BY ZenonT(60), <2>1, RunningFields
  <2>4. /\ def'.in_use /\ ~def'.stopped /\ ~def'.restart_refused
        /\ def'.roll_to = d.roll_to
        /\ d.roll_to = 0 => def'.roll_deadline = d.roll_deadline
    BY <2>2, <2>3, WatchFields
  <2>5. def'.roll_deadline # "none" => def'.roll_to # 0 /\ watch'
    BY Zenon, <2>2, <2>4
  <2> QED
    BY Zenon, <1>1, <2>4, <2>5, Up
<1>2. CASE RollingRestartReplay(d, r, qs)!2
  <2>1. entry' = EmptyEntry /\ proc' = "none" /\ def' = RollBack(d) /\ rolling' > 0
    BY <1>2 DEF CreateRefused
  <2>2. def'.roll_deadline = "none" /\ def'.in_use
    BY Zenon, <2>1, ClearRollFields
  <2> QED
    BY Zenon, <2>1, <2>2, Down DEF NoLostRestart, RefusedIsRetried, WindowIsWatched
<1>3. CASE RollingRestartReplay(d, r, qs)!3
  <2>1. CreateRefused /\ RestartWasRefused(d, restart) /\ watch' = watch
    BY <1>3
  <2> QED
    BY <2>1, RefusedDown DEF TypeOK
<1> QED
  BY Zenon, <1>1, <1>2, <1>3 DEF RollingRestartReplay

\* the timers,
LEMMA TimersStep ==
  ASSUME TypeOK, LInv, RestartTimer \/ RollingTimer \/ RollWatchTimer \/ StopEscalationTimer
  PROVE  LInv'
<1>0. /\ def \in ContainerDef /\ entry \in RegistryEntry
      /\ restart \in Nat /\ rolling \in Nat
  BY Zenon DEF TypeOK
<1>1. CASE RestartTimerIdle
  <2>1. UNCHANGED <<def, entry, proc, rolling, watch, escalate>> /\ ~RestartWanted
    BY Zenon, <1>1 DEF RestartTimerIdle
  <2>2. StopIsBounded'
    BY Zenon, <2>1 DEF Escalates, LInv, StopIsBounded
  <2>3. NoLostRestart' /\ RefusedIsRetried'
    BY Zenon, <2>1, EmptyFields DEF RestartWanted, LInv, SlotsAreWhole, RefusedIsDown,
       NoLostRestart, RefusedIsRetried
  <2> QED
    BY <2>1, <2>2, <2>3 DEF LInv, SlotsAreWhole, TeardownAgrees, KeptMayStayDown, RefusedIsDown,
       NoOrphan, RunningIsWanted, WindowIsWatched
<1>2. CASE RestartTimerCreates
  <2>1. /\ CreateFromBody(def) /\ def' = Running(def) /\ watch' = watch
        /\ def.in_use /\ ~def.stopped
    BY Zenon, <1>2 DEF RestartTimerCreates, RestartWanted
  <2>2. /\ def'.in_use /\ ~def'.stopped /\ ~def'.restart_refused
        /\ def'.roll_deadline # "none" => def'.roll_to # 0 /\ watch'
    BY Zenon, <1>0, <2>1, RunningFields DEF LInv, WindowIsWatched
  <2> QED
    BY <1>0, <2>1, <2>2, Up
<1>3. CASE RestartTimerRollsBack
  <2>1. /\ entry' = EmptyEntry /\ proc' = "none" /\ def' = RollBack(def)
        /\ restart' > 0 /\ def.in_use
    BY Zenon, <1>3 DEF RestartTimerRollsBack, CreateRefused, RestartWanted
  <2>2. def'.roll_deadline = "none" /\ def'.in_use
    BY Zenon, <1>0, <2>1, ClearRollFields
  <2>3. NoLostRestart' /\ RefusedIsRetried' /\ WindowIsWatched'
    BY Zenon, <2>1, <2>2 DEF LInv, NoLostRestart, RefusedIsRetried, WindowIsWatched
  <2> QED
    BY Zenon, <2>1, <2>2, <2>3, Down
<1>4. CASE RestartTimerRefused
  <2>1. /\ CreateRefused /\ RestartWasRefused(def, restart - 1) /\ def.in_use
        /\ watch' = watch /\ restart > 0
    BY Zenon, <1>4 DEF RestartTimerRefused, RestartWanted
  <2>2. restart - 1 \in Nat
    BY SMTT(30), <1>0, <2>1
  <2> QED
    BY Zenon, <1>0, <2>1, <2>2, RefusedDown DEF LInv, WindowIsWatched
<1>5. CASE RollingTimerIdle
  <2>1. /\ UNCHANGED <<def, entry, proc, restart, watch, escalate>>
        /\ ~def.in_use \/ def.stopped
    BY Zenon, <1>5 DEF RollingTimerIdle
  <2>2. StopIsBounded'
    BY Zenon, <2>1 DEF Escalates, LInv, StopIsBounded
  <2>3. NoLostRestart' /\ RefusedIsRetried'
    BY <2>1, EmptyFields DEF LInv, SlotsAreWhole, NoLostRestart, RefusedIsRetried
  <2> QED
    BY <2>1, <2>2, <2>3 DEF LInv, SlotsAreWhole, TeardownAgrees, KeptMayStayDown, RefusedIsDown,
       NoOrphan, RunningIsWanted, WindowIsWatched
<1>6. CASE RollingTimerStops
  <2>1. /\ entry' = [entry EXCEPT !.teardown_kind = "RESTART"]
        /\ [started_at |-> entry.started_at, of |-> entry.pid] \in escalate'
        /\ entry.running /\ UNCHANGED <<def, proc, restart, watch>> /\ def.in_use
    BY <1>6 DEF RollingTimerStops, BeginContainerStop
  <2>2. /\ entry'.in_use = entry.in_use /\ entry'.running = entry.running
        /\ entry'.teardown_kind = "RESTART" /\ entry'.pid = entry.pid
        /\ entry'.started_at = entry.started_at
    BY Zenon, <1>0, <2>1 DEF RegistryEntry
  <2>3. StopIsBounded'
    BY Zenon, <2>1, <2>2 DEF Escalates, LInv, StopIsBounded
  <2> QED
    BY <2>1, <2>2, <2>3 DEF LInv, SlotsAreWhole, TeardownAgrees, KeptMayStayDown, RefusedIsDown,
       NoOrphan, RunningIsWanted, NoLostRestart, RefusedIsRetried, WindowIsWatched
<1>7. CASE RollingTimerReplays
  <2>1. /\ RollingRestartReplay(def, rolling - 1, {queued})
        /\ def.in_use /\ ~def.stopped /\ rolling > 0
    BY Zenon, <1>7 DEF RollingTimerReplays
  <2>2. rolling - 1 \in Nat
    BY SMTT(30), <1>0, <2>1
  <2> QED
    BY Zenon, <1>0, <2>1, <2>2, ReplayStep DEF LInv, WindowIsWatched
<1>8. CASE RollWatchIdle
  <2>1. /\ UNCHANGED <<def, entry, proc, restart, rolling, escalate>>
        /\ ~def.in_use \/ def.roll_to = 0 \/ def.roll_deadline = "none"
    BY Zenon, <1>8 DEF RollWatchIdle
  <2>2. StopIsBounded'
    BY Zenon, <2>1 DEF Escalates, LInv, StopIsBounded
  <2>3. WindowIsWatched'
    BY Zenon, <2>1, EmptyFields DEF LInv, SlotsAreWhole, WindowIsWatched, NoOrphan,
       TeardownAgrees
  <2> QED
    BY <2>1, <2>2, <2>3 DEF LInv, SlotsAreWhole, TeardownAgrees, KeptMayStayDown, RefusedIsDown,
       NoOrphan, RunningIsWanted, NoLostRestart, RefusedIsRetried
<1>9. CASE RollConfirmed
  <2>1. /\ UNCHANGED <<entry, proc, restart, rolling, escalate>>
        /\ def' = ClearRoll(def) /\ def.in_use
    BY Zenon, <1>9 DEF RollConfirmed, WindowOver
  <2>2. StopIsBounded'
    BY Zenon, <2>1 DEF Escalates, LInv, StopIsBounded
  <2> QED
    BY <1>0, <2>1, <2>2, ClearRollFields DEF LInv, SlotsAreWhole, TeardownAgrees,
       KeptMayStayDown, RefusedIsDown, NoOrphan, RunningIsWanted, NoLostRestart,
       RefusedIsRetried, WindowIsWatched
<1>10. CASE RollFailed
  <2>1. /\ UNCHANGED <<entry, proc, restart, escalate>> /\ def.in_use
        /\ def' = RollBack(def)
    BY Zenon, <1>10 DEF RollFailed, WindowOver
  <2>2. StopIsBounded'
    BY Zenon, <2>1 DEF Escalates, LInv, StopIsBounded
  <2>3. rolling > 0 => rolling' > 0
    BY <1>0, <1>10 DEF RollFailed
  <2> QED
    BY ZenonT(60), <1>0, <2>1, <2>2, <2>3, ClearRollFields DEF LInv, SlotsAreWhole, TeardownAgrees,
       KeptMayStayDown, RefusedIsDown, NoOrphan, RunningIsWanted, NoLostRestart,
       RefusedIsRetried, WindowIsWatched
<1>11. ASSUME NEW t \in escalate, StopEscalates(t) PROVE LInv'
  <2>1. UNCHANGED <<def, entry, restart, rolling, watch>>
    BY <1>11 DEF StopEscalates
  <2>2. proc' = IF Escalates(t) /\ proc = "alive" THEN "killed" ELSE proc
    BY <1>11 DEF StopEscalates
  <2>3. escalate' = escalate \ {t}
    BY Zenon, <1>11 DEF StopEscalates
  <2>4. StopIsBounded'
    BY <2>1, <2>2, <2>3 DEF Escalates, LInv, StopIsBounded
  <2>5. entry.running <=> proc' # "none"
    BY <2>2 DEF LInv, SlotsAreWhole
  <2> QED
    BY <2>1, <2>4, <2>5 DEF LInv, SlotsAreWhole, TeardownAgrees, KeptMayStayDown, RefusedIsDown,
       NoOrphan, RunningIsWanted, NoLostRestart, RefusedIsRetried, WindowIsWatched
<1> QED
  BY <1>1, <1>2, <1>3, <1>4, <1>5, <1>6, <1>7, <1>8, <1>9, <1>10, <1>11
     DEF RestartTimer, RollingTimer, RollWatchTimer, StopEscalationTimer

\* a container's exit,
LEMMA ExitsStep ==
  ASSUME TypeOK, LInv, ContainerEvent
  PROVE  LInv'
<1>1. PICK settled \in BOOLEAN :
        \/ ExitOfStop(settled) \/ ExitOfRestart(settled) \/ ExitOfRestartStopped(settled)
        \/ \E stable \in BOOLEAN : ExitRestarts(settled, stable)
        \/ ExitKept(settled)
  BY DEF ContainerEvent
<1>2. PICK d \in ContainerDef : d = FollowedUp(settled)
  BY Zenon, PassTypes
<1>3. /\ d.in_use = def.in_use /\ d.policy = def.policy /\ d.stopped = def.stopped
      /\ d.awaiting_image = def.awaiting_image
      /\ d.roll_deadline # "none" => d.roll_to # 0 /\ watch
  BY <1>2, PassFields DEF LInv, SlotsAreWhole, WindowIsWatched, NoOrphan, TeardownAgrees
<1>4. ~def.in_use => d = EmptyDef
  <2> SUFFICES ASSUME ~def.in_use PROVE d = EmptyDef
    OBVIOUS
  <2>1. Rolled(settled, FALSE) = EmptyDef
    BY Zenon DEF Rolled, Rolls, LInv, SlotsAreWhole
  <2>2. (EmptyDef.restart_refused \/ Pending) = FALSE
    BY EmptyFields DEF Pending
  <2>3. d = [EmptyDef EXCEPT !.restart_refused = EmptyDef.restart_refused \/ Pending]
    BY Zenon, <1>2, <2>1 DEF FollowedUp
  <2>4. d = [EmptyDef EXCEPT !.restart_refused = FALSE]
    BY Zenon, <2>2, <2>3
  <2> QED
    BY Zenon, <2>4 DEF EmptyDef
<1>5. d.restart_refused => def.restart_refused \/ def.awaiting_image
  BY Zenon, <1>2 DEF FollowedUp, Rolled, Pending, TypeOK, ContainerDef
<1>6. CASE ExitOfStop(settled) \/ ExitOfRestartStopped(settled)
  <2>1. /\ def' = d /\ entry' = EmptyEntry /\ proc' = "none" /\ watch' = watch
        /\ entry.teardown_kind \in {"STOP", "DELETE"} \/ def.stopped
    BY Zenon, <1>2, <1>6 DEF ExitOfStop, ExitOfRestartStopped
  <2>2. def.stopped \/ ~def.in_use
    BY Zenon, <2>1 DEF LInv, SlotsAreWhole, WindowIsWatched, NoOrphan, TeardownAgrees
  <2>3. NoLostRestart' /\ RefusedIsRetried' /\ WindowIsWatched'
    BY <1>3, <1>4, <2>1, <2>2, EmptyFields DEF NoLostRestart, RefusedIsRetried, WindowIsWatched
  <2> QED
    BY Zenon, <1>3, <1>4, <2>1, <2>3, Down
<1>7. CASE ExitOfRestart(settled)
  <2>1. /\ RollingRestartReplay(d, ArmRolling(settled), Drained)
        /\ def.in_use /\ ~def.stopped
    BY <1>2, <1>7 DEF ExitOfRestart
  <2>2. ArmRolling(settled) \in Nat
    BY Zenon, PassTypes
  <2> QED
    BY Zenon, <1>3, <2>1, <2>2, ReplayStep
<1>8. ASSUME NEW stable \in BOOLEAN, ExitRestarts(settled, stable) PROVE LInv'
  <2>1. /\ def' = ExitCounted(d, stable) /\ entry' = EmptyEntry /\ proc' = "none"
        /\ restart' = restart + 1 /\ def.in_use /\ watch' = watch
    BY <1>2, <1>8 DEF ExitRestarts, ExitByItself
  <2>2. restart' > 0
    BY <2>1 DEF TypeOK
  <2>3. def'.in_use /\ (def'.roll_deadline # "none" => def'.roll_to # 0 /\ watch')
    <3>1. CASE def' = d
      BY Zenon, <1>3, <2>1, <3>1
    <3>2. CASE def' = RollBack(d)
      BY Zenon, <1>3, <2>1, <3>2, ClearRollFields
    <3>3. CASE def' = [d EXCEPT !.roll_failures = @ + 1]
      BY Zenon, <1>3, <2>1, <3>3 DEF ContainerDef
    <3> QED
      BY <2>1, <3>1, <3>2, <3>3, Zenon DEF ExitCounted
  <2>4. NoLostRestart' /\ RefusedIsRetried' /\ WindowIsWatched'
    BY <2>2, <2>3 DEF LInv, NoLostRestart, RefusedIsRetried, WindowIsWatched
  <2> QED
    BY Zenon, <2>1, <2>3, <2>4, Down
<1>9. CASE ExitKept(settled)
  <2>1. /\ entry' = [entry EXCEPT !.running = FALSE, !.teardown_kind = "NONE"]
        /\ proc' = "none" /\ def' = d /\ UNCHANGED <<restart, watch>>
        /\ entry.running /\ def.in_use /\ ~ShouldRestart /\ rolling' = ArmRolling(settled)
    BY <1>2, <1>9 DEF ExitKept, ExitByItself, Exited
  <2>2. ~entry'.running /\ entry'.in_use /\ entry'.teardown_kind = "NONE"
    BY <2>1 DEF TypeOK, RegistryEntry, LInv, SlotsAreWhole
  <2>3. def.policy \in {"no", "on-failure"}
    BY <2>1 DEF ShouldRestart
  <2>4. RefusedIsDown' /\ RefusedIsRetried'
    BY <1>3, <1>5, <2>1, <2>2 DEF LInv, RefusedIsDown, RefusedIsRetried
  <2> QED
    BY Zenon, <1>3, <2>1, <2>2, <2>3, <2>4 DEF LInv, SlotsAreWhole, TeardownAgrees,
       KeptMayStayDown, NoOrphan, RunningIsWanted, NoLostRestart, StopIsBounded, WindowIsWatched
<1> QED
  BY <1>1, <1>6, <1>7, <1>8, <1>9

\* the end of a package job,
LEMMA JobsStep ==
  ASSUME TypeOK, LInv, PackageJobDone
  PROVE  LInv'
<1>1. PICK settled \in BOOLEAN :
        JobDone(settled) \/ JobDoneCreates(settled) \/ JobDoneRefused(settled)
  BY Zenon DEF PackageJobDone
<1>2. Proven \in BOOLEAN
  BY DEF TypeOK, Proven, RegistryEntry
<1>3. PICK d \in ContainerDef : d = Rolled(settled, Proven)
  BY Zenon, <1>2, PassTypes
<1>4. /\ d.in_use = def.in_use /\ d.policy = def.policy /\ d.stopped = def.stopped
      /\ d.awaiting_image = def.awaiting_image
      /\ d.roll_deadline # "none" => d.roll_to # 0 /\ watch
  BY <1>2, <1>3, PassFields DEF LInv, SlotsAreWhole, WindowIsWatched, NoOrphan, TeardownAgrees
<1>5. ~def.in_use => d = EmptyDef
  BY <1>3 DEF Rolled, Rolls, LInv, SlotsAreWhole
<1>6. d.restart_refused = def.restart_refused
  BY <1>3 DEF Rolled, TypeOK, ContainerDef
<1>7. rolling > 0 => ArmRolling(settled) > 0
  BY SMTT(30) DEF TypeOK, ArmRolling
<1>8. CASE JobDone(settled)
  <2>1. /\ def' = d /\ rolling' = ArmRolling(settled)
        /\ UNCHANGED <<entry, proc, restart, watch, escalate>>
    BY Zenon, <1>3, <1>8 DEF JobDone
  <2>2. StopIsBounded'
    BY Zenon, <2>1 DEF Escalates, LInv, StopIsBounded
  <2> QED
    BY <1>4, <1>5, <1>6, <1>7, <2>1, <2>2 DEF LInv, SlotsAreWhole, TeardownAgrees,
       KeptMayStayDown, RefusedIsDown, NoOrphan, RunningIsWanted, NoLostRestart,
       RefusedIsRetried, WindowIsWatched
<1>9. CASE JobDoneCreates(settled)
  <2>1. /\ CreateFromBody(d) /\ def' = PromotePending(d) /\ watch' = watch
        /\ def.in_use
    BY <1>3, <1>9 DEF JobDoneCreates, Pending
  <2>2. /\ def'.in_use /\ ~def'.stopped /\ ~def'.restart_refused
        /\ def'.roll_deadline # "none" => def'.roll_to # 0 /\ watch'
    BY Zenon, <1>4, <2>1, PromoteFields
  <2> QED
    BY Zenon, <2>1, <2>2, Up
<1>10. CASE JobDoneRefused(settled)
  <2>1. /\ def' = [d EXCEPT !.restart_refused = TRUE] /\ rolling' = ArmRolling(settled)
        /\ UNCHANGED <<entry, proc, restart, watch, escalate>>
        /\ def.in_use /\ def.awaiting_image
    BY <1>3, <1>10 DEF JobDoneRefused, Pending
  <2>2. StopIsBounded'
    BY <2>1 DEF Escalates, LInv, StopIsBounded
  <2>3. /\ def'.in_use /\ def'.policy = def.policy /\ def'.stopped = def.stopped
        /\ def'.awaiting_image /\ def'.roll_deadline = d.roll_deadline
        /\ def'.roll_to = d.roll_to
    BY Zenon, <1>4, <2>1 DEF ContainerDef
  <2> QED
    BY <1>4, <2>1, <2>2, <2>3 DEF LInv, SlotsAreWhole, TeardownAgrees, KeptMayStayDown,
       RefusedIsDown, NoOrphan, RunningIsWanted, NoLostRestart, RefusedIsRetried,
       WindowIsWatched
<1> QED
  BY <1>1, <1>8, <1>9, <1>10

\* A new process reads an empty slot back as empty.
LEMMA ReloadedEmpty ==
  ASSUME def = EmptyDef
  PROVE  Reloaded = EmptyDef
<1>1. Reloaded = [EmptyDef EXCEPT !.restart_refused = FALSE, !.roll_failures = 0,
                                  !.roll_deadline = "none"]
  BY DEF Reloaded, EmptyDef
<1> QED
  BY Zenon, <1>1 DEF EmptyDef

\* a new cixd,
LEMMA NewDaemonStep ==
  ASSUME TypeOK, LInv, NewDaemon
  PROVE  LInv'
<1>1. PICK d \in ContainerDef : d = Reloaded
  BY ReloadedFields
<1>2. /\ d.in_use = def.in_use /\ d.policy = def.policy /\ d.stopped = def.stopped
      /\ d.awaiting_image = def.awaiting_image /\ ~d.restart_refused
      /\ d.roll_to = def.roll_to
      /\ d.roll_deadline # "none" => def.roll_to # 0
  BY Zenon, <1>1, ReloadedFields DEF LInv, SlotsAreWhole, WindowIsWatched, NoOrphan,
     TeardownAgrees
<1>3. ~def.in_use => d = EmptyDef
  BY Zenon, <1>1, ReloadedEmpty DEF LInv, SlotsAreWhole
<1>4. CASE RebootSkips
  <2>1. /\ def' = d /\ entry' = EmptyEntry /\ proc' = "none"
        /\ watch' = (def.roll_to # 0) /\ BringUp(TRUE) \in {"SKIP", "AWAIT_IMAGE"}
    BY Zenon, <1>1, <1>4 DEF RebootSkips, RearmRollWatches
  <2>2. NoLostRestart'
    BY <1>2, <2>1 DEF BringUp, LInv, NoLostRestart
  <2>3. RefusedIsRetried' /\ WindowIsWatched'
    BY Zenon, <1>2, <2>1 DEF LInv, RefusedIsRetried, WindowIsWatched
  <2> QED
    BY <1>2, <1>3, <2>1, <2>2, <2>3, Down
<1>5. CASE RebootStarts
  <2>1. /\ CreateFromBody(def) /\ watch' = (def.roll_to # 0) /\ def.in_use
        /\ def' = IF def.awaiting_image THEN PromotePending(d)
                  ELSE [d EXCEPT !.stopped = FALSE]
    BY <1>1, <1>5 DEF RebootStarts, RearmRollWatches, BringUp
  <2>2. /\ def'.in_use /\ ~def'.stopped /\ ~def'.restart_refused
        /\ def'.roll_to = d.roll_to /\ def'.roll_deadline = d.roll_deadline
    <3>1. CASE def' = PromotePending(d)
      BY Zenon, <1>2, <2>1, <3>1, PromoteFields
    <3>2. CASE def' = [d EXCEPT !.stopped = FALSE]
      BY Zenon, <1>2, <2>1, <3>2 DEF ContainerDef
    <3> QED
      BY <2>1, <3>1, <3>2, Zenon
  <2>3. def'.roll_deadline # "none" => def'.roll_to # 0 /\ watch'
    BY Zenon, <1>2, <2>1, <2>2
  <2> QED
    BY <2>1, <2>2, <2>3, Up DEF TypeOK
<1>6. CASE RebootRefused
  <2>1. /\ CreateRefused /\ RestartWasRefused(d, 0) /\ watch' = (def.roll_to # 0)
        /\ def.in_use
    BY <1>1, <1>6 DEF RebootRefused, RearmRollWatches, BringUp
  <2> QED
    BY Zenon, <1>2, <2>1, RefusedDown
<1>7. CASE Handover
  <2>1. /\ def' = d /\ UNCHANGED <<entry, proc>> /\ watch' = (def.roll_to # 0)
        /\ restart' = IF ~entry.in_use /\ BringUp(FALSE) = "START" THEN 1 ELSE 0
        /\ entry.teardown_kind = "NONE"
    BY Zenon, <1>1, <1>7 DEF Handover, RearmRollWatches
  <2>2. NoLostRestart'
    BY <1>2, <2>1 DEF BringUp, LInv, NoLostRestart
  <2>3. RefusedIsRetried' /\ WindowIsWatched' /\ StopIsBounded'
    BY Zenon, <1>2, <2>1 DEF LInv, RefusedIsRetried, StopIsBounded, WindowIsWatched
  <2> QED
    BY Zenon, <1>2, <1>3, <2>1, <2>2, <2>3 DEF LInv, SlotsAreWhole, TeardownAgrees,
       KeptMayStayDown, RefusedIsDown, NoOrphan, RunningIsWanted
<1> QED
  BY Zenon, <1>4, <1>5, <1>6, <1>7 DEF NewDaemon

\* and the world.
LEMMA WorldStep ==
  ASSUME TypeOK, LInv, World
  PROVE  LInv'
<1>1. CASE InterfaceLeaves
  <2>1. /\ entry' = [entry EXCEPT !.teardown_kind = "FAIL"]
        /\ [started_at |-> entry.started_at, of |-> entry.pid] \in escalate'
        /\ entry.running /\ entry.teardown_kind = "NONE"
        /\ UNCHANGED <<def, proc, restart, rolling, watch>>
    BY <1>1 DEF InterfaceLeaves, BeginContainerStop
  <2>2. /\ entry'.in_use = entry.in_use /\ entry'.running = entry.running
        /\ entry'.teardown_kind = "FAIL" /\ entry'.pid = entry.pid
        /\ entry'.started_at = entry.started_at
    BY Zenon, <2>1 DEF TypeOK, RegistryEntry
  <2>3. StopIsBounded'
    BY Zenon, <2>1, <2>2 DEF Escalates, LInv, StopIsBounded
  <2> QED
    BY <2>1, <2>2, <2>3 DEF LInv, SlotsAreWhole, TeardownAgrees, KeptMayStayDown, RefusedIsDown,
       NoOrphan, RunningIsWanted, NoLostRestart, RefusedIsRetried, WindowIsWatched
<1>2. CASE ProcessDies
  <2>1. /\ proc # "none" /\ proc' # "none" /\ proc' # "alive"
        /\ UNCHANGED <<def, entry, restart, rolling, watch>>
    BY Zenon, <1>2 DEF ProcessDies, Gone
  <2> QED
    BY Zenon, <2>1 DEF LInv, SlotsAreWhole, TeardownAgrees, KeptMayStayDown, RefusedIsDown,
       NoOrphan, RunningIsWanted, NoLostRestart, RefusedIsRetried, StopIsBounded,
       WindowIsWatched
<1>3. CASE ReadyChanges
  <2>1. /\ entry' = [entry EXCEPT !.ready = ~@] /\ entry.running
        /\ UNCHANGED <<def, proc, restart, rolling, watch, escalate>>
    BY <1>3 DEF ReadyChanges
  <2>2. /\ entry'.in_use = entry.in_use /\ entry'.running = entry.running
        /\ entry'.teardown_kind = entry.teardown_kind /\ entry'.pid = entry.pid
        /\ entry'.started_at = entry.started_at
    BY Zenon, <2>1 DEF TypeOK, RegistryEntry
  <2>3. StopIsBounded'
    BY <2>1, <2>2 DEF Escalates, LInv, StopIsBounded
  <2> QED
    BY <2>1, <2>2, <2>3 DEF LInv, SlotsAreWhole, TeardownAgrees, KeptMayStayDown, RefusedIsDown,
       NoOrphan, RunningIsWanted, NoLostRestart, RefusedIsRetried, WindowIsWatched
<1>4. CASE DeadlinePasses
  <2>1. /\ def' = [def EXCEPT !.roll_deadline = "due"] /\ def.roll_deadline = "open"
        /\ UNCHANGED <<entry, proc, restart, rolling, watch, escalate>>
    BY <1>4 DEF DeadlinePasses
  <2>2. /\ def'.in_use = def.in_use /\ def'.policy = def.policy
        /\ def'.stopped = def.stopped /\ def'.awaiting_image = def.awaiting_image
        /\ def'.restart_refused = def.restart_refused /\ def'.roll_to = def.roll_to
    BY <2>1 DEF TypeOK, ContainerDef
  <2>3. StopIsBounded' /\ def.in_use
    BY Zenon, <2>1, EmptyFields DEF Escalates, LInv, SlotsAreWhole, StopIsBounded
  <2> QED
    BY <2>1, <2>2, <2>3 DEF LInv, SlotsAreWhole, TeardownAgrees, KeptMayStayDown, RefusedIsDown,
       NoOrphan, RunningIsWanted, NoLostRestart, RefusedIsRetried, WindowIsWatched
<1>5. CASE ImageMoves \/ MarkCleared
  <2>1. UNCHANGED <<def, entry, proc, restart, rolling, watch, escalate>>
    BY Zenon, <1>5 DEF ImageMoves, MarkCleared
  <2>2. StopIsBounded'
    BY <2>1 DEF Escalates, LInv, StopIsBounded
  <2> QED
    BY Zenon, <2>1, <2>2 DEF LInv, SlotsAreWhole, TeardownAgrees, KeptMayStayDown,
       RefusedIsDown, NoOrphan, RunningIsWanted, NoLostRestart, RefusedIsRetried,
       WindowIsWatched
<1> QED
  BY <1>1, <1>2, <1>3, <1>4, <1>5 DEF World

\* LInv is inductive relative to the types,
LEMMA LInvStep ==
  ASSUME TypeOK, LInv, [Next]_vars
  PROVE  LInv'
<1>1. CASE Next
  BY Zenon, <1>1, RequestsStep, TimersStep, ExitsStep, JobsStep, NewDaemonStep, WorldStep
     DEF Next
<1>2. CASE UNCHANGED vars
  BY ZenonT(60), <1>2 DEF vars, LInv, SlotsAreWhole, TeardownAgrees, KeptMayStayDown,
     RefusedIsDown, NoOrphan, RunningIsWanted, NoLostRestart, RefusedIsRetried,
     StopIsBounded, WindowIsWatched, Escalates
<1> QED
  BY <1>1, <1>2

\* holds initially,
LEMMA InitLInv == Init => LInv
  BY EmptyFields DEF Init, LInv, SlotsAreWhole, TeardownAgrees, KeptMayStayDown,
     RefusedIsDown, NoOrphan, RunningIsWanted, NoLostRestart, RefusedIsRetried,
     StopIsBounded, WindowIsWatched

\* and so holds always.
LEMMA Inductive == Spec => [](TypeOK /\ LInv)
<1>1. Init => TypeOK /\ LInv
  BY Zenon, InitType, InitLInv
<1>2. TypeOK /\ LInv /\ [Next]_vars => TypeOK' /\ LInv'
  BY TypeStep, LInvStep DEF LInv
<1> QED
  BY <1>1, <1>2, PTL DEF Spec

-----------------------------------------------------------------------------
(* Without handovers, a container ends up on the version it is pinned to   *)

\* A container that is down, or being torn down, has nothing to converge to.
LEMMA NotUp ==
  ASSUME ~entry'.running \/ entry'.teardown_kind # "NONE"
  PROVE  VersionConverges'
  BY Zenon DEF VersionConverges

\* One that has just come up runs the version its definition names.
LEMMA UpOnPin ==
  ASSUME NEW d \in ContainerDef, CreateFromBody(d), current \in Versions,
         def'.pin # 0 => def'.pin = Resolved(d)
  PROVE  VersionConverges'
<1>1. entry'.version = Resolved(d)
  BY DEF CreateFromBody
<1> QED
  BY Zenon, <1>1 DEF VersionConverges

\* One that goes on with the same pin and version keeps its rolling timer.
LEMMA GoesOn ==
  ASSUME VersionConverges, entry' = entry \/ entry' = [entry EXCEPT !.ready = ~@],
         entry \in RegistryEntry, def'.pin = def.pin, rolling > 0 => rolling' > 0
  PROVE  VersionConverges'
<1>1. /\ entry'.running = entry.running /\ entry'.version = entry.version
      /\ entry'.teardown_kind = entry.teardown_kind
  BY DEF RegistryEntry
<1> QED
  BY <1>1 DEF VersionConverges

\* Each group of actions keeps a container on its way to its pin: the requests,
LEMMA VersionRequests ==
  ASSUME TypeOK, LInv, VersionConverges, Requests
  PROVE  VersionConverges'
<1>0. /\ def \in ContainerDef /\ entry \in RegistryEntry /\ current \in Versions
      /\ rolling \in Nat
  BY DEF TypeOK
<1>1. CASE Start
  <2>1. CreateFromBody(def) /\ def' = Running([def EXCEPT !.stopped = FALSE])
    BY <1>1 DEF Start
  <2>2. def'.pin = def.pin
    BY Zenon, <1>0, <2>1 DEF Running, ContainerDef
  <2> QED
    BY Zenon, <1>0, <2>1, <2>2, UpOnPin DEF Resolved
<1>2. CASE StartRefused \/ StopDown \/ DeleteDown
  <2>1. entry' = EmptyEntry
    BY Zenon, <1>2 DEF StartRefused, CreateRefused, StopDown, DeleteDown
  <2> QED
    BY Zenon, <2>1, EmptyFields, NotUp
<1>3. ASSUME NEW policy \in Policies, Create(policy) PROVE VersionConverges'
  <2>1. CreateFromBody(EmptyDef) /\ def' = DefAdded(policy, policy, current)
    BY <1>3 DEF Create
  <2>2. def'.pin = current /\ EmptyDef.pin = 0
    BY Zenon, <1>0, <2>1 DEF DefAdded, ContainerDef, EmptyDef
  <2> QED
    BY Zenon, <1>0, <2>1, <2>2, EmptyTypes, UpOnPin DEF Resolved
<1>4. ASSUME NEW policy \in Policies, Deploy(policy) PROVE VersionConverges'
  <2>1. entry' = EmptyEntry
    BY <1>4 DEF Deploy, LInv, SlotsAreWhole
  <2> QED
    BY <2>1, EmptyFields, NotUp
<1>5. CASE StopRunning
  <2>1. CASE entry.teardown_kind = "NONE"
    <3>1. entry' = [entry EXCEPT !.teardown_kind = "STOP"]
      BY <1>5, <2>1 DEF StopRunning, BeginContainerStop
    <3> QED
      BY <1>0, <3>1, NotUp DEF RegistryEntry
  <2>2. CASE entry.teardown_kind # "NONE"
    BY <1>5, <2>2, NotUp DEF StopRunning
  <2> QED
    BY <2>1, <2>2
<1>6. CASE DeleteRunning \/ DeleteDuringTeardown
  <2>1. entry' = [entry EXCEPT !.teardown_kind = "DELETE"]
    BY <1>6 DEF DeleteRunning, DeleteDuringTeardown, BeginContainerStop
  <2> QED
    BY <1>0, <2>1, NotUp DEF RegistryEntry
<1>7. CASE DhcpRestart
  <2>1. entry' = entry /\ def' = def /\ rolling' = rolling + 1
    BY Zenon, <1>7 DEF DhcpRestart
  <2> QED
    BY <1>0, <2>1, GoesOn
<1> QED
  BY Zenon, <1>1, <1>2, <1>3, <1>4, <1>5, <1>6, <1>7 DEF Requests

\* a replay, which comes up on the pin or not at all,
LEMMA VersionReplay ==
  ASSUME TypeOK, NEW d \in ContainerDef, NEW r, NEW qs, RollingRestartReplay(d, r, qs)
  PROVE  VersionConverges'
<1>1. CASE CreateRefused
  BY Zenon, <1>1, EmptyFields, NotUp DEF CreateRefused
<1>2. CASE CreateFromBody(d) /\ def' = StartRollWatch(Running(d))
  <2>1. PICK e \in ContainerDef : e = Running(d)
    BY RunningFields
  <2>2. e.pin = d.pin
    BY <2>1 DEF Running, ContainerDef
  <2>3. def'.pin = e.pin
    BY <1>2, <2>1 DEF StartRollWatch, ContainerDef
  <2> QED
    BY Zenon, <1>2, <2>2, <2>3, UpOnPin DEF Resolved, TypeOK
<1> QED
  BY Zenon, <1>1, <1>2 DEF RollingRestartReplay

\* the timers, of which only the one that restarts uses up a rolling restart,
LEMMA VersionTimers ==
  ASSUME TypeOK, LInv, VersionConverges,
         RestartTimer \/ RollingTimer \/ RollWatchTimer \/ StopEscalationTimer
  PROVE  VersionConverges'
<1>0. /\ def \in ContainerDef /\ entry \in RegistryEntry /\ current \in Versions
      /\ rolling \in Nat
  BY Zenon DEF TypeOK
<1>1. CASE RestartTimerCreates
  <2>1. CreateFromBody(def) /\ def' = Running(def)
    BY <1>1 DEF RestartTimerCreates
  <2>2. def'.pin = def.pin
    BY Zenon, <1>0, <2>1 DEF Running, ContainerDef
  <2> QED
    BY <1>0, <2>1, <2>2, UpOnPin DEF Resolved
<1>2. CASE RestartTimerRollsBack \/ RestartTimerRefused
  <2>1. entry' = EmptyEntry
    BY <1>2 DEF RestartTimerRollsBack, RestartTimerRefused, CreateRefused
  <2> QED
    BY Zenon, <2>1, EmptyFields, NotUp
<1>3. CASE RestartTimerIdle \/ RollWatchIdle \/ StopEscalationTimer
  <2>1. entry' = entry /\ def' = def /\ rolling' = rolling
    BY Zenon, <1>3 DEF RestartTimerIdle, RollWatchIdle, StopEscalationTimer, StopEscalates
  <2> QED
    BY Zenon, <1>0, <2>1, GoesOn
<1>4. CASE RollingTimerIdle
  <2>1. ~entry.running \/ entry.teardown_kind # "NONE"
    BY <1>4 DEF RollingTimerIdle, LInv, SlotsAreWhole, NoOrphan, RunningIsWanted
  <2> QED
    BY Zenon, <1>4, <2>1, NotUp DEF RollingTimerIdle
<1>5. CASE RollingTimerStops
  <2>1. entry' = [entry EXCEPT !.teardown_kind = "RESTART"]
    BY <1>5 DEF RollingTimerStops, BeginContainerStop
  <2> QED
    BY <1>0, <2>1, NotUp DEF RegistryEntry
<1>6. CASE RollingTimerReplays
  BY <1>0, <1>6, VersionReplay DEF RollingTimerReplays
<1>7. CASE RollConfirmed
  <2>1. entry' = entry /\ rolling' = rolling /\ def' = ClearRoll(def)
    BY <1>7 DEF RollConfirmed
  <2>2. def'.pin = def.pin
    BY <1>0, <2>1 DEF ClearRoll, ContainerDef
  <2> QED
    BY Zenon, <1>0, <2>1, <2>2, GoesOn
<1>8. CASE RollFailed
  <2>1. entry' = entry /\ rolling' = IF entry.in_use THEN rolling + 1 ELSE rolling
    BY Zenon, <1>8 DEF RollFailed
  <2>2. entry.running => rolling' > 0
    BY <1>0, <2>1 DEF LInv, SlotsAreWhole
  <2> QED
    BY Zenon, <2>1, <2>2 DEF VersionConverges
<1> QED
  BY Zenon, <1>1, <1>2, <1>3, <1>4, <1>5, <1>6, <1>7, <1>8
     DEF RestartTimer, RollingTimer, RollWatchTimer

\* an exit,
LEMMA VersionExits ==
  ASSUME TypeOK, ContainerEvent
  PROVE  VersionConverges'
<1>0. entry \in RegistryEntry
  BY DEF TypeOK
<1>1. PICK settled \in BOOLEAN :
        \/ ExitOfStop(settled) \/ ExitOfRestart(settled) \/ ExitOfRestartStopped(settled)
        \/ \E stable \in BOOLEAN : ExitRestarts(settled, stable)
        \/ ExitKept(settled)
  BY Zenon DEF ContainerEvent
<1>2. CASE \/ ExitOfStop(settled) \/ ExitOfRestartStopped(settled)
           \/ \E stable \in BOOLEAN : ExitRestarts(settled, stable)
  <2>1. entry' = EmptyEntry
    BY <1>2 DEF ExitOfStop, ExitOfRestartStopped, ExitRestarts
  <2> QED
    BY Zenon, <2>1, EmptyFields, NotUp
<1>3. CASE ExitKept(settled)
  <2>1. entry' = [entry EXCEPT !.running = FALSE, !.teardown_kind = "NONE"]
    BY Zenon, <1>3 DEF ExitKept
  <2> QED
    BY <1>0, <2>1, NotUp DEF RegistryEntry
<1>4. CASE ExitOfRestart(settled)
  BY <1>4, PassTypes, VersionReplay DEF ExitOfRestart
<1> QED
  BY <1>1, <1>2, <1>3, <1>4

\* The pass moves the pin of a registered container only with a timer armed.
LEMMA PassPin ==
  ASSUME TypeOK, NEW settled \in BOOLEAN, NEW proven \in BOOLEAN,
         NEW d, d = Rolled(settled, proven)
  PROVE  /\ ArmRolling(settled) >= rolling
         /\ \/ d.pin = def.pin
            \/ d.pin = current /\ (entry.in_use => ArmRolling(settled) > 0)
  BY DEF TypeOK, Rolled, ArmRolling, ContainerDef

\* the end of a package job, which moves pins,
LEMMA VersionJobs ==
  ASSUME TypeOK, LInv, VersionConverges, PackageJobDone
  PROVE  VersionConverges'
<1>0. /\ def \in ContainerDef /\ entry \in RegistryEntry /\ current \in Versions
      /\ rolling \in Nat /\ Proven \in BOOLEAN
  BY DEF TypeOK, Proven
<1>1. PICK settled \in BOOLEAN :
        JobDone(settled) \/ JobDoneCreates(settled) \/ JobDoneRefused(settled)
  BY Zenon DEF PackageJobDone
<1>2. PICK d \in ContainerDef : d = Rolled(settled, Proven)
  BY Zenon, <1>0, PassTypes
<1>3. /\ ArmRolling(settled) \in Nat /\ ArmRolling(settled) >= rolling
      /\ \/ d.pin = def.pin
         \/ d.pin = current /\ (entry.in_use => ArmRolling(settled) > 0)
  BY Zenon, <1>0, <1>2, PassPin, PassTypes
<1>4. CASE JobDoneCreates(settled)
  <2>1. CreateFromBody(d) /\ def' = PromotePending(d)
    BY <1>2, <1>4 DEF JobDoneCreates
  <2>2. def'.pin = Resolved(d)
    BY Zenon, <2>1 DEF PromotePending, ContainerDef
  <2> QED
    BY Zenon, <1>0, <2>1, <2>2, UpOnPin
<1>5. CASE JobDone(settled) \/ JobDoneRefused(settled)
  <2>1. entry' = entry /\ rolling' = ArmRolling(settled)
    BY <1>5 DEF JobDone, JobDoneRefused
  <2>2. def' = d \/ def' = [d EXCEPT !.restart_refused = TRUE]
    BY <1>2, <1>5 DEF JobDone, JobDoneRefused
  <2>3. def'.pin = d.pin
    BY <2>2 DEF ContainerDef
  <2>4. entry.running => entry.in_use
    BY DEF LInv, SlotsAreWhole
  <2> QED
    BY <1>0, <1>3, <2>1, <2>3, <2>4 DEF VersionConverges
<1> QED
  BY Zenon, <1>1, <1>4, <1>5

\* a reboot, which starts every container afresh,
LEMMA VersionNewDaemon ==
  ASSUME TypeOK, ~Handovers, NewDaemon
  PROVE  VersionConverges'
<1>0. def \in ContainerDef /\ current \in Versions
  BY Zenon DEF TypeOK
<1>1. CASE RebootSkips \/ RebootRefused
  <2>1. entry' = EmptyEntry
    BY Zenon, <1>1 DEF RebootSkips, RebootRefused, CreateRefused
  <2> QED
    BY <2>1, EmptyFields, NotUp
<1>2. CASE RebootStarts
  <2>1. PICK d \in ContainerDef : d = Reloaded
    BY ReloadedFields
  <2>2. d.pin = def.pin
    BY <1>0, <2>1 DEF Reloaded, ContainerDef
  <2>3. /\ CreateFromBody(def)
        /\ def' = PromotePending(d) \/ def' = [d EXCEPT !.stopped = FALSE]
    BY <1>2, <2>1 DEF RebootStarts
  <2>4. def'.pin = Resolved(d) \/ def'.pin = d.pin
    BY Zenon, <2>3 DEF PromotePending, ContainerDef
  <2>5. def'.pin # 0 => def'.pin = Resolved(def)
    BY <2>2, <2>4 DEF Resolved
  <2> QED
    BY Zenon, <1>0, <2>3, <2>5, UpOnPin
<1> QED
  BY Zenon, <1>1, <1>2 DEF NewDaemon, Handover

\* and the world.
LEMMA VersionWorld ==
  ASSUME TypeOK, VersionConverges, World
  PROVE  VersionConverges'
<1>0. def \in ContainerDef /\ entry \in RegistryEntry /\ rolling \in Nat
  BY DEF TypeOK
<1>1. CASE InterfaceLeaves
  <2>1. entry' = [entry EXCEPT !.teardown_kind = "FAIL"]
    BY <1>1 DEF InterfaceLeaves, BeginContainerStop
  <2> QED
    BY <1>0, <2>1, NotUp DEF RegistryEntry
<1>2. CASE ProcessDies \/ ReadyChanges \/ ImageMoves \/ MarkCleared
  <2>1. /\ entry' = entry \/ entry' = [entry EXCEPT !.ready = ~@]
        /\ def' = def /\ rolling' = rolling
    BY <1>2 DEF ProcessDies, ReadyChanges, ImageMoves, MarkCleared
  <2> QED
    BY <1>0, <2>1, GoesOn
<1>3. CASE DeadlinePasses
  <2>1. entry' = entry /\ rolling' = rolling
    BY <1>3 DEF DeadlinePasses
  <2>2. def'.pin = def.pin
    BY <1>0, <1>3 DEF DeadlinePasses, ContainerDef
  <2> QED
    BY <1>0, <2>1, <2>2, GoesOn
<1> QED
  BY Zenon, <1>1, <1>2, <1>3 DEF World

-----------------------------------------------------------------------------
(* The theorems                                                            *)

\* Every variable keeps its type whatever requests, exits, timers, package jobs,
\* reboots and handovers do; in particular roll_failures never reaches
\* CONTAINER_ROLLBACK_UNSTABLE_EXITS, because container_exit_finalize() rolls
\* back and clears it first.
THEOREM TypeCorrect == Spec => []TypeOK
  BY Inductive, PTL

\* A registered container has a definition unless its own DELETE is under way:
\* handle_delete() takes over any teardown it meets, and no timer armed under the
\* name creates a container for a definition that is gone.
THEOREM NoContainerIsOrphaned == Spec => []NoOrphan
<1>1. LInv => NoOrphan
  BY DEF LInv
<1> QED
  BY <1>1, Inductive, PTL

\* A container that is up and not being torn down is not a stopped one: every
\* replay looks again at the stop that may have come while it was under way.
THEOREM StopsAreKept == Spec => []RunningIsWanted
<1>1. LInv => RunningIsWanted
  BY DEF LInv
<1> QED
  BY <1>1, Inductive, PTL

\* A definition whose policy restarts it, which nobody stopped and which is down,
\* always has a timer armed or waits for its image: crashes, refused creates,
\* reboots and handovers (containerdef_autostart_all(), handover_watch_all())
\* strand none.
THEOREM RestartsAreNotLost == Spec => []NoLostRestart
<1>1. LInv => NoLostRestart
  BY DEF LInv
<1> QED
  BY <1>1, Inductive, PTL

\* So has a definition that GET reports as refused, whatever its policy:
\* restart_was_refused() arms the next try or leaves it to the image's arrival,
\* and nothing that ends the retries leaves the flag set on a wanted definition.
THEOREM RefusalsAreRetried == Spec => []RefusedIsRetried
<1>1. LInv => RefusedIsRetried
  BY DEF LInv
<1> QED
  BY <1>1, Inductive, PTL

\* While a teardown is under way, its container has been killed, has exited, or
\* handle_stop_escalation_timer_event() has a timer that recognises it.
THEOREM TeardownsAreBounded == Spec => []StopIsBounded
<1>1. LInv => StopIsBounded
  BY DEF LInv
<1> QED
  BY <1>1, Inductive, PTL

\* A roll whose window is open has a roll-watch timer, across reboots and
\* handovers too (start_roll_watch(), rearm_roll_watches()).
THEOREM WindowsAreWatched == Spec => []WindowIsWatched
<1>1. LInv => WindowIsWatched
  BY DEF LInv
<1> QED
  BY <1>1, Inductive, PTL

\* As long as cixd does not hand over to a successor, a container that runs
\* another version than its definition is pinned to has a rolling restart armed:
\* apply_rolling_container_restarts() and a failed roll watch arm one whenever
\* they move the pin of a registered container, and only the restart uses it up.
THEOREM VersionsConverge ==
  ASSUME ~Handovers
  PROVE  Spec => []VersionConverges
<1>1. Init => VersionConverges
  BY EmptyFields DEF Init, VersionConverges
<1>2. TypeOK /\ LInv /\ VersionConverges /\ [Next]_vars => VersionConverges'
  <2> SUFFICES ASSUME TypeOK, LInv, VersionConverges, [Next]_vars
               PROVE  VersionConverges'
    OBVIOUS
  <2>1. CASE Next
    BY Zenon, <2>1, VersionRequests, VersionTimers, VersionExits, VersionJobs,
       VersionNewDaemon, VersionWorld DEF Next
  <2>2. CASE UNCHANGED vars
    BY <2>2 DEF vars, VersionConverges
  <2> QED
    BY <2>1, <2>2
<1> QED
  BY <1>1, <1>2, Inductive, PTL DEF Spec
=============================================================================
