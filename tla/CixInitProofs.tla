--------------------------- MODULE CixInitProofs ---------------------------
(***************************************************************************)
(* Proofs, for every table and every number of services, of the safety     *)
(* properties of cix-init.                                                 *)
(***************************************************************************)
EXTENDS CixInitProps, TLAPS

\* begin_shutdown()'s walk over the table keeps the types.
LEMMA ShutTyped ==
  ASSUME NEW st \in [Service -> States],
         NEW pr \in [Service -> Probes]
  PROVE  /\ Shut(st) \in [Service -> States]
         /\ KillProbes(pr) \in [Service -> Probes]
  BY DEF Shut, KillProbes, States, Probes

\* mapped_status() of a wait status is a natural number.
LEMMA MappedStatusTyped ==
  ASSUME NEW w \in Status PROVE MappedStatus(w) \in Nat
  BY DEF Status, MappedStatus

\* A wait status the environment chooses is one the table can record.
LEMMA StatusesTyped == Statuses \subseteq Status
  BY ConstantsAssumption DEF Status

\* A call of begin_shutdown() with typed arguments keeps what it assigns typed.
LEMMA BeginShutdownTyped ==
  ASSUME TypeOK,
         NEW st \in [Service -> States],
         NEW pr \in [Service -> Probes],
         NEW code \in Nat, NEW why \in {"orderly", "service"},
         BeginShutdown(st, pr, code, why)
  PROVE  /\ state' \in [Service -> States]
         /\ probe' \in [Service -> Probes]
         /\ shutting_down' \in BOOLEAN
         /\ exit_code' \in Nat
         /\ ended_by' \in Enders
<1>1. CASE shutting_down
  BY <1>1 DEF BeginShutdown, TypeOK
<1>2. CASE ~shutting_down
  BY <1>2, ShutTyped DEF BeginShutdown, Enders
<1> QED BY <1>1, <1>2

\* send_stop() keeps what it assigns typed.
LEMMA SendStopTyped ==
  ASSUME TypeOK, NEW i \in Service, SendStop(i)
  PROVE  stop_sent' \in [Service -> BOOLEAN] /\ due' \in [Service -> SUBSET Deadlines]
<1>1. CASE Running(i) /\ ~stop_sent[i]
  <2>1. due \in [Service -> SUBSET Deadlines] /\ due[i] \ {"stop_timeout"} \in SUBSET Deadlines
    BY DEF TypeOK
  <2>2. due' \in [Service -> SUBSET Deadlines]
    BY <1>1, <2>1 DEF SendStop
  <2> QED BY Zenon, <1>1, <2>2 DEF SendStop, TypeOK
<1>2. CASE ~(Running(i) /\ ~stop_sent[i])
  BY <1>2 DEF SendStop, TypeOK
<1> QED BY <1>1, <1>2

\* The service a pass is at is one of the table's.
LEMMA CurIsAService == TypeOK /\ (Schedule \/ ShutdownStep) => cur \in Service
<1>1. ASSUME TypeOK, Schedule PROVE cur \in Service
  BY <1>1, ConstantsAssumption DEF TypeOK, Schedule, Service
<1>2. ASSUME TypeOK, ShutdownStep PROVE cur \in Service
  BY <1>2, ConstantsAssumption DEF TypeOK, ShutdownStep, Service
<1> QED BY <1>1, <1>2

\* Every step keeps every variable in its type.
LEMMA TypeStep == TypeOK /\ [Next]_vars => TypeOK'
<1> SUFFICES ASSUME TypeOK, [Next]_vars PROVE TypeOK'
  OBVIOUS
<1> USE ConstantsAssumption
<1>0. CASE UNCHANGED vars
  BY <1>0 DEF TypeOK, vars, svcVars, loopVars
<1>r. ASSUME Next PROVE reached' \subseteq Service
  BY <1>r DEF Next, TypeOK
<1>1. CASE Next /\ ReadTable
  <2>1. pc' \in {"reap", "exited"} /\ exit_code' \in Nat
    <3>1. CASE ValidTable
      BY Zenon, <1>1, <3>1 DEF ReadTable, TypeOK
    <3>2. CASE ~ValidTable
      BY <1>1, <3>2 DEF ReadTable
    <3> QED BY <3>1, <3>2
  <2> QED BY Zenon, <1>1, <1>r, <2>1 DEF TypeOK, ReadTable, svcVars, Phases
<1>2. ASSUME NEW i \in Service, Next, ReapService(i) PROVE TypeOK'
  <2> DEFINE pr == [probe EXCEPT ![i] = "none"]
  <2>1. pr \in [Service -> Probes]
    BY DEF TypeOK, Probes
  <2>2. PICK w \in Statuses : ServiceExited(i, w)
    BY <1>2 DEF ReapService
  <2>3. w \in Status /\ MappedStatus(w) \in Nat
    BY StatusesTyped, MappedStatusTyped
  <2>4. ASSUME NEW st \in States, NEW ev, ExitedTo(i, st, w, pr, ev)
        PROVE  /\ state' \in [Service -> States]
               /\ probe' \in [Service -> Probes]
               /\ shutting_down' \in BOOLEAN
               /\ exit_code' \in Nat
               /\ ended_by' \in Enders
    BY Zenon, <2>1, <2>3, <2>4 DEF ExitedTo, TypeOK
  <2>5. /\ state' \in [Service -> States]
        /\ probe' \in [Service -> Probes]
        /\ shutting_down' \in BOOLEAN
        /\ exit_code' \in Nat
        /\ ended_by' \in Enders
        /\ restart_after_stop' \in [Service -> BOOLEAN]
    <3> DEFINE ev == <<Report(i, "EXITED", w.kind, w.value)>>
    <3> HIDE DEF pr, ev
    <3>0. state \in [Service -> States] BY DEF TypeOK
    <3>1. CASE ExitedInShutdown(i, pr, ev)
      BY Zenon, <3>1, <2>1 DEF ExitedInShutdown, TypeOK, States
    <3>2. CASE ExitedAsAsked(i, w, pr, ev)
      <4>1. \E st \in States : \E ev1 : ExitedTo(i, st, w, pr, ev1)
        BY Zenon, <3>2 DEF ExitedAsAsked, States
      <4>2. restart_after_stop' \in [Service -> BOOLEAN]
        BY Zenon, <3>2 DEF ExitedAsAsked, TypeOK
      <4> QED BY Zenon, <4>1, <4>2, <2>4
    <3>3. CASE /\ UNCHANGED restart_after_stop
               /\ ExitedOneshot(i, w, pr, ev) \/ ExitedDaemon(i, w, pr, ev)
      <4>1. \/ \E st \in States : \E ev1 : ExitedTo(i, st, w, pr, ev1)
            \/ BeginShutdown(state, pr, MappedStatus(w), "service")
        BY Zenon, <3>3 DEF ExitedOneshot, ExitedDaemon, States
      <4>2. CASE BeginShutdown(state, pr, MappedStatus(w), "service")
        BY Zenon, <4>2, <3>0, <3>3, <2>1, <2>3, BeginShutdownTyped DEF TypeOK
      <4> QED BY <4>1, <4>2, <2>4, <3>3 DEF TypeOK
    <3> QED BY <2>2, <3>1, <3>2, <3>3 DEF ServiceExited, pr, ev
  <2> QED BY Zenon, <1>2, <1>r, <2>2, <2>3, <2>5 DEF ReapService, ServiceExited, TypeOK, Procs
<1>3. ASSUME NEW i \in Service, Next, ReapProbe(i) PROVE TypeOK'
  BY ZenonT(60), <1>3, <1>r DEF TypeOK, ReapProbe, loopVars, States, Probes
<1>4. CASE Next /\ ReapDone
  <2>1. state \in [Service -> States] /\ 0 \in Nat
        /\ probe \in [Service -> Probes]
    BY DEF TypeOK
  <2>2. /\ state' \in [Service -> States]
        /\ probe' \in [Service -> Probes]
        /\ shutting_down' \in BOOLEAN
        /\ exit_code' \in Nat
        /\ ended_by' \in Enders
    BY Zenon, <1>4, <2>1, BeginShutdownTyped DEF ReapDone, TypeOK
  <2> QED BY Zenon, <1>4, <1>r, <2>2 DEF ReapDone, TypeOK, Phases
<1>5. CASE Next /\ HandleCommand
  <2> DEFINE c == Head(control)
  <2>1. c \in Command
        /\ control' \in Seq(Command)
    BY <1>5 DEF HandleCommand, TypeOK
  <2> DEFINE i == c.service
  <2>2. i \in Service BY Zenon, <2>1 DEF Command
  <2> HIDE DEF i, c
  <2>3. CASE BeginShutdown(state, probe, 0, "orderly")
             /\ UNCHANGED <<stop_sent, operator_stopped, restart_after_stop, due>>
    <3>1. state \in [Service -> States] /\ 0 \in Nat
          /\ probe \in [Service -> Probes]
      BY DEF TypeOK
    <3>2. /\ state' \in [Service -> States]
          /\ probe' \in [Service -> Probes]
          /\ shutting_down' \in BOOLEAN
          /\ exit_code' \in Nat
          /\ ended_by' \in Enders
      BY Zenon, <2>3, <3>1, BeginShutdownTyped
    <3> QED BY <1>5, <1>r, <2>1, <2>3, <3>2 DEF HandleCommand, TypeOK
  <2>4. CASE /\ HandleStart(i) \/ HandleStop(i) \/ HandleRestart(i)
             /\ UNCHANGED <<probe, shutting_down, exit_code, ended_by>>
    <3>1. /\ state' \in [Service -> States]
          /\ stop_sent' \in [Service -> BOOLEAN]
          /\ due' \in [Service -> SUBSET Deadlines]
          /\ operator_stopped' \in [Service -> BOOLEAN]
          /\ restart_after_stop' \in [Service -> BOOLEAN]
      <4>1. CASE HandleStart(i)
        BY <2>2, <4>1 DEF HandleStart, TypeOK, States
      <4>2. CASE HandleStop(i)
        BY Zenon, <2>2, <4>2, SendStopTyped DEF HandleStop, TypeOK, States
      <4>3. CASE HandleRestart(i)
        BY Zenon, <2>2, <4>3, SendStopTyped DEF HandleRestart, TypeOK, States
      <4> QED BY <2>4, <4>1, <4>2, <4>3
    <3> QED BY Zenon, <1>5, <1>r, <2>1, <2>4, <3>1 DEF HandleCommand, TypeOK
  <2> QED BY Zenon, <1>5, <2>3, <2>4 DEF HandleCommand, c, i
<1>6. CASE Next /\ ControlDone
  BY <1>6, <1>r DEF TypeOK, ControlDone, svcVars, Phases
<1>7. CASE Next /\ Schedule
  <2>1. cur \in Service
    BY <1>7, CurIsAService
  <2>2. cur + 1 \in -1 .. N /\ cur + 1 >= 0
    BY <2>1 DEF Service
  <2> DEFINE Typed == /\ state' \in [Service -> States]
                      /\ proc' \in [Service -> Procs]
                      /\ probe' \in [Service -> Probes]
                      /\ stop_sent' \in [Service -> BOOLEAN]
                      /\ killed' \in [Service -> BOOLEAN]
                      /\ exit' \in [Service -> Status]
                      /\ due' \in [Service -> SUBSET Deadlines]
                      /\ exit_code' \in Nat
  <2>3. ASSUME NEW i \in Service, Skip PROVE Typed
    BY Zenon, <2>3 DEF Skip, TypeOK
  <2>4. ASSUME NEW i \in Service, StartService(i) PROVE Typed
    <3>1. SpawnFailed \in Status /\ 126 \in Nat
      BY DEF Status, SpawnFailed
    <3>2. [due EXCEPT ![i] = {}] \in [Service -> SUBSET Deadlines]
      BY DEF TypeOK
    <3>3. \A st \in States : [state EXCEPT ![i] = st] \in [Service -> States]
      BY Zenon DEF TypeOK
    <3>4. CASE Forked(i)
      BY <3>2, <3>3, <3>4 DEF Forked, TypeOK, Procs, Probes, States
    <3>5. CASE ForkFailed(i)
      BY Zenon, <3>1, <3>3, <3>5 DEF ForkFailed, TypeOK, States
    <3> QED BY <2>4, <3>4, <3>5 DEF StartService
  <2>5. ASSUME NEW i \in Service, EscalateStop(i) PROVE Typed
    <3>1. [killed EXCEPT ![i] = TRUE] \in [Service -> BOOLEAN]
      BY Zenon DEF TypeOK
    <3>2. \/ /\ killed' = [killed EXCEPT ![i] = TRUE]
             /\ UNCHANGED <<state, proc, probe, stop_sent, exit, due, exit_code>>
          \/ Skip
      BY ZenonT(60), <2>5 DEF EscalateStop
    <3>3. CASE killed' = [killed EXCEPT ![i] = TRUE] /\ ~Skip
      BY Zenon, <3>1, <3>2, <3>3 DEF TypeOK
    <3> QED BY Zenon, <2>3, <3>2, <3>3
  <2>6. ASSUME NEW i \in Service, ProbeConnect(i) PROVE Typed
    BY ZenonT(60), <2>6, <2>3 DEF ProbeConnect, BecomeReady, TypeOK, States
  <2>7. ASSUME NEW i \in Service, ProbeCommand(i) PROVE Typed
    <3>1. \A p \in Probes : [probe EXCEPT ![i] = p] \in [Service -> Probes]
      BY Zenon DEF TypeOK
    <3>2. CASE Skip
      BY <3>2, <2>3
    <3>3. CASE ~Skip
      <4>1. probe' \in [Service -> Probes]
        BY Zenon, <2>7, <3>1, <3>3 DEF ProbeCommand, Probes
      <4>2. due' \in [Service -> SUBSET Deadlines]
        <5>1. /\ due \in [Service -> SUBSET Deadlines]
              /\ due[i] \ {"probe_pid_deadline"} \in SUBSET Deadlines
          BY Zenon DEF TypeOK
        <5> QED BY ZenonT(60), <2>7, <3>3, <5>1 DEF ProbeCommand
      <4> QED BY ZenonT(60), <2>7, <3>3, <4>1, <4>2 DEF ProbeCommand, TypeOK
    <3> QED BY Zenon, <3>2, <3>3
  <2>8. ASSUME NEW i \in Service, SchedulePending(i)
        PROVE Typed /\ shutting_down' \in BOOLEAN /\ ended_by' \in Enders
    <3>1. NotShutting => shutting_down' \in BOOLEAN /\ ended_by' \in Enders
      BY DEF NotShutting, TypeOK
    <3>2. CASE (Skip \/ StartService(i)) /\ NotShutting
      <4> HIDE DEF Typed
      <4> QED BY <2>3, <2>4, <3>1, <3>2
    <3>3. CASE ~((Skip \/ StartService(i)) /\ NotShutting)
      <4>0. PICK dead \in DeadDep(i) : FailPending(i, dead)
        BY <2>8, <3>3 DEF SchedulePending
      <4> DEFINE failed == [state EXCEPT ![i] = "FAILED"]
                 code == IF state[dead] = "FAILED" THEN MappedStatus(exit[dead]) ELSE 1
      <4>1. failed \in [Service -> States] /\ probe \in [Service -> Probes]
        BY DEF TypeOK, States
      <4>2. dead \in Service
        <5>1. def[i].after \subseteq Service
          BY DEF TypeOK, ServiceRecord
        <5> QED BY <5>1 DEF DeadDep, Unready
      <4>3. code \in Nat
        BY Zenon, <4>2, MappedStatusTyped DEF TypeOK
      <4>4. /\ UNCHANGED <<proc, stop_sent, killed, exit, due>>
            /\ \/ BeginShutdown(failed, probe, code, "service")
               \/ state' = failed /\ UNCHANGED <<probe, exit_code>> /\ NotShutting
        BY Zenon, <4>0 DEF FailPending
      <4> HIDE DEF failed, code
      <4>5. CASE BeginShutdown(failed, probe, code, "service")
        BY Zenon, <4>1, <4>3, <4>4, <4>5, BeginShutdownTyped DEF TypeOK
      <4>6. CASE state' = failed /\ UNCHANGED <<probe, exit_code>> /\ NotShutting
        BY Zenon, <4>1, <4>4, <4>6, <3>1 DEF TypeOK
      <4> QED BY <4>4, <4>5, <4>6
    <3> QED BY Zenon, <2>8, <3>2, <3>3 DEF SchedulePending
  <2>9. Typed /\ shutting_down' \in BOOLEAN /\ ended_by' \in Enders
    <3> HIDE DEF Typed
    <3>1. NotShutting => shutting_down' \in BOOLEAN /\ ended_by' \in Enders
      BY Zenon DEF NotShutting, TypeOK
    <3> QED BY ZenonT(60), <1>7, <2>1, <2>3, <2>4, <2>5, <2>6, <2>7, <2>8, <3>1
            DEF Schedule, ScheduleService
  <2> QED BY <1>7, <1>r, <2>2, <2>9 DEF Schedule, TypeOK
<1>8. CASE Next /\ ShutdownStep
  <2>1. cur \in Service
    BY <1>8, CurIsAService
  <2>2. cur - 1 \in -1 .. N /\ cur - 1 < N
    BY <2>1 DEF Service
  <2>3. /\ stop_sent' \in [Service -> BOOLEAN]
        /\ killed' \in [Service -> BOOLEAN]
        /\ due' \in [Service -> SUBSET Deadlines]
        /\ UNCHANGED <<state, proc, probe, exit, exit_code>>
    BY ZenonT(60), <1>8, <2>1, SendStopTyped DEF ShutdownStep, ShutdownService, EscalateStop, Skip,
       TypeOK
  <2> QED BY <1>8, <1>r, <2>2, <2>3 DEF ShutdownStep, TypeOK
<1>9. CASE Next /\ TurnEnd
  BY <1>9, <1>r DEF TypeOK, TurnEnd, svcVars, Phases
<1>10. ASSUME NEW i \in Service, Next, ProcExit(i) PROVE TypeOK'
  BY Zenon, <1>10, <1>r DEF TypeOK, ProcExit, loopVars, Procs
<1>11. ASSUME NEW i \in Service, Next, ProbeExit(i) PROVE TypeOK'
  BY <1>11, <1>r DEF TypeOK, ProbeExit, loopVars, Probes
<1>12. ASSUME NEW i \in Service, NEW d \in Deadlines, Next, Elapse(i, d) PROVE TypeOK'
  BY ZenonT(60), <1>12, <1>r DEF TypeOK, Elapse, loopVars
<1>13. CASE Next /\ SigTerm
  BY Zenon, <1>13, <1>r DEF TypeOK, SigTerm, svcVars
<1>14. CASE Next /\ SendCommand
  <2>1. PICK c \in Command : control' = Append(control, c)
    <3>1. 0 \in Service /\ Ops \subseteq {"START", "STOP", "RESTART"}
      BY DEF Service
    <3> QED BY ZenonT(60), <1>14, <3>1 DEF SendCommand, Command
  <2>2. control' \in Seq(Command) /\ sent' \in Nat
    BY <1>14, <2>1 DEF SendCommand, TypeOK
  <2> QED BY <1>14, <1>r, <2>2 DEF TypeOK, SendCommand, svcVars
<1>15. CASE Next /\ Ended
  BY <1>15, <1>r DEF TypeOK, Ended, svcVars, loopVars
<1> QED BY Zenon, <1>0, <1>1, <1>2, <1>3, <1>4, <1>5, <1>6, <1>7, <1>8, <1>9, <1>10, <1>11,
           <1>12, <1>13, <1>14, <1>15 DEF Next, Turn, Environment

\* Type correctness of the supervisor, for every table.
THEOREM TypeCorrect == Spec => []TypeOK
<1>1. Init => TypeOK
  <2> SUFFICES ASSUME Init PROVE TypeOK
    OBVIOUS
  <2>1. [kind |-> "none", value |-> 0] \in Status
    BY DEF Status
  <2>2. def \in [Service -> ServiceRecord] /\ 0 \in -1 .. N
    BY ConstantsAssumption DEF Init
  <2>3. control \in Seq(Command)
    BY SMTT(30) DEF Init
  <2> QED BY Zenon, <2>1, <2>2, <2>3 DEF Init, TypeOK, States, Procs, Probes, Phases, Enders
<1> QED BY <1>1, TypeStep, PTL DEF Spec

----------------------------------------------------------------------------
(* The invariants of one service. *)

\* The conjuncts of the inductive invariant that concern service k alone.
Sound(k) ==
  /\ Running(k) => state[k] \in {"STARTING", "READY"}
  /\ ~shutting_down /\ state[k] \in {"STARTING", "READY"} => Running(k)
  /\ operator_stopped[k] =>
       /\ ~restart_after_stop[k]
       /\ state[k] # "PENDING"
       /\ \/ shutting_down
          \/ Running(k) /\ stop_sent[k]
          \/ ~Running(k) /\ state[k] = "STOPPED"
  /\ restart_after_stop[k] /\ ~shutting_down => Running(k) /\ stop_sent[k]
  /\ killed[k] => stop_sent[k] /\ Running(k) /\ "stop_timeout" \in due[k]

\* The variables Sound(k) reads, as they are at k.
Kept(k) ==
  /\ state'[k] = state[k] /\ proc'[k] = proc[k] /\ due'[k] = due[k]
  /\ stop_sent'[k] = stop_sent[k] /\ killed'[k] = killed[k]
  /\ operator_stopped'[k] = operator_stopped[k]
  /\ restart_after_stop'[k] = restart_after_stop[k]

\* A service a step does not touch stays sound.
LEMMA KeptSound ==
  ASSUME NEW k \in Service, Sound(k), Kept(k), shutting_down' = shutting_down
  PROVE  Sound(k)'
  BY DEF Sound, Kept, Running

\* Sound is what the per-service invariants say together.
LEMMA SoundIsLocal ==
  (\A k \in Service : Sound(k)) <=>
    /\ ReadyMeansRunning /\ HeldStaysDown /\ RestartIsUnderWay /\ KillFollowsStop
    /\ HeldNotPending
  BY Zenon DEF Sound, ReadyMeansRunning, HeldStaysDown, RestartIsUnderWay, KillFollowsStop,
               HeldNotPending

\* What begin_shutdown() does to the state of one service.
LEMMA BeginShutdownEffect ==
  ASSUME NEW k \in Service, NEW st \in [Service -> States], NEW pr, NEW code, NEW why,
         BeginShutdown(st, pr, code, why)
  PROVE  /\ shutting_down'
         /\ st[k] \notin {"PENDING", "RESTART_WAIT"} => state'[k] = st[k]
         /\ st[k] \in {"PENDING", "RESTART_WAIT"} => state'[k] \in {st[k], "EXITED"}
<1>1. CASE shutting_down
  BY <1>1 DEF BeginShutdown
<1>2. CASE ~shutting_down
  BY Zenon, <1>2 DEF BeginShutdown, Shut
<1> QED BY <1>1, <1>2

\* A service is sound after a begin_shutdown() that finds it as it was.
LEMMA ShutSound ==
  ASSUME TypeOK, NEW k \in Service, Sound(k), NEW pr, NEW code, NEW why,
         BeginShutdown(state, pr, code, why),
         proc'[k] = proc[k], due'[k] = due[k], stop_sent'[k] = stop_sent[k],
         killed'[k] = killed[k], operator_stopped'[k] = operator_stopped[k],
         restart_after_stop'[k] = restart_after_stop[k]
  PROVE  Sound(k)'
<1>1. state \in [Service -> States]
  BY Zenon DEF TypeOK
<1>2. /\ shutting_down'
      /\ state[k] \notin {"PENDING", "RESTART_WAIT"} => state'[k] = state[k]
      /\ state[k] \in {"PENDING", "RESTART_WAIT"} => state'[k] \in {state[k], "EXITED"}
  BY Zenon, <1>1, BeginShutdownEffect
<1> QED BY Zenon, <1>2 DEF Sound, Running

\* service_exited() leaves every service sound.
LEMMA ServiceExitedSound ==
  ASSUME TypeOK, \A k \in Service : Sound(k),
         NEW i \in Service, NEW w \in Statuses, ServiceExited(i, w),
         NEW k \in Service
  PROVE  Sound(k)'
<1> DEFINE pr == [probe EXCEPT ![i] = "none"]
           ev == <<Report(i, "EXITED", w.kind, w.value)>>
<1>0. /\ state \in [Service -> States] /\ Sound(i) /\ Sound(k)
      /\ restart_after_stop \in [Service -> BOOLEAN]
  BY DEF TypeOK
<1>1. /\ proc'[i] = "none" /\ ~stop_sent'[i] /\ ~killed'[i]
      /\ operator_stopped' = operator_stopped
      /\ k # i => /\ proc'[k] = proc[k] /\ stop_sent'[k] = stop_sent[k]
                  /\ killed'[k] = killed[k] /\ due'[k] = due[k]
  BY Zenon DEF ServiceExited, TypeOK
<1>2. \/ ExitedInShutdown(i, pr, ev)
      \/ ExitedAsAsked(i, w, pr, ev)
      \/ /\ ~shutting_down /\ ~restart_after_stop[i] /\ ~operator_stopped[i]
         /\ UNCHANGED restart_after_stop
         /\ ExitedOneshot(i, w, pr, ev) \/ ExitedDaemon(i, w, pr, ev)
  BY Zenon DEF ServiceExited
<1> HIDE DEF pr, ev
<1>3. CASE ExitedInShutdown(i, pr, ev)
  <2>1. /\ state'[i] = "EXITED" /\ shutting_down /\ shutting_down'
        /\ k # i => state'[k] = state[k]
        /\ restart_after_stop' = restart_after_stop
    BY SMTT(30), <1>0, <1>3 DEF ExitedInShutdown
  <2> QED BY Zenon, <1>0, <1>1, <2>1 DEF Sound, Running
<1>4. CASE ExitedAsAsked(i, w, pr, ev)
  <2>1. /\ ~shutting_down /\ ~shutting_down'
        /\ k # i => state'[k] = state[k] /\ restart_after_stop'[k] = restart_after_stop[k]
        /\ ~restart_after_stop'[i]
        /\ \/ restart_after_stop[i] /\ state'[i] = "PENDING"
           \/ operator_stopped[i] /\ state'[i] = "STOPPED"
    <3>1. ASSUME NEW st, NEW ev1, ExitedTo(i, st, w, pr, ev1)
          PROVE  /\ state'[i] = st /\ (k # i => state'[k] = state[k])
                 /\ UNCHANGED shutting_down
      BY <1>0, <3>1 DEF ExitedTo
    <3>2. CASE ~restart_after_stop[i]
      BY ZenonT(60), <1>0, <1>4, <3>1, <3>2 DEF ExitedAsAsked
    <3>3. CASE restart_after_stop[i]
      BY <1>0, <1>4, <3>1, <3>3 DEF ExitedAsAsked
    <3> QED BY <3>2, <3>3
  <2> QED BY Zenon, <1>0, <1>1, <2>1 DEF Sound, Running
<1>5. CASE /\ ~shutting_down /\ ~restart_after_stop[i] /\ ~operator_stopped[i]
           /\ UNCHANGED restart_after_stop
           /\ ExitedOneshot(i, w, pr, ev) \/ ExitedDaemon(i, w, pr, ev)
  <2>1. \/ \E st \in {"EXITED", "FAILED", "RESTART_WAIT"} : \E ev1 : ExitedTo(i, st, w, pr, ev1)
        \/ BeginShutdown(state, pr, MappedStatus(w), "service")
    <3>1. CASE ExitedOneshot(i, w, pr, ev)
      BY <3>1, Zenon DEF ExitedOneshot
    <3>2. CASE ExitedDaemon(i, w, pr, ev)
      BY ZenonT(60), <3>2, Zenon DEF ExitedDaemon
    <3> QED BY <1>5, <3>1, <3>2
  <2>2. ASSUME NEW st \in {"EXITED", "FAILED", "RESTART_WAIT"}, NEW ev1,
               ExitedTo(i, st, w, pr, ev1)
        PROVE  Sound(k)'
    <3>1. state'[i] = st /\ (k # i => state'[k] = state[k]) /\ ~shutting_down'
      BY <1>0, <1>5, <2>2 DEF ExitedTo
    <3> QED BY Zenon, <1>0, <1>1, <1>5, <3>1 DEF Sound, Running
  <2>3. CASE BeginShutdown(state, pr, MappedStatus(w), "service")
    <3>1. /\ shutting_down'
          /\ state[k] \notin {"PENDING", "RESTART_WAIT"} => state'[k] = state[k]
          /\ state[k] \in {"PENDING", "RESTART_WAIT"} => state'[k] \in {state[k], "EXITED"}
      BY Zenon, <1>0, <2>3, BeginShutdownEffect
    <3> QED BY Zenon, <1>0, <1>1, <1>5, <3>1 DEF Sound, Running
  <2> QED BY Zenon, <2>1, <2>2, <2>3
<1> QED BY <1>2, <1>3, <1>4, <1>5

\* So does every command.
LEMMA HandleCommandSound ==
  ASSUME TypeOK, \A k \in Service : Sound(k), HandleCommand, NEW k \in Service
  PROVE  Sound(k)'
<1> DEFINE c == Head(control)
           i == c.service
<1>1. i \in Service
  <2>1. c \in Command
    BY DEF HandleCommand, TypeOK
  <2> QED BY Zenon, <2>1 DEF Command
<1>2. UNCHANGED <<proc, killed>> /\ Sound(k) /\ Sound(i)
  BY Zenon, <1>1 DEF HandleCommand
<1>3. \/ /\ BeginShutdown(state, probe, 0, "orderly")
         /\ UNCHANGED <<stop_sent, operator_stopped, restart_after_stop, due>>
      \/ /\ HandleStart(i) \/ HandleStop(i) \/ HandleRestart(i)
         /\ UNCHANGED shutting_down
  BY Zenon DEF HandleCommand
<1> HIDE DEF i, c
<1>4. CASE /\ BeginShutdown(state, probe, 0, "orderly")
           /\ UNCHANGED <<stop_sent, operator_stopped, restart_after_stop, due>>
  BY Zenon, <1>2, <1>4, ShutSound
<1> USE DEF TypeOK
<1>5. CASE HandleStart(i) /\ UNCHANGED shutting_down
  <2>1. CASE k = i
    <3>1. CASE ~Running(i) /\ state[i] # "PENDING"
      BY ZenonT(60), <1>1, <1>2, <1>5, <2>1, <3>1 DEF HandleStart, Sound, Running
    <3>2. CASE ~(~Running(i) /\ state[i] # "PENDING")
      BY <1>1, <1>2, <1>5, <2>1, <3>2 DEF HandleStart, Sound, Running
    <3> QED BY Zenon, <3>1, <3>2
  <2>2. CASE k # i
    BY Zenon, <1>1, <1>2, <1>5, <2>2, KeptSound DEF HandleStart, Kept
  <2> QED BY Zenon, <2>1, <2>2
<1>6. CASE HandleStop(i) /\ UNCHANGED shutting_down
  BY ZenonT(60), <1>1, <1>2, <1>6 DEF HandleStop, SendStop, Sound, Running
<1>7. CASE HandleRestart(i) /\ UNCHANGED shutting_down
  BY <1>1, <1>2, <1>7 DEF HandleRestart, SendStop, Sound, Running
<1> QED BY <1>3, <1>4, <1>5, <1>6, <1>7

\* A pass of schedule() over service i leaves every service sound.
LEMMA ScheduleServiceSound ==
  ASSUME TypeOK, \A k \in Service : Sound(k), NEW i \in Service, ScheduleService(i),
         UNCHANGED <<operator_stopped, restart_after_stop>>, NEW k \in Service
  PROVE  Sound(k)'
<1>0. Sound(i) /\ Sound(k) /\ state \in [Service -> States]
  BY DEF TypeOK
<1>1. CASE Skip /\ NotShutting
  BY Zenon, <1>0, <1>1, KeptSound DEF Skip, NotShutting, Kept
<1>2. ASSUME StartService(i), NotShutting, state[i] \in {"PENDING", "RESTART_WAIT"},
             state[i] = "PENDING" => ~operator_stopped[i]
      PROVE  Sound(k)'
  <2>1. CASE Forked(i)
    <3>1. CASE k = i
      <4>1. /\ proc'[i] = "live" /\ state'[i] \in {"READY", "STARTING"}
            /\ ~stop_sent'[i] /\ ~killed'[i]
        BY <2>1 DEF Forked, TypeOK
      <4> QED BY Zenon, <1>0, <1>2, <3>1, <4>1 DEF Sound, Running, NotShutting
    <3>2. CASE k # i
      BY ZenonT(60), <1>0, <1>2, <2>1, <3>2, KeptSound DEF Forked, NotShutting, Kept, TypeOK
    <3> QED BY Zenon, <3>1, <3>2
  <2>2. CASE ForkFailed(i)
    <3>1. CASE k = i
      <4>1. state'[i] = "FAILED" /\ UNCHANGED <<proc, stop_sent, killed, due, shutting_down>>
        BY Zenon, <1>2, <2>2 DEF ForkFailed, TypeOK, NotShutting
      <4> QED BY <1>0, <1>2, <3>1, <4>1 DEF Sound, Running
    <3>2. CASE k # i
      BY Zenon, <1>0, <1>2, <2>2, <3>2, KeptSound DEF ForkFailed, NotShutting, Kept, TypeOK
    <3> QED BY Zenon, <3>1, <3>2
  <2> QED BY Zenon, <1>2, <2>1, <2>2 DEF StartService
<1>3. CASE state[i] = "PENDING" /\ SchedulePending(i)
  <2>1. ASSUME ~operator_stopped[i], NEW dead, FailPending(i, dead) PROVE Sound(k)'
    <3> DEFINE failed == [state EXCEPT ![i] = "FAILED"]
               code == IF state[dead] = "FAILED" THEN MappedStatus(exit[dead]) ELSE 1
    <3>1. failed \in [Service -> States] /\ failed[i] = "FAILED"
          /\ (k # i => failed[k] = state[k])
      BY Zenon DEF TypeOK, States
    <3>2. /\ UNCHANGED <<proc, stop_sent, killed, due>>
          /\ \/ BeginShutdown(failed, probe, code, "service")
             \/ state' = failed /\ UNCHANGED shutting_down
      BY ZenonT(60), <2>1 DEF FailPending, NotShutting
    <3> HIDE DEF failed, code
    <3>3. CASE state' = failed /\ UNCHANGED shutting_down
      BY <1>0, <1>3, <2>1, <3>1, <3>2, <3>3 DEF Sound, Running
    <3>4. CASE BeginShutdown(failed, probe, code, "service")
      <4>1. /\ shutting_down'
            /\ failed[k] \notin {"PENDING", "RESTART_WAIT"} => state'[k] = failed[k]
            /\ failed[k] \in {"PENDING", "RESTART_WAIT"} => state'[k] \in {failed[k], "EXITED"}
        BY Zenon, <3>1, <3>4, BeginShutdownEffect
      <4> QED BY ZenonT(60), <1>0, <1>3, <2>1, <3>1, <3>2, <4>1 DEF Sound, Running
    <3> QED BY Zenon, <3>2, <3>3, <3>4
  <2> QED BY Zenon, <1>1, <1>2, <1>3, <2>1 DEF SchedulePending
<1>4. CASE EscalateStop(i) /\ NotShutting
  <2>1. CASE Running(i) /\ stop_sent[i] /\ ~killed[i] /\ "stop_timeout" \in due[i]
    BY Zenon, <1>0, <1>4, <2>1 DEF EscalateStop, NotShutting, Sound, Running, TypeOK
  <2>2. CASE ~(Running(i) /\ stop_sent[i] /\ ~killed[i] /\ "stop_timeout" \in due[i])
    BY Zenon, <1>1, <1>4, <2>2 DEF EscalateStop
  <2> QED BY <2>1, <2>2
<1>5. CASE ProbeConnect(i) /\ NotShutting /\ state[i] = "STARTING"
  <2>1. ASSUME NEW ev, BecomeReady(i, ev) PROVE Sound(k)'
    <3>1. /\ state'[i] = "READY" /\ (k # i => state'[k] = state[k])
          /\ UNCHANGED <<proc, stop_sent, killed, due, shutting_down>>
      BY <1>0, <1>5, <2>1 DEF BecomeReady, NotShutting
    <3> QED BY Zenon, <1>0, <1>5, <3>1 DEF Sound, Running
  <2> QED BY Zenon, <1>1, <1>5, <2>1 DEF ProbeConnect
<1>6. CASE ProbeCommand(i) /\ NotShutting
  <2>1. CASE ~Skip
    <3>1. /\ UNCHANGED <<state, proc, stop_sent, killed, shutting_down>>
          /\ \/ due' = due
             \/ due' = [due EXCEPT ![i] = due[i] \ {"probe_pid_deadline"}]
      BY <1>6, <2>1 DEF ProbeCommand, NotShutting
    <3>2. "stop_timeout" \in due[k] => "stop_timeout" \in due'[k]
      BY ZenonT(60), <3>1 DEF TypeOK
    <3> QED BY Zenon, <1>0, <3>1, <3>2 DEF Sound, Running
  <2> QED BY <1>1, <1>6, <2>1
<1> QED BY Zenon, <1>1, <1>2, <1>3, <1>4, <1>5, <1>6 DEF ScheduleService

\* Every step leaves every service sound.
LEMMA SoundStep ==
  ASSUME TypeOK, \A k \in Service : Sound(k), [Next]_vars, NEW k \in Service
  PROVE  Sound(k)'
<1>0. Sound(k)
  OBVIOUS
<1>1. CASE UNCHANGED svcVars /\ UNCHANGED shutting_down
  BY <1>0, <1>1, KeptSound DEF svcVars, Kept
<1>2. ASSUME NEW i \in Service, ReapService(i) PROVE Sound(k)'
  BY Zenon, <1>2, ServiceExitedSound DEF ReapService
<1>3. ASSUME NEW i \in Service, ReapProbe(i) PROVE Sound(k)'
  <2>1. /\ UNCHANGED <<proc, stop_sent, killed, operator_stopped, restart_after_stop, due>>
        /\ UNCHANGED shutting_down
        /\ \/ state' = state
           \/ state[i] = "STARTING" /\ state' = [state EXCEPT ![i] = "READY"]
    BY Zenon, <1>3 DEF ReapProbe, loopVars
  <2> QED BY <1>0, <2>1 DEF Sound, Running, TypeOK
<1>4. CASE ReapDone
  <2>1. CASE sigterm
    BY Zenon, <1>0, <1>4, <2>1, ShutSound DEF ReapDone
  <2>2. CASE ~sigterm
    BY Zenon, <1>0, <1>4, <2>2, KeptSound DEF ReapDone, Kept
  <2> QED BY <2>1, <2>2
<1>5. CASE HandleCommand
  BY Zenon, <1>5, HandleCommandSound
<1>6. CASE Schedule
  <2>1. cur \in Service
    BY <1>6, CurIsAService
  <2> QED BY <1>6, <2>1, ScheduleServiceSound DEF Schedule
<1>7. CASE ShutdownStep
  <2>1. cur \in Service
    BY <1>7, CurIsAService
  <2>2. /\ ShutdownService(cur)
        /\ UNCHANGED <<operator_stopped, restart_after_stop, shutting_down>>
    BY Zenon, <1>7 DEF ShutdownStep
  <2>3. CASE Skip
    BY Zenon, <1>0, <2>2, <2>3, KeptSound DEF Skip, Kept
  <2>4. CASE ~Skip
    BY SMTT(30), <1>0, <2>1, <2>2, <2>4 DEF ShutdownService, SendStop, EscalateStop, Sound,
       Running, TypeOK
  <2> QED BY <2>3, <2>4
<1>8. ASSUME NEW i \in Service, ProcExit(i) PROVE Sound(k)'
  BY <1>0, <1>8 DEF ProcExit, Sound, Running, TypeOK, loopVars
<1>9. ASSUME NEW i \in Service, ProbeExit(i) PROVE Sound(k)'
  BY Zenon, <1>0, <1>9, KeptSound DEF ProbeExit, Kept, loopVars
<1>10. ASSUME NEW i \in Service, NEW d \in Deadlines, Elapse(i, d) PROVE Sound(k)'
  BY <1>0, <1>10 DEF Elapse, Sound, Running, TypeOK, loopVars
<1>11. CASE ReadTable \/ ControlDone \/ TurnEnd \/ SigTerm \/ SendCommand \/ Ended \/ UNCHANGED vars
  BY Zenon, <1>1, <1>11 DEF ReadTable, ControlDone, TurnEnd, SigTerm, SendCommand, Ended, vars,
     loopVars
<1> QED BY Zenon, <1>2, <1>3, <1>4, <1>5, <1>6, <1>7, <1>8, <1>9, <1>10, <1>11
        DEF Next, Turn, Environment

\* The fields of struct svc stay consistent, whatever order exits, commands and
\* deadlines take: service_exited(), handle_command() and the passes keep them so.
LEMMA ServicesInvariant ==
  Spec => [](ReadyMeansRunning /\ HeldStaysDown /\ RestartIsUnderWay /\ KillFollowsStop
             /\ HeldNotPending)
<1> DEFINE Local == \A k \in Service : Sound(k)
<1>1. Init => Local
  BY DEF Init, Sound, Running
<1>2. TypeOK /\ Local /\ [Next]_vars => Local'
  BY SoundStep
<1>3. Local => /\ ReadyMeansRunning /\ HeldStaysDown /\ RestartIsUnderWay /\ KillFollowsStop
               /\ HeldNotPending
  BY SoundIsLocal
<1> HIDE DEF Local
<1> QED BY <1>1, <1>2, <1>3, TypeCorrect, PTL DEF Spec

\* A service that runs is STARTING or READY and, outside a shutdown, one in
\* those states runs: start_service() and service_exited() move state and pid
\* together, so dep_ready() never answers for a process that is gone.
THEOREM ReadyServicesRun == Spec => []ReadyMeansRunning
  BY ServicesInvariant, PTL

\* What CIXINIT_OP_STOP stopped is down or on its way down until
\* CIXINIT_OP_START or RESTART: no path of service_exited() or schedule()
\* starts it, and no restart is left pending behind the hold.
THEOREM StopsHold == Spec => []HeldStaysDown
  BY ServicesInvariant, PTL

\* While CIXINIT_OP_RESTART is pending the service runs with its stop signal
\* sent, so the exit that service_exited() turns into a start is to come.
THEOREM RestartsAreUnderWay == Spec => []RestartIsUnderWay
  BY ServicesInvariant, PTL

\* escalate_stop() kills only the incarnation whose stop signal was sent and
\* whose timeout passed: no fork inherits the mark of the one before it.
THEOREM KillsFollowStops == Spec => []KillFollowsStop
  BY ServicesInvariant, PTL

----------------------------------------------------------------------------
(* The shutdown. *)

Waiting == {"PENDING", "RESTART_WAIT"}

\* A step of schedule() in a pass that has already begun the shutdown.
LEMMA ScheduleAfterShutdown ==
  ASSUME TypeOK, NEW i \in Service, ScheduleService(i), shutting_down,
         \A k \in Service : state[k] \notin Waiting
  PROVE  /\ shutting_down' /\ exit_code' = exit_code /\ ended_by' = ended_by
         /\ \A k \in Service : state'[k] \notin Waiting
         /\ proc' = proc
<1>0. state \in [Service -> States]
  BY DEF TypeOK
<1>1. CASE Skip /\ NotShutting
  BY ZenonT(60), <1>1 DEF Skip, NotShutting
<1>2. CASE EscalateStop(i) /\ NotShutting
  BY Zenon, <1>1, <1>2 DEF EscalateStop, NotShutting
<1>3. CASE ProbeConnect(i) /\ NotShutting
  <2>1. ASSUME NEW ev, BecomeReady(i, ev)
        PROVE /\ exit_code' = exit_code /\ proc' = proc
              /\ \A k \in Service : state'[k] \notin Waiting
    BY ZenonT(60), <1>0, <2>1 DEF BecomeReady, Waiting
  <2> QED BY Zenon, <1>1, <1>3, <2>1 DEF ProbeConnect, NotShutting
<1>4. CASE ProbeCommand(i) /\ NotShutting
  BY <1>1, <1>4 DEF ProbeCommand, NotShutting
<1> QED BY Zenon, <1>1, <1>2, <1>3, <1>4 DEF ScheduleService, Waiting

\* The step of schedule() that begins one.
LEMMA ScheduleBeginsShutdown ==
  ASSUME TypeOK, NEW i \in Service, ScheduleService(i), ~shutting_down
  PROVE  \/ shutting_down' = shutting_down /\ ended_by' = ended_by
         \/ /\ shutting_down' /\ ended_by' = "service"
            /\ \A k \in Service : state'[k] \notin Waiting
<1>1. CASE NotShutting
  BY <1>1 DEF NotShutting
<1>2. CASE ~NotShutting
  <2>1. PICK dead \in DeadDep(i) : FailPending(i, dead)
    BY Zenon, <1>2 DEF ScheduleService, SchedulePending
  <2> DEFINE failed == [state EXCEPT ![i] = "FAILED"]
             code == IF state[dead] = "FAILED" THEN MappedStatus(exit[dead]) ELSE 1
  <2>2. BeginShutdown(failed, probe, code, "service")
    BY Zenon, <1>2, <2>1 DEF FailPending
  <2>3. failed \in [Service -> States]
    BY DEF TypeOK, States
  <2> HIDE DEF failed, code
  <2> QED BY Zenon, <2>2, <2>3 DEF BeginShutdown, Shut, Waiting
<1> QED BY <1>1, <1>2

\* begin_shutdown() called with a status by a service, or with 0.
LEMMA BeginShutdownCode ==
  ASSUME TypeOK, CodeIsFixed, NEW st, NEW pr, NEW code, NEW why \in {"orderly", "service"},
         why = "orderly" => code = 0,
         BeginShutdown(st, pr, code, why)
  PROVE  CodeIsFixed'
<1>1. CASE shutting_down
  BY Zenon, <1>1 DEF BeginShutdown, CodeIsFixed
<1>2. CASE ~shutting_down
  BY Zenon, <1>2 DEF BeginShutdown, CodeIsFixed
<1> QED BY <1>1, <1>2

\* Every step keeps what ties the exit code to whoever began the shutdown.
LEMMA ShutdownStepInv ==
  ASSUME TypeOK, PassIsOver, FreshUntilRead, CodeIsFixed, [Next]_vars
  PROVE  PassIsOver' /\ FreshUntilRead' /\ CodeIsFixed'
<1>0. CASE UNCHANGED vars
  BY Zenon, <1>0 DEF vars, svcVars, loopVars, PassIsOver, FreshUntilRead, CodeIsFixed,
     ValidTable
<1>1. CASE ReadTable
  <2>1. UNCHANGED <<def, state, proc, shutting_down, ended_by>> /\ ~shutting_down
        /\ pc' \in {"reap", "exited"} /\ (pc' = "reap" => ValidTable)
    BY Zenon, <1>1 DEF ReadTable, svcVars, FreshUntilRead
  <2> QED BY <2>1 DEF PassIsOver, FreshUntilRead, CodeIsFixed, ValidTable
<1>2. CASE pc' = pc /\ pc = "reap" /\ def' = def /\ CodeIsFixed'
  BY <1>2 DEF PassIsOver, FreshUntilRead, ValidTable
<1>3. ASSUME NEW i \in Service, ReapService(i) PROVE PassIsOver' /\ FreshUntilRead' /\ CodeIsFixed'
  <2>1. PICK w \in Statuses : ServiceExited(i, w)
    BY <1>3 DEF ReapService
  <2> DEFINE pr == [probe EXCEPT ![i] = "none"]
             ev == <<Report(i, "EXITED", w.kind, w.value)>>
  <2>2. \/ ExitedInShutdown(i, pr, ev)
        \/ ExitedAsAsked(i, w, pr, ev)
        \/ ~shutting_down /\ (ExitedOneshot(i, w, pr, ev) \/ ExitedDaemon(i, w, pr, ev))
    BY Zenon, <2>1 DEF ServiceExited
  <2> HIDE DEF pr, ev
  <2>3. CodeIsFixed'
    <3>1. CASE ExitedInShutdown(i, pr, ev)
      BY <3>1 DEF ExitedInShutdown, CodeIsFixed
    <3>2. ASSUME ~shutting_down, NEW st, NEW ev1, ExitedTo(i, st, w, pr, ev1)
          PROVE  CodeIsFixed'
      BY <3>2 DEF ExitedTo, CodeIsFixed
    <3>3. CASE ExitedAsAsked(i, w, pr, ev)
      BY Zenon, <3>2, <3>3 DEF ExitedAsAsked
    <3>4. CASE BeginShutdown(state, pr, MappedStatus(w), "service")
      BY <3>4, BeginShutdownCode
    <3>5. CASE ~shutting_down /\ ExitedOneshot(i, w, pr, ev)
      BY <3>2, <3>4, <3>5, Zenon DEF ExitedOneshot
    <3>6. CASE ~shutting_down /\ ExitedDaemon(i, w, pr, ev)
      BY <3>2, <3>4, <3>6, Zenon DEF ExitedDaemon
    <3> QED BY <2>2, <3>1, <3>3, <3>5, <3>6
  <2> QED BY Zenon, <1>2, <1>3, <2>1, <2>3 DEF ReapService, ServiceExited
<1>4. ASSUME NEW i \in Service, ReapProbe(i) PROVE PassIsOver' /\ FreshUntilRead' /\ CodeIsFixed'
  BY Zenon, <1>2, <1>4 DEF ReapProbe, loopVars, CodeIsFixed
<1>5. CASE ReapDone
  <2>1. CodeIsFixed'
    <3>1. CASE sigterm
      BY Zenon, <1>5, <3>1, BeginShutdownCode DEF ReapDone
    <3>2. CASE ~sigterm
      BY Zenon, <1>5, <3>2 DEF ReapDone, CodeIsFixed
    <3> QED BY Zenon, <3>1, <3>2
  <2> QED BY <1>5, <2>1 DEF ReapDone, PassIsOver, FreshUntilRead, ValidTable
<1>6. CASE HandleCommand
  <2>1. CodeIsFixed'
    <3>1. CASE BeginShutdown(state, probe, 0, "orderly")
      BY <3>1, BeginShutdownCode
    <3>2. CASE UNCHANGED <<shutting_down, exit_code, ended_by>>
      BY <3>2 DEF CodeIsFixed
    <3> QED BY <1>6, <3>1, <3>2 DEF HandleCommand
  <2> QED BY Zenon, <1>6, <2>1 DEF HandleCommand, PassIsOver, FreshUntilRead, ValidTable
<1>7. CASE Schedule
  <2>1. cur \in Service /\ ScheduleService(cur) /\ UNCHANGED <<def, pc>> /\ pc = "schedule"
    BY Zenon, <1>7, CurIsAService DEF Schedule
  <2>2. CASE shutting_down
    <3>1. /\ shutting_down' /\ exit_code' = exit_code /\ ended_by' = ended_by
          /\ \A k \in Service : state'[k] \notin Waiting
      BY ZenonT(60), <2>1, <2>2, ScheduleAfterShutdown DEF PassIsOver, Waiting
    <3> QED BY Zenon, <2>1, <2>2, <3>1 DEF PassIsOver, FreshUntilRead, CodeIsFixed, ValidTable,
               Waiting
  <2>3. CASE ~shutting_down
    <3>1. \/ shutting_down' = shutting_down /\ ended_by' = ended_by
          \/ /\ shutting_down' /\ ended_by' = "service"
             /\ \A k \in Service : state'[k] \notin Waiting
      BY Zenon, <2>1, <2>3, ScheduleBeginsShutdown
    <3> QED BY <2>1, <2>3, <3>1 DEF PassIsOver, FreshUntilRead, CodeIsFixed, ValidTable, Waiting
  <2> QED BY Zenon, <2>2, <2>3
<1>8. CASE ShutdownStep
  <2>1. /\ UNCHANGED <<def, pc, shutting_down, ended_by, exit_code>> /\ pc = "shutdown"
    BY Zenon, <1>8 DEF ShutdownStep, ShutdownService, EscalateStop, Skip
  <2> QED BY Zenon, <2>1 DEF PassIsOver, FreshUntilRead, CodeIsFixed, ValidTable
<1>9. CASE ControlDone
  BY Zenon, <1>9 DEF ControlDone, svcVars, PassIsOver, FreshUntilRead, CodeIsFixed, ValidTable
<1>10. CASE TurnEnd
  <2>1. UNCHANGED <<def, shutting_down, ended_by, exit_code>> /\ pc' \in {"reap", "exited"}
        /\ pc \in {"schedule", "shutdown"}
    BY Zenon, <1>10 DEF TurnEnd, svcVars
  <2> QED BY Zenon, <2>1 DEF PassIsOver, FreshUntilRead, CodeIsFixed, ValidTable
<1>11. ASSUME NEW i \in Service, ProcExit(i) \/ ProbeExit(i) \/ \E d \in Deadlines : Elapse(i, d)
       PROVE  PassIsOver' /\ FreshUntilRead' /\ CodeIsFixed'
  <2>1. UNCHANGED <<def, state, pc, shutting_down, ended_by, exit_code>>
        /\ (proc' = proc \/ (proc[i] = "live" /\ proc' = [proc EXCEPT ![i] = "zombie"]))
    BY Zenon, <1>11 DEF ProcExit, ProbeExit, Elapse, loopVars
  <2> QED BY Zenon, <2>1 DEF PassIsOver, FreshUntilRead, CodeIsFixed, ValidTable
<1>12. CASE SigTerm \/ SendCommand \/ Ended
  <2>1. UNCHANGED <<def, state, proc, pc, shutting_down, ended_by, exit_code>>
    BY <1>12 DEF SigTerm, SendCommand, Ended, svcVars, loopVars
  <2> QED BY Zenon, <2>1 DEF PassIsOver, FreshUntilRead, CodeIsFixed, ValidTable
<1> QED BY <1>0, <1>1, <1>3, <1>4, <1>5, <1>6, <1>7, <1>8, <1>9, <1>10, <1>11, <1>12
        DEF Next, Turn, Environment

\* The three facts about phases, as an invariant.
LEMMA ShutdownInvariant == Spec => [](PassIsOver /\ FreshUntilRead /\ CodeIsFixed)
<1>1. Init => PassIsOver /\ FreshUntilRead /\ CodeIsFixed
  BY DEF Init, PassIsOver, FreshUntilRead, CodeIsFixed
<1>2. TypeOK /\ (PassIsOver /\ FreshUntilRead /\ CodeIsFixed) /\ [Next]_vars
        => (PassIsOver /\ FreshUntilRead /\ CodeIsFixed)'
  BY ShutdownStepInv
<1> QED BY <1>1, <1>2, TypeCorrect, PTL DEF Spec

\* An orderly shutdown exits 0: begin_shutdown(0) fixes g_exit_code, and no
\* exit, spawn failure or later begin_shutdown() changes it.
THEOREM OrderlyExitIsZero == Spec => []OrderlyExitsZero
<1>1. CodeIsFixed => OrderlyExitsZero
  BY DEF CodeIsFixed, OrderlyExitsZero
<1> QED BY <1>1, ShutdownInvariant, PTL

\* Once begin_shutdown() has run no step forks a service, changes the exit
\* code or leaves the shutdown, from the rest of that schedule() pass on.
THEOREM ShutdownOnlyStopsHolds == Spec => ShutdownOnlyStops
<1> DEFINE Step == shutting_down => /\ shutting_down'
                                    /\ exit_code' = exit_code
                                    /\ \A i \in Service : Running(i)' => Running(i)
<1>1. TypeOK /\ (PassIsOver /\ FreshUntilRead /\ CodeIsFixed) /\ [Next]_vars => [Step]_vars
  <2> SUFFICES ASSUME TypeOK, PassIsOver, FreshUntilRead, Next, shutting_down
               PROVE  /\ shutting_down'
                      /\ exit_code' = exit_code
                      /\ \A i \in Service : Running(i)' => Running(i)
    BY Zenon DEF vars
  <2>1. ASSUME NEW st, NEW pr, NEW code, NEW why, BeginShutdown(st, pr, code, why)
        PROVE  shutting_down' /\ exit_code' = exit_code
    BY <2>1 DEF BeginShutdown
  <2>2. ASSUME NEW i \in Service, ReapService(i)
        PROVE  /\ shutting_down' /\ exit_code' = exit_code
               /\ proc' = [proc EXCEPT ![i] = "none"]
    BY ZenonT(60), <2>2 DEF ReapService, ServiceExited, ExitedInShutdown, ExitedAsAsked
  <2>3. CASE ReadTable
    BY <2>3 DEF ReadTable, FreshUntilRead
  <2>4. CASE ReapDone
    BY Zenon, <2>1, <2>4 DEF ReapDone, Running
  <2>5. CASE HandleCommand
    BY Zenon, <2>1, <2>5 DEF HandleCommand, Running
  <2>6. CASE Schedule
    <3>1. cur \in Service /\ ScheduleService(cur) /\ \A k \in Service : state[k] \notin Waiting
      BY Zenon, <2>6, CurIsAService DEF Schedule, PassIsOver, Waiting
    <3> QED BY Zenon, <3>1, ScheduleAfterShutdown DEF Running
  <2>7. CASE ShutdownStep
    BY Zenon, <2>7 DEF ShutdownStep, ShutdownService, EscalateStop, Skip, Running
  <2>8. ASSUME NEW i \in Service,
               ReapProbe(i) \/ ProcExit(i) \/ ProbeExit(i) \/ \E d \in Deadlines : Elapse(i, d)
        PROVE  /\ shutting_down' /\ exit_code' = exit_code
               /\ \A k \in Service : Running(k)' => Running(k)
    <3>1. UNCHANGED <<shutting_down, exit_code>>
      BY Zenon, <2>8 DEF ReapProbe, ProcExit, ProbeExit, Elapse, loopVars
    <3>2. proc' = proc \/ (proc[i] = "live" /\ proc' = [proc EXCEPT ![i] = "zombie"])
      BY Zenon, <2>8 DEF ReapProbe, ProcExit, ProbeExit, Elapse
    <3> QED BY <3>1, <3>2 DEF Running, TypeOK
  <2>9. CASE ControlDone \/ TurnEnd \/ SigTerm \/ SendCommand \/ Ended
    BY Zenon, <2>9 DEF ControlDone, TurnEnd, SigTerm, SendCommand, Ended, svcVars, loopVars,
       Running
  <2>10. ASSUME NEW i \in Service, ReapService(i)
         PROVE \A k \in Service : Running(k)' => Running(k)
    BY <2>2, <2>10 DEF Running, TypeOK
  <2> QED BY <2>2, <2>3, <2>4, <2>5, <2>6, <2>7, <2>8, <2>9, <2>10 DEF Next, Turn, Environment
<1> QED BY <1>1, TypeCorrect, ShutdownInvariant, PTL DEF Spec, ShutdownOnlyStops

\* shutdown_step() signals a service only when every service `after' it has
\* been reaped: has_running_dependent() looks only further down the table,
\* which is enough because read_table() refused any other table.
THEOREM DependentsStopFirstHolds == Spec => DependentsStopFirst
<1>1. TypeOK /\ FreshUntilRead /\ [Next]_vars =>
        [pc = "shutdown" =>
           \A i \in Service : stop_sent'[i] /\ ~stop_sent[i] =>
             \A j \in Service : i \in def[j].after => ~Running(j)]_vars
  <2> SUFFICES ASSUME TypeOK, FreshUntilRead, Next, pc = "shutdown",
                      NEW i \in Service, stop_sent'[i], ~stop_sent[i],
                      NEW j \in Service, i \in def[j].after
               PROVE  ~Running(j)
    BY Zenon DEF vars
  <2>1. CASE ShutdownStep
    <3>1. cur \in Service /\ ShutdownService(cur)
      BY Zenon, <2>1, CurIsAService DEF ShutdownStep
    <3>2. i = cur /\ ~HasRunningDependent(cur)
      BY Zenon, <3>1 DEF ShutdownService, SendStop, EscalateStop, Skip, TypeOK
    <3>3. i < j
      BY Zenon DEF FreshUntilRead, ValidTable
    <3> QED BY Zenon, <3>2, <3>3 DEF HasRunningDependent
  <2>2. CASE UNCHANGED stop_sent
    BY Zenon, <2>2
  <2> QED BY Zenon, <2>1, <2>2 DEF Next, Turn, Environment, ReadTable, ReapService, ReapProbe,
             ReapDone,
        HandleCommand, ControlDone, Schedule, TurnEnd, ProcExit, ProbeExit, Elapse, SigTerm,
        SendCommand, Ended, svcVars
<1> QED BY <1>1, TypeCorrect, ShutdownInvariant, PTL DEF Spec, DependentsStopFirst

----------------------------------------------------------------------------
(* The start order. *)

\* What a step that changes neither process nor status of k can do to HasRun(k).
LEMMA HasRunKept ==
  ASSUME NEW k \in Service, proc'[k] = proc[k] \/ (proc[k] = "live" /\ proc'[k] # "none"),
         exit'[k] = exit[k],
         \/ state'[k] = state[k]
         \/ state'[k] \notin {"STARTING", "READY", "RESTART_WAIT"}
         \/ state[k] \in {"STARTING", "READY", "RESTART_WAIT"},
         \/ Running(k)' \/ exit'[k].kind # "none"
         \/ state'[k] \in {"STARTING", "READY", "RESTART_WAIT"}
  PROVE  HasRun(k)
  BY DEF HasRun, Running

\* A service comes to have run only by start_service() from PENDING, which
\* deps_satisfied() guards.
LEMMA HasRunStep ==
  ASSUME TypeOK, Next, NEW k \in Service,
         \/ Running(k)' \/ exit'[k].kind # "none"
         \/ state'[k] \in {"STARTING", "READY", "RESTART_WAIT"}
  PROVE  HasRun(k) \/ DepsSatisfied(k)
<1>0. state \in [Service -> States]
  BY Zenon DEF TypeOK
<1>1. ASSUME NEW st \in [Service -> States], NEW pr, NEW code, NEW why,
             BeginShutdown(st, pr, code, why)
      PROVE  state'[k] = st[k] \/ state'[k] = "EXITED"
  BY Zenon, <1>1, BeginShutdownEffect
<1>2. ASSUME NEW i \in Service, ReapService(i) PROVE HasRun(k)
  <2>1. PICK w \in Statuses : ServiceExited(i, w)
    BY Zenon, <1>2 DEF ReapService
  <2>2. CASE k = i
    BY Zenon, <1>2, <2>2 DEF ReapService, HasRun, Running
  <2>3. CASE k # i
    <3>1. proc'[k] = proc[k] /\ exit'[k] = exit[k]
      BY <2>1, <2>3 DEF ServiceExited, TypeOK
    <3>2. ASSUME NEW st, NEW pr, NEW ev, ExitedTo(i, st, w, pr, ev) PROVE state'[k] = state[k]
      BY ZenonT(60), <1>0, <2>3, <3>2 DEF ExitedTo
    <3>3. ASSUME NEW pr, NEW ev, ExitedInShutdown(i, pr, ev) PROVE state'[k] = state[k]
      BY <1>0, <2>3, <3>3 DEF ExitedInShutdown
    <3>4. state'[k] = state[k] \/ state'[k] = "EXITED"
      BY ZenonT(60), <1>0, <1>1, <2>1, <3>2, <3>3, Zenon
         DEF ServiceExited, ExitedAsAsked, ExitedOneshot, ExitedDaemon
    <3> QED BY Zenon, <3>1, <3>4, HasRunKept
  <2> QED BY Zenon, <2>2, <2>3
<1>3. ASSUME NEW i \in Service, ReapProbe(i) PROVE HasRun(k)
  <2>1. /\ UNCHANGED <<proc, exit>>
        /\ state' = state \/ (state[i] = "STARTING" /\ state' = [state EXCEPT ![i] = "READY"])
    BY Zenon, <1>3 DEF ReapProbe
  <2> QED BY <1>0, <2>1, HasRunKept
<1>4. CASE ReapDone
  BY Zenon, <1>0, <1>1, <1>4, HasRunKept DEF ReapDone
<1>5. CASE HandleCommand
  <2>1. UNCHANGED <<proc, exit>>
    BY Zenon, <1>5 DEF HandleCommand
  <2>2. ASSUME NEW i, HandleStart(i) \/ HandleStop(i) \/ HandleRestart(i)
        PROVE  state'[k] = state[k] \/ state'[k] \in {"PENDING", "STOPPED"}
    BY Zenon, <1>0, <2>2 DEF HandleStart, HandleStop, HandleRestart
  <2>3. state'[k] = state[k] \/ state'[k] \in {"PENDING", "STOPPED", "EXITED"}
    BY Zenon, <1>0, <1>1, <1>5, <2>2 DEF HandleCommand
  <2> QED BY Zenon, <2>1, <2>3, HasRunKept
<1>6. CASE Schedule
  <2>1. cur \in Service /\ ScheduleService(cur)
    BY Zenon, <1>6, CurIsAService DEF Schedule
  <2>2. CASE Skip
    BY Zenon, <2>2, HasRunKept DEF Skip
  <2>3. CASE StartService(cur) /\ (state[cur] = "RESTART_WAIT" \/ DepsSatisfied(cur))
    <3>1. CASE k = cur
      BY SMTT(30), <2>3, <3>1 DEF HasRun
    <3>2. CASE k # cur
      <4>1. proc'[k] = proc[k] /\ exit'[k] = exit[k] /\ state'[k] = state[k]
        <5>1. CASE Forked(cur)
          BY <2>1, <3>2, <5>1 DEF Forked, TypeOK
        <5>2. CASE ForkFailed(cur)
          BY Zenon, <2>1, <3>2, <5>2 DEF ForkFailed, TypeOK
        <5> QED BY Zenon, <2>3, <5>1, <5>2 DEF StartService
      <4> QED BY Zenon, <4>1, HasRunKept
    <3> QED BY Zenon, <3>1, <3>2
  <2>4. ASSUME NEW dead, FailPending(cur, dead) PROVE HasRun(k)
    <3> DEFINE failed == [state EXCEPT ![cur] = "FAILED"]
               code == IF state[dead] = "FAILED" THEN MappedStatus(exit[dead]) ELSE 1
    <3>1. failed \in [Service -> States] /\ (failed[k] = state[k] \/ failed[k] = "FAILED")
      BY ZenonT(60), <1>0 DEF States
    <3>2. /\ UNCHANGED <<proc, exit>>
          /\ BeginShutdown(failed, probe, code, "service") \/ state' = failed
      BY <2>4 DEF FailPending
    <3> HIDE DEF failed, code
    <3>3. state'[k] = state[k] \/ state'[k] \in {"FAILED", "EXITED"}
      BY Zenon, <1>1, <3>1, <3>2
    <3> QED BY Zenon, <3>2, <3>3, HasRunKept
  <2>5. CASE state[cur] = "STARTING" /\ ProbeConnect(cur)
    <3>1. ASSUME NEW ev, BecomeReady(cur, ev) PROVE HasRun(k)
      <4>1. UNCHANGED <<proc, exit>> /\ state' = [state EXCEPT ![cur] = "READY"]
        BY Zenon, <3>1 DEF BecomeReady
      <4> QED BY Zenon, <1>0, <2>5, <4>1, HasRunKept
    <3> QED BY ZenonT(60), <2>2, <2>5, <3>1 DEF ProbeConnect
  <2>6. CASE UNCHANGED <<proc, exit, state>>
    BY Zenon, <2>6, HasRunKept
  <2>7. CASE ProbeCommand(cur) \/ EscalateStop(cur)
    BY Zenon, <2>2, <2>6, <2>7 DEF ProbeCommand, EscalateStop
  <2> QED BY Zenon, <2>1, <2>2, <2>3, <2>4, <2>5, <2>7 DEF ScheduleService, SchedulePending
<1>7. ASSUME NEW i \in Service, ProcExit(i) PROVE HasRun(k)
  <2>1. UNCHANGED <<state, exit>> /\ proc[i] = "live" /\ proc' = [proc EXCEPT ![i] = "zombie"]
    BY SMTT(30), <1>7 DEF ProcExit
  <2> QED BY ZenonT(60), <2>1, HasRunKept DEF TypeOK
<1>8. CASE UNCHANGED <<proc, exit, state>>
  BY <1>8, HasRunKept
<1>9. CASE ShutdownStep
  BY Zenon, <1>8, <1>9 DEF ShutdownStep, ShutdownService, EscalateStop, Skip
<1> QED BY Zenon, <1>2, <1>3, <1>4, <1>5, <1>6, <1>7, <1>8, <1>9
        DEF Next, Turn, Environment, ReadTable, ControlDone, TurnEnd, ProbeExit, Elapse, SigTerm,
            SendCommand, Ended, svcVars

\* The table is read once.
LEMMA TableIsFixed == Next => def' = def
  BY Zenon DEF Next, Turn, Environment, ReadTable, ReapService, ServiceExited, ReapProbe,
     ReapDone,
         HandleCommand, ControlDone, Schedule, ShutdownStep, TurnEnd, ProcExit, ProbeExit, Elapse,
         SigTerm, SendCommand, Ended, svcVars

\* What has run once had every dependency ready, and what is ready is remembered.
LEMMA RanInvariant == Spec => []RanAfterDependencies
<1>1. Init => RanAfterDependencies
  <2> SUFFICES ASSUME Init, NEW i \in Service PROVE ~HasRun(i) /\ ~DepReady(i)
    BY Zenon DEF RanAfterDependencies
  <2>1. state[i] = "PENDING" /\ proc[i] = "none" /\ exit[i].kind = "none" /\ reached = {}
    BY DEF Init
  <2> QED BY Zenon, <2>1 DEF HasRun, Running, DepReady
<1>2. TypeOK /\ RanAfterDependencies /\ [Next]_vars => RanAfterDependencies'
  <2> SUFFICES ASSUME TypeOK, RanAfterDependencies, Next, NEW k \in Service
               PROVE  /\ HasRun(k)' => def'[k].after \subseteq reached'
                      /\ DepReady(k)' => k \in reached'
    BY DEF vars, svcVars, RanAfterDependencies, HasRun, Running, DepReady
  <2>1. reached' = reached \cup {i \in Service : DepReady(i)'} /\ def' = def
    BY Zenon, TableIsFixed DEF Next
  <2>2. DepReady(k)' => state'[k] = "READY" \/ exit'[k].kind # "none"
    BY SMTT(30) DEF DepReady
  <2>3. HasRun(k)' => HasRun(k) \/ DepsSatisfied(k)
    <3>1. k \in reached => HasRun(k)
      BY Zenon DEF HasRun
    <3> QED BY Zenon, <2>1, <2>2, <3>1, HasRunStep DEF HasRun
  <2>4. DepsSatisfied(k) => def[k].after \subseteq reached
    <3>1. def[k].after \subseteq Service
      BY Zenon DEF TypeOK, ServiceRecord
    <3> QED BY Zenon, <3>1 DEF DepsSatisfied, Unready, RanAfterDependencies
  <2> QED BY ZenonT(60), <2>1, <2>3, <2>4 DEF RanAfterDependencies
<1> QED BY <1>1, <1>2, TypeCorrect, PTL DEF Spec

\* Services start in dependency order, at every depth: schedule() starts one
\* from PENDING only when deps_satisfied(), a crash restart is of one that
\* was, and what is ready in between has been so by the same rule.
THEOREM StartOrder == Spec => []StartedAfterDependencies
<1>1. RanAfterDependencies => StartedAfterDependencies
  BY DEF RanAfterDependencies, StartedAfterDependencies, HasRun
<1> QED BY <1>1, RanInvariant, PTL

\* cix-init exits only when nothing it supervises is left: anything_left()
\* counts every service that runs, waits out a restart or may still start.
THEOREM ExitIsClean == Spec => []ExitLeavesNothing
<1>1. Init => ExitLeavesNothing
  BY Zenon DEF Init, ExitLeavesNothing
<1>2. /\ TypeOK /\ FreshUntilRead /\ KillFollowsStop /\ HeldNotPending /\ ExitLeavesNothing
      /\ [Next]_vars
      => ExitLeavesNothing'
  <2> SUFFICES ASSUME TypeOK, FreshUntilRead, KillFollowsStop, HeldNotPending,
                      ExitLeavesNothing, [Next]_vars, pc' = "exited", NEW i \in Service
               PROVE  /\ ~Running(i)' /\ state'[i] # "RESTART_WAIT"
                      /\ ValidTable' => ~(state'[i] = "PENDING" /\ DepsSatisfied(i)')
    BY ZenonT(60) DEF ExitLeavesNothing
  <2>1. CASE ReadTable
    <3>1. UNCHANGED <<def, state, proc>> /\ ~ValidTable
      BY Zenon, <2>1 DEF ReadTable, svcVars
    <3> QED BY Zenon, <2>1, <3>1 DEF FreshUntilRead, ReadTable, Running, ValidTable
  <2>2. CASE TurnEnd
    <3>1. ~AnythingLeft /\ UNCHANGED <<def, state, proc, exit>>
      BY Zenon, <2>2 DEF TurnEnd, svcVars
    <3>2. ~Running(i) /\ state[i] # "RESTART_WAIT"
      BY <3>1 DEF AnythingLeft
    <3>3. state[i] = "PENDING" => ~DepsSatisfied(i)
      BY ZenonT(60), <3>1 DEF AnythingLeft, HeldNotPending, HasDeadDep, DeadDep, DepsSatisfied
    <3> QED BY Zenon, <3>1, <3>2, <3>3 DEF Running, DepsSatisfied, Unready, DepReady
  <2>3. CASE pc = "exited" /\ UNCHANGED <<def, state, proc, exit>>
    BY ZenonT(60), <2>3 DEF ExitLeavesNothing, Running, ValidTable, DepsSatisfied, Unready, DepReady
  <2>4. ASSUME NEW j \in Service, ProcExit(j) PROVE FALSE
    BY Zenon, <2>4 DEF ProcExit, loopVars, ExitLeavesNothing, KillFollowsStop, Running
  <2>5. ASSUME NEW j \in Service, ProbeExit(j) \/ \E d \in Deadlines : Elapse(j, d)
        PROVE  pc = "exited" /\ UNCHANGED <<def, state, proc, exit>>
    BY Zenon, <2>5 DEF ProbeExit, Elapse, loopVars
  <2>6. CASE SigTerm \/ SendCommand \/ Ended \/ UNCHANGED vars
    BY <2>3, <2>6 DEF SigTerm, SendCommand, Ended, vars, svcVars, loopVars
  <2>7. CASE \/ \E j \in Service : ReapService(j) \/ ReapProbe(j)
             \/ ReapDone \/ HandleCommand \/ ControlDone \/ Schedule \/ ShutdownStep
    BY Zenon, <2>7 DEF ReapService, ReapProbe, ReapDone, HandleCommand, ControlDone, Schedule,
                ShutdownStep, loopVars
  <2> QED BY <2>1, <2>2, <2>3, <2>4, <2>5, <2>6, <2>7 DEF Next, Turn, Environment
<1> QED BY <1>1, <1>2, TypeCorrect, ShutdownInvariant, ServicesInvariant, PTL DEF Spec

----------------------------------------------------------------------------
(* The supervisor's promise. *)

\* A step that leaves the fields of struct svc alone leaves what they map to.
LEMMA FieldsKept ==
  ASSUME UNCHANGED <<def, proc, stop_sent, killed, operator_stopped, restart_after_stop>>
  PROVE  UNCHANGED <<After, Vital, Up, Told, Slain, Held, Again>>
  BY DEF After, Vital, Up, Told, Slain, Held, Again, Running

\* A step that neither begins the shutdown nor ends it.
LEMMA PhaseKept ==
  ASSUME pc' = pc \/ (pc # "exited" /\ pc' # "exited"),
         shutting_down' = shutting_down,
         Phase = "open" \/ exit_code' = exit_code
  PROVE  /\ Phase' = Phase /\ Code' = Code
         /\ Phase = "open" => Proven = reached /\ Proven' = reached'
         /\ Phase # "open" => Proven' = Proven
  BY DEF Phase, Code, Proven

\* What became ready in a step is what the step was about.
LEMMA ReachedBy ==
  ASSUME TypeOK, RanAfterDependencies, Next, NEW i \in Service,
         \A k \in Service \ {i} : state'[k] = state[k] /\ exit'[k] = exit[k]
  PROVE  /\ reached' \in {reached, reached \cup {i}}
         /\ ~DepReady(i)' => reached' = reached
<1>1. reached' = reached \cup {k \in Service : DepReady(k)'} /\ def' = def
  BY Zenon, TableIsFixed DEF Next
<1>2. \A k \in Service \ {i} : DepReady(k)' => k \in reached
  BY Zenon, <1>1 DEF DepReady, RanAfterDependencies
<1> QED BY <1>1, <1>2

\* A step that changes no state and no status makes nothing ready.
LEMMA ReachedKept ==
  ASSUME TypeOK, RanAfterDependencies, Next, UNCHANGED <<state, exit>>
  PROVE  reached' = reached
<1>1. reached' = reached \cup {k \in Service : DepReady(k)'} /\ def' = def
  BY Zenon, TableIsFixed DEF Next
<1>2. \A k \in Service : DepReady(k)' => k \in reached
  BY Zenon, <1>1 DEF DepReady, RanAfterDependencies
<1> QED BY <1>1, <1>2

\* The initial state of cix-init is a supervisor with nothing up.
LEMMA SupervisorInit == Init => S!Init
<1> SUFFICES ASSUME Init PROVE S!Init
  OBVIOUS
<1>1. Up = {} /\ Told = {} /\ Slain = {} /\ Again = {} /\ Held = {}
  BY DEF Init, Up, Told, Slain, Again, Held, Running
<1>2. Phase = "open" /\ Proven = {} /\ Code = 0
  BY DEF Init, Phase, Proven, Code
<1>3. Vital \in SUBSET Service
  BY DEF Vital
<1>4. After \in [Service -> SUBSET Service]
  BY ConstantsAssumption DEF Init, After, ServiceRecord
<1> QED BY Zenon, <1>1, <1>2, <1>3, <1>4 DEF S!Init

\* A service that is reaped is down: service_exited() clears its fields.
LEMMA DownStep ==
  ASSUME TypeOK, NEW i \in Service, NEW w, ServiceExited(i, w), Running(i)
  PROVE  S!Down(i) /\ UNCHANGED <<After, Vital>>
<1>1. /\ proc' = [proc EXCEPT ![i] = "none"] /\ stop_sent' = [stop_sent EXCEPT ![i] = FALSE]
      /\ killed' = [killed EXCEPT ![i] = FALSE] /\ UNCHANGED <<def, operator_stopped>>
  BY Zenon DEF ServiceExited
<1>2. \A k \in Service \ {i} : restart_after_stop'[k] = restart_after_stop[k]
  <2>1. \/ UNCHANGED restart_after_stop
        \/ restart_after_stop' = [restart_after_stop EXCEPT ![i] = FALSE]
    BY Zenon DEF ServiceExited, ExitedInShutdown, ExitedAsAsked
  <2> QED BY <2>1 DEF TypeOK
<1>3. Up' = Up \ {i} /\ i \in Up
  BY <1>1 DEF Up, Running, TypeOK
<1>4. Told' = Told \ {i}
  BY <1>1, <1>3 DEF Told, TypeOK, Up
<1>5. Slain' = Slain \ {i}
  BY <1>1, <1>3 DEF Slain, TypeOK, Up
<1>6. Again' = Again \ {i}
  BY <1>2, <1>3 DEF Again, TypeOK, Up
<1>7. UNCHANGED <<After, Vital, Held>>
  BY <1>1 DEF After, Vital, Held
<1> QED BY Zenon, <1>3, <1>4, <1>5, <1>6, <1>7 DEF S!Down, S!table

\* Reaping a service is an exit, or the exit that begins the shutdown.
LEMMA SupervisorReap ==
  ASSUME TypeOK, RanAfterDependencies, Next, NEW i \in Service, ReapService(i)
  PROVE  S!Exit(i) \/ S!CloseByExit(i)
<1>1. PICK w \in Statuses : ServiceExited(i, w)
  BY DEF ReapService
<1>2. S!Down(i) /\ i \in Up /\ pc = "reap" /\ pc' = pc
  BY Zenon, <1>1, DownStep DEF ReapService, Running, Up
<1> DEFINE pr == [probe EXCEPT ![i] = "none"]
           ev == <<Report(i, "EXITED", w.kind, w.value)>>
<1>3. \/ ExitedInShutdown(i, pr, ev)
      \/ ExitedAsAsked(i, w, pr, ev)
      \/ /\ ~shutting_down /\ ~restart_after_stop[i] /\ ~operator_stopped[i]
         /\ ExitedOneshot(i, w, pr, ev) \/ ExitedDaemon(i, w, pr, ev)
  BY Zenon, <1>1 DEF ServiceExited
<1>e. \A k \in Service \ {i} : exit'[k] = exit[k]
  BY <1>1 DEF ServiceExited, TypeOK
<1> HIDE DEF pr, ev
<1>4. CASE ExitedInShutdown(i, pr, ev)
  <2>1. Phase' = Phase /\ Code' = Code /\ Proven' = Proven
    BY <1>2, <1>4, PhaseKept DEF ExitedInShutdown, Phase
  <2> QED BY Zenon, <1>2, <2>1 DEF S!Exit
<1>5. ASSUME ~shutting_down, NEW st, NEW ev1, ExitedTo(i, st, w, pr, ev1) PROVE S!Exit(i)
  <2>1. Phase = "open" /\ Phase' = Phase /\ Code' = Code /\ Proven = reached /\ Proven' = reached'
    BY Zenon, <1>2, <1>5, PhaseKept DEF ExitedTo, Phase
  <2>2. \A k \in Service \ {i} : state'[k] = state[k]
    BY <1>5 DEF ExitedTo, TypeOK
  <2>3. reached' \in {reached, reached \cup {i}}
    BY <1>e, <2>2, ReachedBy
  <2> QED BY Zenon, <1>2, <2>1, <2>3 DEF S!Exit
<1>6. ASSUME ~shutting_down, ~restart_after_stop[i], ~operator_stopped[i],
             def[i].on_exit = "fail-container",
             BeginShutdown(state, pr, MappedStatus(w), "service")
      PROVE  S!CloseByExit(i)
  <2>1. Phase = "open" /\ Phase' = "closing" /\ Proven' = {} /\ Code' = MappedStatus(w)
    BY Zenon, <1>2, <1>6 DEF BeginShutdown, Phase, Proven, Code
  <2>2. MappedStatus(w) \in Nat
    BY Zenon, MappedStatusTyped, StatusesTyped
  <2>3. i \in Vital /\ i \notin Held /\ i \notin Again
    BY Zenon, <1>6 DEF Vital, Held, Again
  <2> QED BY Zenon, <1>2, <2>1, <2>2, <2>3 DEF S!CloseByExit, S!Close
<1>7. CASE ExitedAsAsked(i, w, pr, ev)
  BY Zenon, <1>5, <1>7 DEF ExitedAsAsked
<1>8. CASE /\ ~shutting_down /\ ~restart_after_stop[i] /\ ~operator_stopped[i]
           /\ ExitedOneshot(i, w, pr, ev) \/ ExitedDaemon(i, w, pr, ev)
  BY Zenon, <1>5, <1>6, <1>8 DEF ExitedOneshot, ExitedDaemon
<1> QED BY Zenon, <1>3, <1>4, <1>7, <1>8

\* A probe that passes, or is given up on, makes its service ready.
LEMMA SupervisorReady ==
  ASSUME TypeOK, ReadyMeansRunning, RanAfterDependencies, Next, NEW i \in Service,
         state[i] = "STARTING", state' = [state EXCEPT ![i] = "READY"], pc' = pc,
         UNCHANGED <<def, proc, stop_sent, killed, operator_stopped, restart_after_stop, exit,
                     shutting_down, exit_code>>
  PROVE  S!BecomeReady(i) \/ UNCHANGED S!svars
<1>1. UNCHANGED <<After, Vital, Up, Told, Slain, Held, Again>>
  BY FieldsKept
<1>2. Phase' = Phase /\ Code' = Code
      /\ (Phase = "open" => Proven = reached /\ Proven' = reached')
      /\ (Phase # "open" => Proven' = Proven)
  BY Zenon, PhaseKept
<1>3. reached' \in {reached, reached \cup {i}}
  <2>1. \A k \in Service \ {i} : state'[k] = state[k] /\ exit'[k] = exit[k]
    BY DEF TypeOK
  <2> QED BY Zenon, <2>1, ReachedBy
<1>4. Phase = "open" => i \in Up
  BY Zenon DEF Phase, ReadyMeansRunning, Up
<1> QED BY Zenon, <1>1, <1>2, <1>3, <1>4 DEF S!BecomeReady, S!svars, S!table, S!services

\* A step that changes nothing a supervisor promises about.
LEMMA SupervisorQuiet ==
  ASSUME UNCHANGED <<def, proc, stop_sent, killed, operator_stopped, restart_after_stop,
                     shutting_down>>,
         pc' = pc \/ (pc # "exited" /\ pc' # "exited"),
         Phase = "open" => reached' = reached,
         Phase = "open" \/ exit_code' = exit_code
  PROVE  UNCHANGED S!svars
<1>1. UNCHANGED <<After, Vital, Up, Told, Slain, Held, Again>>
  BY FieldsKept
<1>2. Phase' = Phase /\ Code' = Code
      /\ (Phase = "open" => Proven = reached /\ Proven' = reached')
      /\ (Phase # "open" => Proven' = Proven)
  BY Zenon, PhaseKept
<1> QED BY Zenon, <1>1, <1>2 DEF S!svars, S!table, S!services

\* begin_shutdown(0) closes the container, once.
LEMMA SupervisorOrder ==
  ASSUME BeginShutdown(state, probe, 0, "orderly"), pc # "exited", pc' # "exited",
         UNCHANGED <<def, proc, stop_sent, killed, operator_stopped, restart_after_stop>>
  PROVE  S!CloseByOrder \/ UNCHANGED S!svars
<1>1. CASE shutting_down
  <2>1. UNCHANGED <<shutting_down, exit_code>> /\ Phase # "open"
    BY Zenon, <1>1 DEF BeginShutdown, Phase
  <2> QED BY Zenon, <2>1, SupervisorQuiet
<1>2. CASE ~shutting_down
  <2>1. Phase = "open" /\ Phase' = "closing" /\ Proven' = {} /\ Code' = 0
    BY <1>2 DEF BeginShutdown, Phase, Proven, Code
  <2>2. UNCHANGED <<After, Vital, Up, Told, Slain, Held, Again>>
    BY FieldsKept
  <2> QED BY Zenon, <2>1, <2>2 DEF S!CloseByOrder, S!Close, S!table
<1> QED BY <1>1, <1>2

\* send_stop() to a service is told to it if it runs.
LEMMA SendStopTells ==
  ASSUME TypeOK, NEW i \in Service, SendStop(i), proc' = proc
  PROVE  Up' = Up /\ Told' = Told \cup ({i} \cap Up)
<1>1. Up' = Up
  BY DEF Up, Running
<1>2. CASE Running(i) /\ ~stop_sent[i]
  <2>1. stop_sent' = [stop_sent EXCEPT ![i] = TRUE]
    BY Zenon, <1>2 DEF SendStop
  <2> QED BY <1>1, <1>2, <2>1 DEF Told, Up, TypeOK
<1>3. CASE ~(Running(i) /\ ~stop_sent[i])
  <2>1. stop_sent' = stop_sent
    BY Zenon, <1>3 DEF SendStop
  <2> QED BY <1>1, <1>3, <2>1 DEF Told, Up, TypeOK
<1> QED BY Zenon, <1>2, <1>3

\* A command on a service is the operator's step of the same name.
LEMMA SupervisorCommand ==
  ASSUME TypeOK, RanAfterDependencies, Next, HandleCommand
  PROVE  \/ \E i \in Service : S!OperatorStart(i) \/ S!OperatorStop(i) \/ S!OperatorRestart(i)
         \/ S!CloseByOrder \/ UNCHANGED S!svars
<1>1. Head(control).service \in Service
  <2>1. Head(control) \in Command
    BY DEF HandleCommand, TypeOK
  <2> QED BY <2>1 DEF Command
<1>2. PICK i \in Service :
      /\ UNCHANGED <<def, proc, killed, exit, pc>> /\ pc = "control"
      /\ \/ /\ BeginShutdown(state, probe, 0, "orderly")
            /\ UNCHANGED <<stop_sent, operator_stopped, restart_after_stop>>
         \/ /\ HandleStart(i) \/ HandleStop(i) \/ HandleRestart(i)
            /\ UNCHANGED <<shutting_down, exit_code>>
  BY Zenon, <1>1 DEF HandleCommand
<1>3. CASE /\ BeginShutdown(state, probe, 0, "orderly")
           /\ UNCHANGED <<stop_sent, operator_stopped, restart_after_stop>>
  BY Zenon, <1>2, <1>3, SupervisorOrder
<1>4. CASE /\ HandleStart(i) \/ HandleStop(i) \/ HandleRestart(i)
           /\ UNCHANGED <<shutting_down, exit_code>>
  <2>1. UNCHANGED <<After, Vital, Up, Slain>>
    BY <1>2 DEF After, Vital, Up, Slain, Running
  <2>2. reached' = reached
    <3>1. state' = state \/ state' = [state EXCEPT ![i] = "PENDING"]
          \/ state' = [state EXCEPT ![i] = "STOPPED"]
      BY Zenon, <1>4 DEF HandleStart, HandleStop, HandleRestart
    <3>2. CASE state' = state
      BY Zenon, <1>2, <3>2, ReachedKept
    <3>3. CASE \E st \in {"PENDING", "STOPPED"} : state' = [state EXCEPT ![i] = st]
      <4>1. state'[i] \in {"PENDING", "STOPPED"}
            /\ \A k \in Service \ {i} : state'[k] = state[k]
        BY <1>1, <3>3 DEF TypeOK
      <4>2. ~DepReady(i)'
        BY <4>1 DEF DepReady
      <4> QED BY Zenon, <1>1, <1>2, <4>1, <4>2, ReachedBy
    <3> QED BY Zenon, <3>1, <3>2, <3>3
  <2>3. Phase # "ended" /\ Phase' = Phase /\ Code' = Code /\ Proven' = Proven
    BY <1>2, <1>4, <2>2, PhaseKept DEF Phase
  <2>4. CASE HandleStart(i)
    <3>1. Held' = Held \ {i}
      BY <1>1, <2>4 DEF HandleStart, Held, TypeOK
    <3>2. \A k \in Up : restart_after_stop'[k] = restart_after_stop[k]
      <4>1. CASE Running(i)
        BY Zenon, <2>4, <4>1 DEF HandleStart
      <4>2. CASE ~Running(i)
        BY <2>4, <4>2 DEF HandleStart, Up, TypeOK
      <4> QED BY Zenon, <4>1, <4>2
    <3>3. Again' = Again
      BY <2>1, <3>2 DEF Again, Up, TypeOK
    <3>4. Told' = Told
      BY Zenon, <2>1, <2>4 DEF HandleStart, Told
    <3>5. S!OperatorStart(i)
      BY Zenon, <2>1, <2>3, <3>1, <3>3, <3>4 DEF S!OperatorStart, S!table
    <3> QED BY Zenon, <1>1, <3>5
  <2>5. CASE HandleStop(i)
    <3>1. Held' = Held \cup {i}
      BY <1>1, <2>5 DEF HandleStop, Held, TypeOK
    <3>2. restart_after_stop' = [restart_after_stop EXCEPT ![i] = FALSE]
      BY Zenon, <2>5 DEF HandleStop
    <3>3. Again' = Again \ {i}
      BY <2>1, <3>2 DEF Again, Up, TypeOK
    <3>4. Told' = Told \cup ({i} \cap Up)
      BY Zenon, <1>1, <1>2, <2>5, SendStopTells DEF HandleStop
    <3>5. S!OperatorStop(i)
      BY Zenon, <2>1, <2>3, <3>1, <3>3, <3>4 DEF S!OperatorStop, S!table
    <3> QED BY Zenon, <1>1, <3>5
  <2>6. CASE HandleRestart(i)
    <3>1. Held' = Held \ {i}
      BY <1>1, <2>6 DEF HandleRestart, Held, TypeOK
    <3>2. restart_after_stop' =
            IF Running(i) THEN [restart_after_stop EXCEPT ![i] = TRUE] ELSE restart_after_stop
      BY Zenon, <2>6 DEF HandleRestart
    <3>3. Again' = Again \cup ({i} \cap Up)
      BY <1>1, <2>1, <3>2 DEF Again, Up, TypeOK
    <3>4. Told' = Told \cup ({i} \cap Up)
      BY Zenon, <1>1, <1>2, <2>6, SendStopTells DEF HandleRestart
    <3>5. S!OperatorRestart(i)
      BY Zenon, <2>1, <2>3, <3>1, <3>3, <3>4 DEF S!OperatorRestart, S!table
    <3> QED BY Zenon, <1>1, <3>5
  <2> QED BY Zenon, <1>4, <2>4, <2>5, <2>6
<1> QED BY Zenon, <1>2, <1>3, <1>4

\* escalate_stop() kills only what was told to stop.
LEMMA SupervisorEscalate ==
  ASSUME TypeOK, RanAfterDependencies, Next, NEW i \in Service, EscalateStop(i),
         pc # "exited", pc' = pc,
         UNCHANGED <<def, operator_stopped, restart_after_stop, shutting_down>>
  PROVE  S!Kill(i) \/ UNCHANGED S!svars
<1>1. UNCHANGED <<state, proc, stop_sent, exit, exit_code>>
  BY Zenon DEF EscalateStop, Skip
<1>2. reached' = reached
  BY Zenon, <1>1, ReachedKept
<1>3. CASE killed' = killed
  BY Zenon, <1>1, <1>2, <1>3, SupervisorQuiet
<1>4. CASE Running(i) /\ stop_sent[i] /\ killed' = [killed EXCEPT ![i] = TRUE]
  <2>1. UNCHANGED <<After, Vital, Up, Told, Held, Again>>
    BY <1>1 DEF After, Vital, Up, Told, Held, Again, Running
  <2>2. Slain' = Slain \cup {i} /\ i \in Told
    BY <1>4, <2>1 DEF Slain, Told, Up, TypeOK
  <2>3. Phase' = Phase /\ Code' = Code /\ Proven' = Proven
    BY <1>1, <1>2, PhaseKept
  <2> QED BY Zenon, <2>1, <2>2, <2>3 DEF S!Kill, S!table
<1> QED BY Zenon, <1>3, <1>4 DEF EscalateStop, Skip

\* start_service() outside a shutdown starts a service that is down, is not
\* held and has had every dependency ready; a fork that fails starts nothing.
LEMMA SupervisorStart ==
  ASSUME TypeOK, ReadyMeansRunning, HeldStaysDown, RestartIsUnderWay, RanAfterDependencies, Next,
         NEW i \in Service, StartService(i), NotShutting, Phase = "open", pc' = pc,
         UNCHANGED <<def, operator_stopped, restart_after_stop>>,
         \/ state[i] = "PENDING" /\ ~operator_stopped[i] /\ DepsSatisfied(i)
         \/ state[i] = "RESTART_WAIT"
  PROVE  S!Start(i) \/ UNCHANGED S!svars
<1>1. ~shutting_down /\ shutting_down' = shutting_down
  BY Zenon DEF Phase, NotShutting
<1>2. ~Running(i) /\ ~operator_stopped[i] /\ ~restart_after_stop[i]
  BY Zenon, <1>1 DEF ReadyMeansRunning, HeldStaysDown, RestartIsUnderWay
<1>3. After[i] \subseteq Proven
  <2>1. After[i] = def[i].after /\ Proven = reached
    BY DEF After, Proven
  <2>2. CASE state[i] = "RESTART_WAIT"
    BY Zenon, <2>1, <2>2 DEF RanAfterDependencies, HasRun
  <2>3. CASE DepsSatisfied(i)
    <3>1. def[i].after \subseteq Service
      BY Zenon DEF TypeOK, ServiceRecord
    <3> QED BY Zenon, <2>1, <2>3, <3>1 DEF DepsSatisfied, Unready, RanAfterDependencies
  <2> QED BY Zenon, <2>2, <2>3
<1>4. Phase' = Phase /\ Code' = Code /\ Proven = reached /\ Proven' = reached'
  BY Zenon, <1>1, PhaseKept
<1>5. CASE Forked(i)
  <2>1. \A k \in Service \ {i} : state'[k] = state[k] /\ exit'[k] = exit[k]
    BY <1>5 DEF Forked, TypeOK
  <2>2. reached' \in {reached, reached \cup {i}}
    BY Zenon, <2>1, ReachedBy
  <2>3. /\ proc' = [proc EXCEPT ![i] = "live"] /\ stop_sent' = [stop_sent EXCEPT ![i] = FALSE]
        /\ killed' = [killed EXCEPT ![i] = FALSE]
    BY Zenon, <1>5 DEF Forked
  <2>4. Up' = Up \cup {i} /\ i \notin Up /\ i \notin Held
    BY <1>2, <2>3 DEF Up, Held, Running, TypeOK
  <2>5. Told' = Told
    BY <2>3, <2>4 DEF Told, Up, TypeOK
  <2>6. Slain' = Slain
    BY <2>3, <2>4 DEF Slain, Up, TypeOK
  <2>7. Again' = Again
    BY <1>2, <2>4 DEF Again, Up, TypeOK
  <2>8. UNCHANGED <<After, Vital, Held>>
    BY DEF After, Vital, Held
  <2> QED BY Zenon, <1>3, <1>4, <2>2, <2>4, <2>5, <2>6, <2>7, <2>8 DEF S!Start, S!table
<1>6. CASE ForkFailed(i)
  <2>1. /\ UNCHANGED <<proc, stop_sent, killed>> /\ state'[i] = "FAILED"
        /\ \A k \in Service \ {i} : state'[k] = state[k] /\ exit'[k] = exit[k]
    BY <1>6 DEF ForkFailed, TypeOK
  <2>2. ~DepReady(i)'
    BY <2>1 DEF DepReady
  <2>3. reached' = reached
    BY Zenon, <2>1, <2>2, ReachedBy
  <2> QED BY Zenon, <1>1, <2>1, <2>3, SupervisorQuiet
<1> QED BY Zenon, <1>5, <1>6 DEF StartService

\* A service whose dependency is dead fails, and a vital one closes the container.
LEMMA SupervisorFail ==
  ASSUME TypeOK, ReadyMeansRunning, RanAfterDependencies, Next,
         NEW i \in Service, NEW dead \in Service, FailPending(i, dead),
         state[i] = "PENDING", ~operator_stopped[i], Phase = "open", pc' = pc,
         UNCHANGED <<def, operator_stopped, restart_after_stop>>
  PROVE  S!CloseByFailure(i) \/ UNCHANGED S!svars
<1> DEFINE failed == [state EXCEPT ![i] = "FAILED"]
           c == IF state[dead] = "FAILED" THEN MappedStatus(exit[dead]) ELSE 1
<1>1. UNCHANGED <<proc, stop_sent, killed, exit>> /\ pc # "exited" /\ ~shutting_down
  BY Zenon DEF FailPending, Phase
<1>2. CASE state' = failed /\ UNCHANGED exit_code /\ NotShutting
  <2>1. state'[i] = "FAILED" /\ \A k \in Service \ {i} : state'[k] = state[k] /\ exit'[k] = exit[k]
    BY <1>1, <1>2 DEF TypeOK
  <2>2. ~DepReady(i)'
    BY <2>1 DEF DepReady
  <2>3. reached' = reached
    BY Zenon, <2>1, <2>2, ReachedBy
  <2> QED BY Zenon, <1>1, <1>2, <2>3, SupervisorQuiet DEF NotShutting
<1>3. CASE def[i].on_exit = "fail-container" /\ BeginShutdown(failed, probe, c, "service")
  <2>1. c \in Nat
    <3>1. exit[dead] \in Status
      BY Zenon DEF TypeOK
    <3> QED BY <3>1, MappedStatusTyped
  <2> HIDE DEF failed, c
  <2>2. Phase' = "closing" /\ Proven' = {} /\ Code' = c
    BY Zenon, <1>1, <1>3 DEF BeginShutdown, Phase, Proven, Code
  <2>3. i \in Vital /\ i \notin Held /\ i \notin Up
    BY Zenon, <1>3 DEF Vital, Held, Up, ReadyMeansRunning
  <2>4. UNCHANGED <<After, Vital, Up, Told, Slain, Held, Again>>
    BY <1>1, FieldsKept
  <2> QED BY Zenon, <2>1, <2>2, <2>3, <2>4 DEF S!CloseByFailure, S!Close, S!table
<1> QED BY Zenon, <1>2, <1>3 DEF FailPending

\* A step of schedule() starts, fails, probes or escalates one service.
LEMMA SupervisorSchedule ==
  ASSUME TypeOK, ReadyMeansRunning, HeldStaysDown, RestartIsUnderWay, PassIsOver,
         RanAfterDependencies, Next, NEW i \in Service, ScheduleService(i),
         pc = "schedule", pc' = pc, UNCHANGED <<def, operator_stopped, restart_after_stop>>
  PROVE  \/ S!Start(i) \/ S!BecomeReady(i) \/ S!Kill(i) \/ S!CloseByFailure(i)
         \/ UNCHANGED S!svars
<1>0. Phase \in {"open", "closing"} /\ (state[i] \in Waiting => Phase = "open")
  BY Zenon DEF Phase, PassIsOver, Waiting
<1>1. CASE Skip /\ NotShutting
  <2>1. UNCHANGED <<state, exit, proc, stop_sent, killed, exit_code, shutting_down>>
    BY Zenon, <1>1 DEF Skip, NotShutting
  <2>2. reached' = reached
    BY Zenon, <2>1, ReachedKept
  <2> QED BY Zenon, <2>1, <2>2, SupervisorQuiet
<1>2. CASE EscalateStop(i) /\ NotShutting
  BY Zenon, <1>2, SupervisorEscalate DEF NotShutting
<1>3. CASE state[i] = "STARTING" /\ ProbeConnect(i) /\ NotShutting
  <2>1. ASSUME NEW ev, BecomeReady(i, ev) PROVE S!BecomeReady(i) \/ UNCHANGED S!svars
    BY Zenon, <1>3, <2>1, SupervisorReady DEF BecomeReady, NotShutting
  <2> QED BY Zenon, <1>1, <1>3, <2>1 DEF ProbeConnect
<1>4. CASE ProbeCommand(i) /\ NotShutting
  <2>1. UNCHANGED <<state, exit, proc, stop_sent, killed, exit_code, shutting_down>>
    BY Zenon, <1>4 DEF ProbeCommand, Skip, NotShutting
  <2>2. reached' = reached
    BY Zenon, <2>1, ReachedKept
  <2> QED BY Zenon, <2>1, <2>2, SupervisorQuiet
<1>5. CASE /\ StartService(i) /\ NotShutting
           /\ \/ state[i] = "PENDING" /\ ~operator_stopped[i] /\ DepsSatisfied(i)
              \/ state[i] = "RESTART_WAIT"
  <2>1. Phase = "open"
    BY Zenon, <1>0, <1>5 DEF Waiting
  <2> QED BY Zenon, <1>5, <2>1, SupervisorStart
<1>6. ASSUME NEW dead \in DeadDep(i), FailPending(i, dead), state[i] = "PENDING",
             ~operator_stopped[i]
      PROVE  S!CloseByFailure(i) \/ UNCHANGED S!svars
  <2>1. dead \in Service
    BY Zenon, <1>6 DEF DeadDep, Unready, TypeOK, ServiceRecord
  <2>2. Phase = "open"
    BY Zenon, <1>0, <1>6 DEF Waiting
  <2> QED BY Zenon, <1>6, <2>1, <2>2, SupervisorFail
<1> QED BY Zenon, <1>1, <1>2, <1>3, <1>4, <1>5, <1>6 DEF ScheduleService, SchedulePending

\* A step of shutdown_step() tells a service no running one depends on, or escalates.
LEMMA SupervisorShutdown ==
  ASSUME TypeOK, FreshUntilRead, RanAfterDependencies, Next, NEW i \in Service,
         ShutdownService(i), pc = "shutdown", pc' = pc, shutting_down,
         UNCHANGED <<def, operator_stopped, restart_after_stop, shutting_down>>
  PROVE  S!TellToStop(i) \/ S!Kill(i) \/ UNCHANGED S!svars
<1>1. CASE Skip
  <2>1. UNCHANGED <<state, exit, proc, stop_sent, killed, exit_code>>
    BY Zenon, <1>1 DEF Skip
  <2>2. reached' = reached
    BY Zenon, <2>1, ReachedKept
  <2> QED BY Zenon, <2>1, <2>2, SupervisorQuiet
<1>2. CASE EscalateStop(i)
  BY Zenon, <1>2, SupervisorEscalate
<1>3. CASE /\ Running(i) /\ ~HasRunningDependent(i) /\ SendStop(i)
           /\ UNCHANGED <<proc, killed, exit_code>>
  <2>1. i \in Up /\ Up' = Up /\ Told' = Told \cup ({i} \cap Up)
    BY Zenon, <1>3, SendStopTells DEF Up
  <2>2. Told' = Told \cup {i}
    BY Zenon, <2>1
  <2>3. \A j \in Up : i \notin After[j]
    <3> SUFFICES ASSUME NEW j \in Service, Running(j), i \in def[j].after PROVE FALSE
      BY Zenon DEF Up, After
    <3>1. i < j
      BY Zenon DEF FreshUntilRead, ValidTable
    <3>2. j > i
      BY <3>1 DEF Service
    <3> QED BY Zenon, <1>3, <3>2 DEF HasRunningDependent
  <2>4. Phase = "closing" /\ Phase' = Phase /\ Code' = Code /\ Proven' = Proven
    BY <1>3, PhaseKept DEF Phase
  <2>5. UNCHANGED <<After, Vital, Slain, Held, Again>>
    BY <1>3, <2>1 DEF After, Vital, Slain, Held, Again
  <2> QED BY Zenon, <2>1, <2>2, <2>3, <2>4, <2>5 DEF S!TellToStop, S!table
<1> QED BY Zenon, <1>1, <1>2, <1>3 DEF ShutdownService

\* finish() is the end, with nothing up.
LEMMA SupervisorEnd ==
  ASSUME TypeOK, UNCHANGED <<svcVars, shutting_down>>, pc # "exited", pc' = "exited", Up = {},
         shutting_down => exit_code' = exit_code, exit_code' \in Nat
  PROVE  S!End
<1>1. UNCHANGED <<After, Vital, Up, Told, Slain, Held, Again>>
  BY FieldsKept DEF svcVars
<1>2. /\ Phase \in {"open", "closing"} /\ Phase' = "ended" /\ Proven' = {} /\ Code' = exit_code'
      /\ Phase = "closing" => Code = exit_code /\ shutting_down
  BY DEF Phase, Proven, Code
<1> QED BY Zenon, <1>1, <1>2 DEF S!End, S!table

\* Every step of cix-init is a step of the supervisor, or none.
LEMMA SupervisorStep ==
  ASSUME TypeOK, TypeOK', IInv, [Next]_vars
  PROVE  [S!Next]_(S!svars)
<1> USE DEF IInv, ShutdownHasBegun
<1>0. CASE UNCHANGED vars
  BY Zenon, <1>0, SupervisorQuiet DEF vars, svcVars, loopVars
<1>q. ASSUME Next, UNCHANGED <<svcVars, shutting_down, exit_code>>,
             pc' = pc \/ (pc # "exited" /\ pc' # "exited")
      PROVE  UNCHANGED S!svars
  BY Zenon, <1>q, SupervisorQuiet, ReachedKept DEF svcVars
<1>1. CASE Next /\ ReadTable
  <2>1. UNCHANGED <<svcVars, shutting_down>> /\ ~shutting_down /\ pc = "read_table"
    BY Zenon, <1>1 DEF ReadTable, FreshUntilRead
  <2>2. CASE ValidTable
    BY Zenon, <1>q, <1>1, <2>1, <2>2 DEF ReadTable
  <2>3. CASE ~ValidTable
    <3>1. Up = {}
      BY <2>1 DEF FreshUntilRead, Up, Running
    <3>2. pc' = "exited" /\ exit_code' \in Nat
      BY Zenon, <1>1, <2>3 DEF ReadTable, TypeOK
    <3> QED BY Zenon, <2>1, <3>1, <3>2, SupervisorEnd DEF S!Next
  <2> QED BY Zenon, <2>2, <2>3
<1>2. ASSUME Next, NEW i \in Service, ReapService(i) PROVE S!Next
  BY Zenon, <1>2, SupervisorReap DEF S!Next
<1>3. ASSUME Next, NEW i \in Service, ReapProbe(i) PROVE S!Next \/ UNCHANGED S!svars
  <2>1. /\ UNCHANGED <<def, proc, stop_sent, killed, operator_stopped, restart_after_stop, exit,
                       shutting_down, exit_code>>
        /\ pc' = pc
        /\ state' = state \/ (state[i] = "STARTING" /\ state' = [state EXCEPT ![i] = "READY"])
    BY Zenon, <1>3 DEF ReapProbe, loopVars
  <2>2. CASE state' = state
    BY Zenon, <1>3, <2>1, <2>2, ReachedKept, SupervisorQuiet
  <2>3. CASE state[i] = "STARTING" /\ state' = [state EXCEPT ![i] = "READY"]
    BY Zenon, <1>3, <2>1, <2>3, SupervisorReady DEF S!Next
  <2> QED BY Zenon, <2>1, <2>2, <2>3
<1>4. CASE Next /\ ReapDone
  <2>1. /\ pc = "reap" /\ pc' = "control"
        /\ UNCHANGED <<def, proc, stop_sent, killed, operator_stopped, restart_after_stop, exit>>
        /\ \/ BeginShutdown(state, probe, 0, "orderly")
           \/ UNCHANGED <<state, shutting_down, exit_code>>
    BY Zenon, <1>4 DEF ReapDone
  <2>2. CASE BeginShutdown(state, probe, 0, "orderly")
    BY Zenon, <2>1, <2>2, SupervisorOrder DEF S!Next
  <2>3. CASE UNCHANGED <<state, shutting_down, exit_code>>
    BY Zenon, <1>4, <2>1, <2>3, ReachedKept, SupervisorQuiet
  <2> QED BY Zenon, <2>1, <2>2, <2>3
<1>5. CASE Next /\ HandleCommand
  BY Zenon, <1>5, SupervisorCommand DEF S!Next
<1>6. CASE Next /\ Schedule
  <2>1. PICK i \in Service : ScheduleService(i) /\ pc = "schedule" /\ pc' = pc
                             /\ UNCHANGED <<def, operator_stopped, restart_after_stop>>
    BY Zenon, <1>6, CurIsAService DEF Schedule
  <2> QED BY Zenon, <1>6, <2>1, SupervisorSchedule DEF S!Next
<1>7. CASE Next /\ ShutdownStep
  <2>1. PICK i \in Service : ShutdownService(i) /\ pc = "shutdown" /\ pc' = pc
                             /\ UNCHANGED <<def, operator_stopped, restart_after_stop,
                                            shutting_down>>
    BY Zenon, <1>7, CurIsAService DEF ShutdownStep
  <2> QED BY Zenon, <1>7, <2>1, SupervisorShutdown DEF S!Next
<1>8. CASE Next /\ TurnEnd
  <2>1. UNCHANGED <<svcVars, shutting_down, exit_code>> /\ pc \in {"schedule", "shutdown"}
        /\ (pc' = "reap" \/ (~AnythingLeft /\ pc' = "exited"))
    BY Zenon, <1>8 DEF TurnEnd
  <2>2. CASE pc' = "reap"
    BY Zenon, <1>q, <1>8, <2>1, <2>2
  <2>3. CASE ~AnythingLeft /\ pc' = "exited"
    <3>1. Up = {}
      BY <2>3 DEF AnythingLeft, Up
    <3> QED BY Zenon, <2>1, <2>3, <3>1, SupervisorEnd DEF S!Next, TypeOK
  <2> QED BY Zenon, <2>1, <2>2, <2>3
<1>9. CASE Next /\ (ControlDone \/ SigTerm \/ SendCommand \/ Ended)
  BY Zenon, <1>q, <1>9 DEF ControlDone, SigTerm, SendCommand, Ended, loopVars
<1>10. ASSUME Next, NEW i \in Service, ProcExit(i) PROVE UNCHANGED S!svars
  <2>1. /\ UNCHANGED <<def, state, exit, stop_sent, killed, operator_stopped,
                       restart_after_stop, loopVars>>
        /\ proc[i] = "live" /\ proc' = [proc EXCEPT ![i] = "zombie"]
    BY Zenon, <1>10 DEF ProcExit
  <2>2. Up' = Up
    BY <2>1 DEF Up, Running, TypeOK
  <2>3. UNCHANGED <<After, Vital, Told, Slain, Held, Again>>
    BY <2>1, <2>2 DEF After, Vital, Told, Slain, Held, Again
  <2>4. Phase' = Phase /\ Code' = Code /\ Proven' = Proven
    BY <1>10, <2>1, ReachedKept, PhaseKept DEF loopVars
  <2> QED BY Zenon, <2>2, <2>3, <2>4 DEF S!svars, S!table, S!services
<1>11. ASSUME Next, NEW i \in Service, ProbeExit(i) \/ \E d \in Deadlines : Elapse(i, d)
       PROVE  UNCHANGED S!svars
  <2>1. UNCHANGED <<def, state, proc, exit, stop_sent, killed, operator_stopped,
                    restart_after_stop, loopVars>>
    BY Zenon, <1>11 DEF ProbeExit, Elapse
  <2> QED BY Zenon, <1>11, <2>1, ReachedKept, SupervisorQuiet DEF loopVars
<1> QED BY Zenon, <1>0, <1>1, <1>2, <1>3, <1>4, <1>5, <1>6, <1>7, <1>8, <1>9, <1>10, <1>11
        DEF Next, Turn, Environment

\* shutdown_step() is called only once a shutdown has begun.
LEMMA ShutdownPassInvariant == Spec => []ShutdownHasBegun
<1>1. Init => ShutdownHasBegun
  BY Zenon DEF Init, ShutdownHasBegun
<1>2. ShutdownHasBegun /\ [Next]_vars => ShutdownHasBegun'
  <2> SUFFICES ASSUME pc = "shutdown" => shutting_down, [Next]_vars, pc' = "shutdown"
               PROVE  shutting_down'
    BY DEF ShutdownHasBegun
  <2>1. CASE ControlDone
    BY Zenon, <2>1 DEF ControlDone
  <2>2. CASE pc = "shutdown" /\ UNCHANGED shutting_down
    BY <2>2
  <2> QED BY Zenon, <2>1, <2>2 DEF Next, Turn, Environment, ReadTable, ReapService, ReapProbe,
             ReapDone, HandleCommand, Schedule, ShutdownStep, TurnEnd, ProcExit, ProbeExit,
             Elapse, SigTerm, SendCommand, Ended, vars, loopVars
<1> QED BY <1>1, <1>2, PTL DEF Spec

\* cix-init is the supervisor of Supervisor, for every table, any number of
\* services, statuses and commands: reaping, probing, commands, schedule() and
\* shutdown_step() each take one of its steps, or none.
THEOREM SupervisorIsImplemented == Spec => ImplementsSupervisor
<1>1. Init => S!Init
  BY SupervisorInit
<1>2. TypeOK /\ TypeOK' /\ IInv /\ [Next]_vars => [S!Next]_(S!svars)
  BY SupervisorStep
<1>3. /\ ReadyMeansRunning /\ HeldStaysDown /\ RestartIsUnderWay /\ KillFollowsStop
      /\ HeldNotPending
      /\ PassIsOver /\ FreshUntilRead /\ CodeIsFixed
      /\ ShutdownHasBegun /\ RanAfterDependencies /\ ExitLeavesNothing
      => IInv
  BY DEF IInv
<1> QED BY <1>1, <1>2, <1>3, TypeCorrect, ServicesInvariant, ShutdownInvariant,
           ShutdownPassInvariant, RanInvariant, ExitIsClean, PTL
        DEF Spec, ImplementsSupervisor, S!Spec
=============================================================================
