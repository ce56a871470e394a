------------------------------ MODULE CixInit ------------------------------
(***************************************************************************)
(* cix-init (init/src/cix_init.c): process 1 of every container, the       *)
(* supervisor of the services its table declares.                          *)
(*                                                                         *)
(* One turn of its loop is: reap every child that has exited, act on a     *)
(* SIGTERM, drain the control socket, then make one pass over the table    *)
(* (schedule() or, once a shutdown has begun, shutdown_step()), and either *)
(* exit or go round again.  `pc' names the phase of the turn and `cur' the *)
(* service the pass is at.                                                 *)
(*                                                                         *)
(* Children exiting, commands and signals interleave with the poll() that  *)
(* ends a turn and the reaping that starts the next, which is the phase    *)
(* "reap": the rest of a turn reads only cix-init's own memory, so an      *)
(* event during it cannot be told from one in the next poll().  What the   *)
(* world owes cix-init (a deadline passing, a child that was sent SIGKILL  *)
(* dying) happens in any phase, so that weak fairness is enough for it.    *)
(*                                                                         *)
(* Time: a deadline is a member of due[i] once the clock has passed it.    *)
(* Every reading of the clock against a deadline is a test of due[i].  How *)
(* long a deadline is away is left out: it may pass as soon as it is set.  *)
(***************************************************************************)
EXTENDS Integers, Sequences, FiniteSets

CONSTANTS
  N,           \* hello.service_count
  Tables,      \* the tables the daemon may send: functions on 0 .. N-1
  Statuses,    \* the wait statuses a service may end with
  Ops,         \* the operations the operator uses on a service
  MaxCommands  \* bound: operator commands in one behaviour

Service == 0 .. N - 1
Types == {"oneshot", "daemon"}
ReadyKinds == {"none", "net", "command"}   \* "net": a TCP or a unix-socket connect
OnExits == {"restart", "stop", "fail-container"}
ServiceRecord ==
  [type : Types, after : SUBSET Service, ready : ReadyKinds, on_exit : OnExits]
Status == [kind : {"none", "exited", "killed"}, value : 0 .. 255]

\* N services, each described by a record; statuses are those wait4() reports.
ASSUME ConstantsAssumption ==
  /\ N \in Nat \ {0}
  /\ Tables \subseteq [Service -> ServiceRecord]
  /\ Statuses \subseteq [kind : {"exited", "killed"}, value : 0 .. 255]
  /\ Ops \subseteq {"START", "STOP", "RESTART"}
  /\ MaxCommands \in Nat

States == {"PENDING", "STARTING", "READY", "EXITED", "RESTART_WAIT", "STOPPED", "FAILED"}
Procs == {"none", "live", "zombie"}
Probes == {"none", "live", "killed", "passed", "failed"}
Phases == {"read_table", "reap", "control", "schedule", "shutdown", "exited"}
Enders == {"none", "orderly", "service"}
Command == [op : {"START", "STOP", "RESTART", "SHUTDOWN"}, service : Service]
Deadlines == {"restart_at", "probe_deadline", "probe_pid_deadline", "stop_timeout"}

VARIABLES
  def,                 \* [Service -> ServiceRecord]: the table read at start
  state,               \* [Service -> States]: s->state
  proc,                \* the child: "none" is s->pid = 0, "zombie" not yet reaped
  probe,               \* s->probe_pid and the fate of that child
  stop_sent,           \* s->stop_sent_at # 0
  killed,              \* s->killed
  operator_stopped,    \* s->operator_stopped
  restart_after_stop,  \* s->restart_after_stop
  exit,                \* s->exit_kind and s->exit_value
  due,                 \* [Service -> SUBSET Deadlines]: the deadlines that have passed
  pc, cur,             \* the phase of the turn; the service the pass is at
  shutting_down,       \* g_shutting_down
  exit_code,           \* g_exit_code
  sigterm,             \* g_sigterm
  control,             \* the commands waiting in the control socket
  sent,                \* how many commands the operator has sent
  out,                 \* the reports the last step queued, in order
  ended_by,            \* history: what began the shutdown
  reached              \* history: the services that have ever been ready

svcVars == <<def, state, proc, probe, stop_sent, killed, operator_stopped,
             restart_after_stop, exit, due>>
loopVars == <<pc, cur, shutting_down, exit_code, sigterm, control, sent, ended_by>>
vars == <<svcVars, loopVars, out, reached>>

Report(i, ev, a, b) == [service |-> i, event |-> ev, a |-> a, b |-> b]

Running(i) == proc[i] # "none"              \* s->pid > 0

----------------------------------------------------------------------------
(* Dependencies. *)

DepReady(i) ==
  \/ /\ def[i].type = "oneshot"
     /\ state[i] = "EXITED" /\ exit[i] = [kind |-> "exited", value |-> 0]
  \/ /\ def[i].type = "daemon"
     /\ state[i] = "READY"

DepDead(i) ==
  \/ state[i] \in {"FAILED", "STOPPED"}
  \/ state[i] = "EXITED" /\ ~DepReady(i)

Unready(i) == {j \in def[i].after : ~DepReady(j)}

\* deps_satisfied() walks the table in order: the first dependency that is
\* not ready decides, and is the dead one it names if it can never be ready.
DeadDep(i) == {j \in Unready(i) : DepDead(j) /\ \A k \in Unready(i) : j <= k}
DepsSatisfiedShort(i) == Unready(i) \ {i - 1} = {}        \* mutant: the walk ends one early
DepsSatisfied(i) == Unready(i) = {}
HasDeadDep(i) == DeadDep(i) # {}

HasRunningDependentShort(i) ==                            \* mutant: the walk starts one late
  \E j \in Service : j > i + 1 /\ Running(j) /\ i \in def[j].after
HasRunningDependent(i) == \E j \in Service : j > i /\ Running(j) /\ i \in def[j].after

\* mutant: a service waiting out its restart delay is not counted
AnythingLeftUnlessWaiting ==
  \E i \in Service :
    Running(i) \/ (state[i] = "PENDING" /\ ~operator_stopped[i] /\ ~HasDeadDep(i))

\* anything_left()
AnythingLeft ==
  \E i \in Service :
    \/ Running(i)
    \/ state[i] = "RESTART_WAIT"
    \/ state[i] = "PENDING" /\ ~operator_stopped[i] /\ ~HasDeadDep(i)

\* mutant: a death by signal is the negated signal
MappedStatusNegative(w) == IF w.kind = "exited" THEN w.value ELSE -w.value
MappedStatus(w) == IF w.kind = "exited" THEN w.value ELSE 128 + w.value

----------------------------------------------------------------------------
(* begin_shutdown(), from a service table `st' and probes `pr' the caller  *)
(* has already changed.                                                    *)

Shut(st) ==
  [j \in Service |-> IF st[j] \in {"PENDING", "RESTART_WAIT"} THEN "EXITED" ELSE st[j]]
KillProbes(pr) == [j \in Service |-> IF pr[j] = "live" THEN "killed" ELSE pr[j]]

\* mutants: the code is not recorded; a second call is not refused
BeginShutdownKeepsCode(st, pr, code, why) ==
  /\ state' = Shut(st) /\ probe' = KillProbes(pr)
  /\ shutting_down' = TRUE
  /\ ended_by' = IF shutting_down THEN ended_by ELSE why
  /\ UNCHANGED exit_code

BeginShutdownTwice(st, pr, code, why) ==
  /\ state' = Shut(st) /\ probe' = KillProbes(pr)
  /\ shutting_down' = TRUE /\ exit_code' = code /\ ended_by' = why

BeginShutdown(st, pr, code, why) ==
  IF shutting_down
  THEN state' = st /\ probe' = pr /\ UNCHANGED <<shutting_down, exit_code, ended_by>>
  ELSE /\ state' = Shut(st)
       /\ probe' = KillProbes(pr)
       /\ shutting_down' = TRUE
       /\ exit_code' = code
       /\ ended_by' = why

ShutdownReport == IF shutting_down THEN <<>> ELSE <<Report(-1, "SHUTDOWN", "begins", 0)>>

----------------------------------------------------------------------------
(* Start-up: read_table() refuses, with CIXINIT_EXIT_BAD_TABLE, a record    *)
(* that depends on itself or on a later one.  wait_for_interfaces() is      *)
(* bounded and never fatal, so it is part of the step that comes up.        *)

ValidTable == \A i \in Service : \A j \in def[i].after : j < i

ReadTable ==
  /\ pc = "read_table"
  /\ IF ValidTable
     THEN /\ pc' = "reap"
          /\ out' = <<Report(-1, "UP", "", N)>>
          /\ UNCHANGED exit_code
     ELSE /\ pc' = "exited"
          /\ exit_code' = 125
          /\ out' = <<>>
  /\ UNCHANGED <<svcVars, cur, shutting_down, sigterm, control, sent, ended_by>>

----------------------------------------------------------------------------
(* Reaping. *)

\* service_exited(): every path records the status and forgets the probe;
\* what follows is on_exit, unless an operator or a shutdown decides first.
ExitedInShutdown(i, pr, ev) ==
  /\ shutting_down
  /\ state' = [state EXCEPT ![i] = "EXITED"]
  /\ probe' = pr
  /\ out' = ev
  /\ UNCHANGED <<restart_after_stop, shutting_down, exit_code, ended_by>>

ExitedTo(i, st, w, pr, ev) ==
  /\ state' = [state EXCEPT ![i] = st]
  /\ probe' = pr
  /\ exit_code' = MappedStatus(w)
  /\ out' = ev
  /\ UNCHANGED <<shutting_down, ended_by>>

ExitedAsAsked(i, w, pr, ev) ==
  /\ ~shutting_down
  /\ \/ /\ restart_after_stop[i]
        /\ restart_after_stop' = [restart_after_stop EXCEPT ![i] = FALSE]
        /\ ExitedTo(i, "PENDING", w, pr, ev)
     \/ /\ ~restart_after_stop[i] /\ operator_stopped[i]
        /\ ExitedTo(i, "STOPPED", w, pr, Append(ev, Report(i, "STOPPED", "", 0)))
        /\ UNCHANGED restart_after_stop

ExitedOneshot(i, w, pr, ev) ==
  LET failed == Append(ev, Report(i, "FAILED", "ONESHOT", MappedStatus(w))) IN
  /\ def[i].type = "oneshot"
  /\ \/ w = [kind |-> "exited", value |-> 0] /\ ExitedTo(i, "EXITED", w, pr, ev)
     \/ /\ w # [kind |-> "exited", value |-> 0]
        /\ def[i].on_exit # "fail-container"
        /\ ExitedTo(i, "FAILED", w, pr, failed)
     \/ /\ w # [kind |-> "exited", value |-> 0]
        /\ def[i].on_exit = "fail-container"
        /\ out' = failed \o ShutdownReport
        /\ BeginShutdown(state, pr, MappedStatus(w), "service")

ExitedDaemon(i, w, pr, ev) ==
  /\ def[i].type = "daemon"
  /\ \/ /\ def[i].on_exit = "restart"
        /\ ExitedTo(i, "RESTART_WAIT", w, pr, Append(ev, Report(i, "RESTART_IN", "", 0)))
     \/ def[i].on_exit = "stop" /\ ExitedTo(i, "EXITED", w, pr, ev)
     \/ /\ def[i].on_exit = "fail-container"
        /\ out' = ev \o ShutdownReport
        /\ BeginShutdown(state, pr, MappedStatus(w), "service")

ServiceExited(i, w) ==
  LET pr == [probe EXCEPT ![i] = "none"]
      ev == <<Report(i, "EXITED", w.kind, w.value)>> IN
  /\ proc' = [proc EXCEPT ![i] = "none"]
  /\ exit' = [exit EXCEPT ![i] = w]
  /\ stop_sent' = [stop_sent EXCEPT ![i] = FALSE]
  /\ killed' = [killed EXCEPT ![i] = FALSE]
  /\ due' = [due EXCEPT ![i] = {}]
  /\ \/ ExitedInShutdown(i, pr, ev)
     \/ ExitedAsAsked(i, w, pr, ev)
     \/ /\ ~shutting_down /\ ~restart_after_stop[i] /\ ~operator_stopped[i]
        /\ UNCHANGED restart_after_stop
        /\ ExitedOneshot(i, w, pr, ev) \/ ExitedDaemon(i, w, pr, ev)
  /\ UNCHANGED <<def, operator_stopped>>

ReapService(i) ==
  /\ pc = "reap"
  /\ proc[i] = "zombie"
  /\ \E w \in Statuses : ServiceExited(i, w)
  /\ UNCHANGED <<pc, cur, sigterm, control, sent>>

\* A command probe's answer arrives through wait4().
ReapProbe(i) ==
  /\ pc = "reap"
  /\ probe[i] \in {"passed", "failed"}
  /\ probe' = [probe EXCEPT ![i] = "none"]
  /\ IF probe[i] = "passed" /\ state[i] = "STARTING"
     THEN state' = [state EXCEPT ![i] = "READY"] /\ out' = <<Report(i, "READY", "", 0)>>
     ELSE state' = state /\ out' = <<>>
  /\ UNCHANGED <<def, proc, stop_sent, killed, operator_stopped, restart_after_stop,
                 exit, due, loopVars>>

\* wait4() has nothing left: act on a SIGTERM, then go on to the commands.
ReapDone ==
  /\ pc = "reap"
  /\ \A i \in Service : proc[i] # "zombie" /\ probe[i] \notin {"passed", "failed"}
  /\ pc' = "control"
  /\ sigterm' = FALSE
  /\ IF sigterm
     THEN BeginShutdown(state, probe, 0, "orderly") /\ out' = ShutdownReport
     ELSE UNCHANGED <<state, probe, shutting_down, exit_code, ended_by>> /\ out' = <<>>
  /\ UNCHANGED <<def, proc, stop_sent, killed, operator_stopped, restart_after_stop,
                 exit, due, cur, control, sent>>

----------------------------------------------------------------------------
(* Commands. *)

SendStop(i) ==
  IF Running(i) /\ ~stop_sent[i]
  THEN /\ stop_sent' = [stop_sent EXCEPT ![i] = TRUE]
       /\ due' = [due EXCEPT ![i] = @ \ {"stop_timeout"}]
  ELSE UNCHANGED <<stop_sent, due>>

\* mutant: the pid is not looked at
HandleStartRunning(i) ==
  /\ operator_stopped' = [operator_stopped EXCEPT ![i] = FALSE]
  /\ state' = [state EXCEPT ![i] = "PENDING"]
  /\ restart_after_stop' = [restart_after_stop EXCEPT ![i] = FALSE]
  /\ out' = <<>>
  /\ UNCHANGED <<stop_sent, due>>

HandleStart(i) ==
  LET idle == ~Running(i) /\ state[i] # "PENDING" IN
  /\ operator_stopped' = [operator_stopped EXCEPT ![i] = FALSE]
  /\ state' = IF idle THEN [state EXCEPT ![i] = "PENDING"] ELSE state
  /\ restart_after_stop' =
       IF idle THEN [restart_after_stop EXCEPT ![i] = FALSE] ELSE restart_after_stop
  /\ out' = <<>>
  /\ UNCHANGED <<stop_sent, due>>

\* mutant: a restart asked for earlier stays pending
HandleStopKeepsRestart(i) ==
  LET idle == ~Running(i) /\ state[i] # "STOPPED" IN
  /\ operator_stopped' = [operator_stopped EXCEPT ![i] = TRUE]
  /\ SendStop(i)
  /\ state' = IF idle THEN [state EXCEPT ![i] = "STOPPED"] ELSE state
  /\ out' = IF idle THEN <<Report(i, "STOPPED", "", 0)>> ELSE <<>>
  /\ UNCHANGED restart_after_stop

HandleStop(i) ==
  LET idle == ~Running(i) /\ state[i] # "STOPPED" IN
  /\ operator_stopped' = [operator_stopped EXCEPT ![i] = TRUE]
  /\ restart_after_stop' = [restart_after_stop EXCEPT ![i] = FALSE]
  /\ SendStop(i)
  /\ state' = IF idle THEN [state EXCEPT ![i] = "STOPPED"] ELSE state
  /\ out' = IF idle THEN <<Report(i, "STOPPED", "", 0)>> ELSE <<>>

\* mutant: the restart is noted and the stop signal is not sent
HandleRestartUnsent(i) ==
  /\ operator_stopped' = [operator_stopped EXCEPT ![i] = FALSE]
  /\ restart_after_stop' =
       IF Running(i) THEN [restart_after_stop EXCEPT ![i] = TRUE] ELSE restart_after_stop
  /\ state' = IF Running(i) THEN state ELSE [state EXCEPT ![i] = "PENDING"]
  /\ out' = <<>>
  /\ UNCHANGED <<stop_sent, due>>

HandleRestart(i) ==
  /\ operator_stopped' = [operator_stopped EXCEPT ![i] = FALSE]
  /\ SendStop(i)
  /\ restart_after_stop' =
       IF Running(i) THEN [restart_after_stop EXCEPT ![i] = TRUE] ELSE restart_after_stop
  /\ state' = IF Running(i) THEN state ELSE [state EXCEPT ![i] = "PENDING"]
  /\ out' = <<>>

\* handle_command(): nothing here asks whether a shutdown has begun.
HandleCommand ==
  /\ pc = "control"
  /\ control # <<>>
  /\ control' = Tail(control)
  /\ LET c == Head(control) IN
       \/ /\ c.op = "SHUTDOWN"
          /\ out' = ShutdownReport
          /\ BeginShutdown(state, probe, 0, "orderly")
          /\ UNCHANGED <<stop_sent, operator_stopped, restart_after_stop, due>>
       \/ /\ \/ c.op = "START" /\ HandleStart(c.service)
             \/ c.op = "STOP" /\ HandleStop(c.service)
             \/ c.op = "RESTART" /\ HandleRestart(c.service)
          /\ UNCHANGED <<probe, shutting_down, exit_code, ended_by>>
  /\ UNCHANGED <<def, proc, killed, exit, pc, cur, sigterm, sent>>

\* The socket is drained: make the pass this turn calls for.
ControlDone ==
  /\ pc = "control"
  /\ control = <<>>
  /\ pc' = IF shutting_down THEN "shutdown" ELSE "schedule"
  /\ cur' = IF shutting_down THEN N - 1 ELSE 0
  /\ out' = <<>>
  /\ UNCHANGED <<svcVars, shutting_down, exit_code, sigterm, control, sent, ended_by>>

----------------------------------------------------------------------------
(* schedule(). *)

SpawnFailed == [kind |-> "exited", value |-> 126]

StartReports(i) ==
  <<Report(i, "STARTING", "", 0), Report(i, "STARTED", "", 0)>> \o
    IF def[i].ready = "none" THEN <<Report(i, "READY", "", 0)>> ELSE <<>>

Forked(i) ==
  /\ proc' = [proc EXCEPT ![i] = "live"]
  /\ state' = [state EXCEPT ![i] = IF def[i].ready = "none" THEN "READY" ELSE "STARTING"]
  /\ stop_sent' = [stop_sent EXCEPT ![i] = FALSE]
  /\ killed' = [killed EXCEPT ![i] = FALSE]
  /\ probe' = [probe EXCEPT ![i] = "none"]
  /\ due' = [due EXCEPT ![i] = {}]
  /\ out' = StartReports(i)
  /\ UNCHANGED <<exit, exit_code>>

\* fork() failed: the service counts as having exited 126.
ForkFailed(i) ==
  /\ state' = [state EXCEPT ![i] = "FAILED"]
  /\ exit' = [exit EXCEPT ![i] = SpawnFailed]
  /\ exit_code' = 126
  /\ out' = <<Report(i, "STARTING", "", 0), Report(i, "FAILED", "SPAWN", 0)>>
  /\ UNCHANGED <<proc, stop_sent, killed, probe, due>>

StartService(i) == Forked(i) \/ ForkFailed(i)

Skip == /\ out' = <<>>
        /\ UNCHANGED <<state, proc, probe, stop_sent, killed, exit, due, exit_code>>

NotShutting == UNCHANGED <<shutting_down, ended_by>>

\* A service it is after will never be ready.
FailPending(i, dead) ==
  LET failed == [state EXCEPT ![i] = "FAILED"]
      ev == <<Report(i, "FAILED", "DEPENDENCY", dead)>>
      code == IF state[dead] = "FAILED" THEN MappedStatus(exit[dead]) ELSE 1 IN
  /\ IF def[i].on_exit = "fail-container"
     THEN BeginShutdown(failed, probe, code, "service") /\ out' = ev \o ShutdownReport
     ELSE state' = failed /\ out' = ev /\ UNCHANGED <<probe, exit_code>> /\ NotShutting
  /\ UNCHANGED <<proc, stop_sent, killed, exit, due>>

SchedulePending(i) ==
  \/ operator_stopped[i] /\ Skip /\ NotShutting
  \/ ~operator_stopped[i] /\ DepsSatisfied(i) /\ StartService(i) /\ NotShutting
  \/ ~operator_stopped[i] /\ \E dead \in DeadDep(i) : FailPending(i, dead)
  \/ ~operator_stopped[i] /\ ~DepsSatisfied(i) /\ ~HasDeadDep(i) /\ Skip /\ NotShutting

BecomeReady(i, ev) ==
  /\ state' = [state EXCEPT ![i] = "READY"]
  /\ out' = ev
  /\ UNCHANGED <<proc, probe, stop_sent, killed, exit, due, exit_code>>

\* mutant: the deadline is not looked at
ProbeConnectForever(i) ==
  /\ def[i].ready # "command"
  /\ \/ def[i].ready = "net" /\ BecomeReady(i, <<Report(i, "READY", "", 0)>>)
     \/ Skip

\* probe_service() for a connect probe: one attempt, then the deadline.
ProbeConnect(i) ==
  /\ def[i].ready # "command"
  /\ \/ def[i].ready = "net" /\ BecomeReady(i, <<Report(i, "READY", "", 0)>>)
     \/ /\ "probe_deadline" \in due[i]
        /\ BecomeReady(i, <<Report(i, "FAILED", "PROBE", 0), Report(i, "READY", "", 1)>>)
     \/ "probe_deadline" \notin due[i] /\ Skip

\* probe_service() for a command probe: spawn it, or kill one past its own
\* deadline, and return -- the answer arrives through wait4().
ProbeCommand(i) ==
  /\ def[i].ready = "command"
  /\ \/ /\ probe[i] = "none"
        /\ probe' = [probe EXCEPT ![i] = "live"]
        /\ due' = [due EXCEPT ![i] = @ \ {"probe_pid_deadline"}]
        /\ out' = <<>>
        /\ UNCHANGED <<state, proc, stop_sent, killed, exit, exit_code>>
     \/ probe[i] = "none" /\ Skip             \* fork() failed: try again next turn
     \/ /\ probe[i] = "live" /\ "probe_pid_deadline" \in due[i]
        /\ probe' = [probe EXCEPT ![i] = "killed"]
        /\ out' = <<>>
        /\ UNCHANGED <<state, proc, stop_sent, killed, exit, due, exit_code>>
     \/ /\ probe[i] # "none"
        /\ ~(probe[i] = "live" /\ "probe_pid_deadline" \in due[i])
        /\ Skip

\* mutants: the timeout is not waited for; only a shutdown escalates
EscalateStopAtOnce(i) ==
  IF Running(i) /\ stop_sent[i] /\ ~killed[i]
  THEN /\ killed' = [killed EXCEPT ![i] = TRUE]
       /\ out' = <<>>
       /\ UNCHANGED <<state, proc, probe, stop_sent, exit, due, exit_code>>
  ELSE Skip

EscalateStopInShutdown(i) ==
  IF shutting_down /\ Running(i) /\ stop_sent[i] /\ ~killed[i] /\ "stop_timeout" \in due[i]
  THEN /\ killed' = [killed EXCEPT ![i] = TRUE]
       /\ out' = <<>>
       /\ UNCHANGED <<state, proc, probe, stop_sent, exit, due, exit_code>>
  ELSE Skip

\* escalate_stop(): SIGKILL, once, when stop_timeout has passed.
EscalateStop(i) ==
  IF Running(i) /\ stop_sent[i] /\ ~killed[i] /\ "stop_timeout" \in due[i]
  THEN /\ killed' = [killed EXCEPT ![i] = TRUE]
       /\ out' = <<>>
       /\ UNCHANGED <<state, proc, probe, stop_sent, exit, due, exit_code>>
  ELSE Skip

ScheduleService(i) ==
  \/ state[i] = "PENDING" /\ SchedulePending(i)
  \/ /\ state[i] = "RESTART_WAIT"
     /\ IF "restart_at" \in due[i] THEN StartService(i) ELSE Skip
     /\ NotShutting
  \/ /\ state[i] = "STARTING" /\ ~stop_sent[i]
     /\ ProbeConnect(i) \/ ProbeCommand(i)
     /\ NotShutting
  \/ /\ (state[i] = "STARTING" /\ stop_sent[i]) \/ state[i] = "READY"
     /\ EscalateStop(i) /\ NotShutting
  \/ state[i] \in {"EXITED", "STOPPED", "FAILED"} /\ Skip /\ NotShutting

Schedule ==
  /\ pc = "schedule"
  /\ cur < N
  /\ cur' = cur + 1
  /\ ScheduleService(cur)
  /\ UNCHANGED <<def, operator_stopped, restart_after_stop, pc, sigterm, control, sent>>

----------------------------------------------------------------------------
(* shutdown_step(): from the last service to the first, stop one that no   *)
(* running service depends on, and escalate.                               *)

\* mutant: shutdown_step() never escalates
ShutdownServicePolite(i) ==
  IF Running(i) /\ ~HasRunningDependent(i) /\ ~stop_sent[i]
  THEN /\ SendStop(i)
       /\ out' = <<>>
       /\ UNCHANGED <<state, proc, probe, killed, exit, exit_code>>
  ELSE Skip

ShutdownService(i) ==
  IF Running(i) /\ ~HasRunningDependent(i)
  THEN IF ~stop_sent[i]
       THEN /\ SendStop(i)
            /\ out' = <<>>
            /\ UNCHANGED <<state, proc, probe, killed, exit, exit_code>>
       ELSE EscalateStop(i)
  ELSE Skip

ShutdownStep ==
  /\ pc = "shutdown"
  /\ cur >= 0
  /\ cur' = cur - 1
  /\ ShutdownService(cur)
  /\ UNCHANGED <<def, operator_stopped, restart_after_stop, pc, shutting_down, sigterm,
                 control, sent, ended_by>>

\* The pass is over: finish() if nothing is left to supervise, else poll()
\* and start the next turn.
TurnEnd ==
  /\ \/ pc = "schedule" /\ cur = N
     \/ pc = "shutdown" /\ cur = -1
  /\ pc' = IF AnythingLeft THEN "reap" ELSE "exited"
  /\ cur' = 0
  /\ out' = IF pc = "shutdown" /\ ~AnythingLeft
            THEN <<Report(-1, "SHUTDOWN", "complete", 0)>> ELSE <<>>
  /\ UNCHANGED <<svcVars, shutting_down, exit_code, sigterm, control, sent, ended_by>>

----------------------------------------------------------------------------
(* The environment. *)

ProcExit(i) ==
  /\ pc = "reap" \/ killed[i]
  /\ proc[i] = "live"
  /\ proc' = [proc EXCEPT ![i] = "zombie"]
  /\ out' = <<>>
  /\ UNCHANGED <<def, state, probe, stop_sent, killed, operator_stopped,
                 restart_after_stop, exit, due, loopVars>>

ProbeExit(i) ==
  /\ pc = "reap" \/ probe[i] = "killed"
  /\ probe[i] \in {"live", "killed"}
  /\ \E r \in {"passed", "failed"} :
       /\ probe[i] = "killed" => r = "failed"
       /\ probe' = [probe EXCEPT ![i] = r]
  /\ out' = <<>>
  /\ UNCHANGED <<def, state, proc, stop_sent, killed, operator_stopped,
                 restart_after_stop, exit, due, loopVars>>

\* Which deadlines the clock is running towards.
Armed(i, d) ==
  \/ d = "restart_at" /\ state[i] = "RESTART_WAIT"
  \/ d = "probe_deadline" /\ state[i] = "STARTING" /\ Running(i)
  \/ d = "probe_pid_deadline" /\ probe[i] = "live"
  \/ d = "stop_timeout" /\ stop_sent[i] /\ ~killed[i]

Elapse(i, d) ==
  /\ pc # "exited"
  /\ Armed(i, d)
  /\ d \notin due[i]
  /\ due' = [due EXCEPT ![i] = @ \cup {d}]
  /\ out' = <<>>
  /\ UNCHANGED <<def, state, proc, probe, stop_sent, killed, operator_stopped,
                 restart_after_stop, exit, loopVars>>

SigTerm ==
  /\ pc = "reap"
  /\ ~sigterm /\ ~shutting_down
  /\ sigterm' = TRUE
  /\ out' = <<>>
  /\ UNCHANGED <<svcVars, pc, cur, shutting_down, exit_code, control, sent, ended_by>>

SendCommand ==
  /\ pc = "reap"
  /\ sent < MaxCommands
  /\ sent' = sent + 1
  /\ \/ \E op \in Ops, i \in Service : control' = Append(control, [op |-> op, service |-> i])
     \/ control' = Append(control, [op |-> "SHUTDOWN", service |-> 0])
  /\ out' = <<>>
  /\ UNCHANGED <<svcVars, pc, cur, shutting_down, exit_code, sigterm, ended_by>>

----------------------------------------------------------------------------
Init ==
  /\ def \in Tables
  /\ state = [i \in Service |-> "PENDING"]
  /\ proc = [i \in Service |-> "none"]
  /\ probe = [i \in Service |-> "none"]
  /\ stop_sent = [i \in Service |-> FALSE]
  /\ killed = [i \in Service |-> FALSE]
  /\ operator_stopped = [i \in Service |-> FALSE]
  /\ restart_after_stop = [i \in Service |-> FALSE]
  /\ exit = [i \in Service |-> [kind |-> "none", value |-> 0]]
  /\ due = [i \in Service |-> {}]
  /\ pc = "read_table" /\ cur = 0
  /\ shutting_down = FALSE
  /\ exit_code = 0
  /\ sigterm = FALSE
  /\ control = <<>> /\ sent = 0
  /\ out = <<>>
  /\ ended_by = "none"
  /\ reached = {}

\* One step of cix-init itself.
Turn ==
  \/ ReadTable
  \/ \E i \in Service : ReapService(i) \/ ReapProbe(i)
  \/ ReapDone
  \/ HandleCommand
  \/ ControlDone
  \/ Schedule
  \/ ShutdownStep
  \/ TurnEnd

Environment ==
  \/ \E i \in Service : ProcExit(i) \/ ProbeExit(i)
  \/ \E i \in Service, d \in Deadlines : Elapse(i, d)
  \/ SigTerm
  \/ SendCommand

\* The container has ended; nothing more happens.
Ended == pc = "exited" /\ UNCHANGED <<svcVars, loopVars>> /\ out' = <<>>

Next ==
  /\ Turn \/ Environment \/ Ended
  /\ reached' = reached \cup {i \in Service : DepReady(i)'}

Spec == Init /\ [][Next]_vars

\* The scheduler runs pid 1, the clock passes every deadline, and a child
\* that has been sent SIGKILL dies.  Nothing makes a service exit by itself.
Fairness ==
  /\ WF_vars(Turn /\ Next)
  /\ \A i \in Service :
       /\ WF_vars(killed[i] /\ ProcExit(i) /\ Next)
       /\ WF_vars(probe[i] = "killed" /\ ProbeExit(i) /\ Next)
       /\ \A d \in Deadlines : WF_vars(Elapse(i, d) /\ Next)

FairSpec == Spec /\ Fairness
=============================================================================
