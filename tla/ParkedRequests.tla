--------------------------- MODULE ParkedRequests ---------------------------
(***************************************************************************)
(* cixd's loop, the client connections on it, and the requests that wait   *)
(* for work done by a helper child: a credential check, a log read, a      *)
(* module job, a backup, an update, a verification (struct park).          *)
(*                                                                         *)
(* Connections and park records are addresses, used again once freed.  A   *)
(* handler runs to its end before the next event: what is left of it is    *)
(* `todo', and only a child may take a step meanwhile.  `req' numbers the  *)
(* requests, 0 for none; it is history, as `forks' and `answers' are.      *)
(***************************************************************************)
EXTENDS Integers, Sequences, FiniteSets

CONSTANTS
    Conns,          \* the addresses of struct conn
    Records,        \* the addresses of struct park
    NULL,
    RunningMax,     \* g_park_q[kind].running_max
    WaitMax,        \* g_park_q[kind].wait_max
    RequestShapes,  \* the requests: is a credential checked, and for what work
    DaemonJobs,     \* the work cixd queues for itself
    MAX_EVENTS,     \* of one epoll_wait(), and of g_pending_free
    MaxRequests     \* how many requests arrive

\* The kind of each job.  `snapshot' is a backup with a target on the backup
\* disk, `stage' the host roll's update, `install' a boot manager.
KindOf ==
    [check |-> "cred", read |-> "logread",
     load |-> "kmod", alias |-> "kmod", sweep |-> "kmod",
     download |-> "backup", snapshot |-> "backup",
     update |-> "update", stage |-> "update", install |-> "bootmgr",
     verify |-> "verify", report |-> "datadir"]

Jobs == DOMAIN KindOf
Kinds == {"cred", "logread", "kmod", "backup", "update", "bootmgr", "verify", "datadir"}
Requests == 1 .. MaxRequests
RequestJobs == {"read", "load", "download", "snapshot", "update", "install", "verify", "report"}

ASSUME AddressAssumption ==
    /\ IsFiniteSet(Conns) /\ IsFiniteSet(Records)
    /\ Conns \cap Records = {} /\ NULL \notin Conns \cup Records \cup Kinds
ASSUME LimitsAssumption ==
    /\ RunningMax \in [Kinds -> Nat \ {0}] /\ WaitMax \in [Kinds -> Nat]
    /\ MAX_EVENTS \in Nat \ {0} /\ MaxRequests \in Nat
ASSUME JobsAssumption ==
    /\ RequestShapes \subseteq [login : BOOLEAN, job : RequestJobs \cup {"none"}]
    /\ DaemonJobs \subseteq {"alias", "sweep", "snapshot", "stage"}

VARIABLES
    conn,           \* struct conn, by address
    rec,            \* struct park, by address
    queue,          \* the records that wait, by kind
    running,        \* g_park_q[kind].running
    helper,         \* the child of a record: "none", "working", "killed", or
                    \* how it has exited: "ok", "failed"
    sweep_pending,
    phase,          \* "wait" in epoll_wait(), "batch" while its events are handled
    batch,          \* events still to be handled: connections, and records whose
                    \* child has exited
    pending,        \* g_pending_free
    todo,           \* what the handler at work has left to do
    requests,       \* how many have arrived
    forks, answers  \* by request: the helpers started, by stage; the responses

vars == <<conn, rec, queue, running, helper, sweep_pending, phase, batch, pending, todo,
          requests, forks, answers>>

\* `kind' is CONN_CLIENT, CONN_DEAD or nothing at all.  `body' stands for
\* kmod_state too; `out': a response is not all written.
Conn == [kind : {"none", "client", "dead"}, req : 0 .. MaxRequests, login : BOOLEAN,
         job : RequestJobs \cup {"none"}, park : Records \cup {NULL},
         cred : {"unchecked", "refused", "verified", "unavailable"},
         body : {"none", "done", "unavailable", "failed", "taken"}, out : BOOLEAN]

NoConn == [kind |-> "none", req |-> 0, login |-> FALSE, job |-> "none", park |-> NULL,
           cred |-> "unchecked", body |-> "none", out |-> FALSE]
DeadConn == [NoConn EXCEPT !.kind = "dead"]

Record == [live : BOOLEAN, job : Jobs, cc : Conns \cup {NULL}, daemon_job : BOOLEAN,
           running : BOOLEAN, req : 0 .. MaxRequests]

Freed == [live |-> FALSE, job |-> "check", cc |-> NULL, daemon_job |-> FALSE,
          running |-> FALSE, req |-> 0]

\* park_new()
ParkNew(job, c) ==
    [live |-> TRUE, job |-> job, cc |-> c, daemon_job |-> (c = NULL), running |-> FALSE,
     req |-> IF c = NULL THEN 0 ELSE conn[c].req]

Idle == todo.serve = NULL /\ todo.drain = NULL
Unused == {r \in Records : ~rec[r].live}

-----------------------------------------------------------------------------
(* The end of a connection                                                 *)

\* Mutated: the connection is freed where it is torn down.
QueueConnFreeAtOnce(c, conns) == conn' = [conns EXCEPT ![c] = NoConn] /\ UNCHANGED pending

\* queue_conn_free(), of a connection that is CONN_DEAD from now on.
QueueConnFree(c, conns) ==
    IF Cardinality(pending) < MAX_EVENTS
    THEN /\ conn' = [conns EXCEPT ![c] = DeadConn]
         /\ pending' = pending \cup {c}
    ELSE /\ conn' = [conns EXCEPT ![c] = NoConn]
         /\ UNCHANGED pending

\* client_conn_finish(): all of the response is taken, or some of it is left.
ClientConnFinish(c, conns) ==
    \/ QueueConnFree(c, conns)
    \/ conn' = [conns EXCEPT ![c].out = TRUE] /\ UNCHANGED pending

KilledWhenAbandoned(job) == job \in {"read", "verify", "report", "download"}

\* park_unlink_waiting(): the first place that holds r is left out.
Without(seq, r) ==
    IF \E i \in 1 .. Len(seq) : seq[i] = r
    THEN [i \in 1 .. Len(seq) - 1 |-> IF \E j \in 1 .. i : seq[j] = r THEN seq[i + 1] ELSE seq[i]]
    ELSE seq

\* Mutated: a running record keeps its connection.
ParkAbandonKeepsClient(r) ==
    IF rec[r].running
    THEN /\ helper' = [helper EXCEPT ![r] =
                           IF KilledWhenAbandoned(rec[r].job) /\ @ = "working" THEN "killed" ELSE @]
         /\ UNCHANGED <<rec, queue>>
    ELSE /\ rec' = [rec EXCEPT ![r] = Freed]
         /\ queue' = [queue EXCEPT ![KindOf[rec[r].job]] = Without(@, r)]
         /\ UNCHANGED helper

\* Mutated: a running record is freed at once, its child still alive.
ParkAbandonFrees(r) ==
    /\ rec' = [rec EXCEPT ![r] = Freed]
    /\ queue' = [queue EXCEPT ![KindOf[rec[r].job]] = Without(@, r)]
    /\ UNCHANGED helper

\* park_abandon()
ParkAbandon(r) ==
    IF rec[r].running
    THEN /\ rec' = [rec EXCEPT ![r].cc = NULL]
         /\ helper' = [helper EXCEPT ![r] =
                           IF KilledWhenAbandoned(rec[r].job) /\ @ = "working" THEN "killed" ELSE @]
         /\ UNCHANGED queue
    ELSE IF rec[r].job = "snapshot"
    THEN /\ rec' = [rec EXCEPT ![r].cc = NULL, ![r].daemon_job = TRUE]
         /\ UNCHANGED <<queue, helper>>
    ELSE /\ rec' = [rec EXCEPT ![r] = Freed]
         /\ queue' = [queue EXCEPT ![KindOf[rec[r].job]] = Without(@, r)]
         /\ UNCHANGED helper

\* client_conn_teardown()
ClientConnTeardown(c) ==
    /\ QueueConnFree(c, conn)
    /\ IF conn[c].park = NULL THEN UNCHANGED <<rec, queue, helper>> ELSE ParkAbandon(conn[c].park)
    /\ UNCHANGED <<running, sweep_pending, todo, requests, forks, answers>>

-----------------------------------------------------------------------------
(* Serving a request                                                       *)

Stages == {"check", "work"}
Stage(job) == IF job = "check" THEN "check" ELSE "work"

\* park_start() when the child could be forked.
ParkStart(r, record) ==
    /\ rec' = [rec EXCEPT ![r] = [record EXCEPT !.running = TRUE]]
    /\ running' = [running EXCEPT ![KindOf[record.job]] = @ + 1]
    /\ helper' = [helper EXCEPT ![r] = "working"]
    /\ forks' = IF record.req = 0 THEN forks
                ELSE [forks EXCEPT ![record.req][Stage(record.job)] = @ + 1]

Room(kind) == running[kind] < RunningMax[kind]

\* park_submit() where it starts the job, and where it queues it.
SubmitStarts(r, record) ==
    /\ r \in Unused /\ Room(KindOf[record.job])
    /\ ParkStart(r, record)
    /\ UNCHANGED queue

SubmitQueues(r, record) ==
    /\ r \in Unused /\ ~Room(KindOf[record.job])
    /\ Len(queue[KindOf[record.job]]) < WaitMax[KindOf[record.job]]
    /\ rec' = [rec EXCEPT ![r] = record]
    /\ queue' = [queue EXCEPT ![KindOf[record.job]] = Append(@, r)]
    /\ UNCHANGED <<running, helper, forks>>

\* Mutated: a job that ran and produced nothing is asked for again.
NextJobRetries(c) ==
    IF conn[c].login /\ conn[c].cred = "unchecked" THEN "check"
    ELSE IF (conn[c].login => conn[c].cred = "verified") /\ conn[c].body \in {"none", "failed"}
    THEN conn[c].job ELSE "none"

\* Mutated: the work is asked for whatever the check has found.
NextJobUnverified(c) ==
    IF conn[c].login /\ conn[c].cred = "unchecked" THEN "check"
    ELSE IF conn[c].body = "none" THEN conn[c].job ELSE "none"

\* What cred_broker(), park_body_take() and kmod_broker() leave this pass of the
\* request to ask for; "none" when it has all it needs.
NextJob(c) ==
    IF conn[c].login /\ conn[c].cred = "unchecked" THEN "check"
    ELSE IF (conn[c].login => conn[c].cred = "verified") /\ conn[c].body = "none"
    THEN conn[c].job ELSE "none"

Answer(c) ==
    /\ answers' = [answers EXCEPT ![conn[c].req] = @ + 1]
    /\ ClientConnFinish(c, [conn EXCEPT ![c].body = IF @ = "done" THEN "taken" ELSE @])

\* serve_request(): the first pass of a request, or a later one.  It is answered
\* in this pass when it has all it needs; when park_submit() neither starts nor
\* queues its job (no record, no child, a full queue); or when its handler
\* refuses it.  Otherwise it is parked.
ServeRequest(c) ==
    /\ todo.serve = c
    /\ todo' = [todo EXCEPT !.serve = NULL]
    /\ LET job == NextJob(c) IN
        \/ Answer(c) /\ UNCHANGED <<rec, queue, running, helper, forks>>
        \/ /\ job # "none"
           /\ \E r \in Records :
                /\ SubmitStarts(r, ParkNew(job, c)) \/ SubmitQueues(r, ParkNew(job, c))
                /\ conn' = [conn EXCEPT ![c].park = r]
           /\ UNCHANGED <<pending, answers>>
    /\ UNCHANGED <<sweep_pending, phase, batch, requests>>

-----------------------------------------------------------------------------
(* The events of a batch                                                   *)

\* Mutated: the child of a client that left is not watched any more.
ExitedOfClients ==
    {r \in Records : helper[r] \in {"ok", "failed"} /\ (rec[r].cc # NULL \/ rec[r].daemon_job)}

\* The pidfds that are readable (helper_attach()).
Exited == {r \in Records : helper[r] \in {"ok", "failed"}}

\* epoll_wait(): children that have exited, and any connections.
Poll ==
    /\ phase = "wait"
    /\ phase' = "batch"
    /\ batch' \in SUBSET (Exited \cup {c \in Conns : conn[c].kind = "client"})
    /\ Cardinality(batch') <= MAX_EVENTS
    /\ Cardinality(batch') = MAX_EVENTS \/ Exited \subseteq batch'
    /\ UNCHANGED <<conn, rec, queue, running, helper, sweep_pending, pending, todo, requests,
                   forks, answers>>

Take(event) ==
    /\ phase = "batch" /\ Idle
    /\ event \in batch
    /\ batch' = batch \ {event}
    /\ UNCHANGED phase

\* accept_loop(), of one connection; the request it will carry is chosen here.
Accept(c) ==
    /\ phase = "batch" /\ Idle /\ conn[c].kind = "none" /\ requests < MaxRequests
    /\ requests' = requests + 1
    /\ \E shape \in RequestShapes :
        conn' = [conn EXCEPT ![c] = [NoConn EXCEPT !.kind = "client", !.req = requests + 1,
                                                   !.login = shape.login, !.job = shape.job]]
    /\ UNCHANGED <<rec, queue, running, helper, sweep_pending, phase, batch, pending, todo,
                   forks, answers>>

Nothing == UNCHANGED <<conn, rec, queue, running, helper, sweep_pending, pending, todo,
                       requests, forks, answers>>

\* The loop passes over a connection torn down earlier in the batch.
SkipDead(c) == Take(c) /\ conn[c].kind = "dead" /\ Nothing

\* handle_client_event(): a response goes on leaving ...
ResumeOutput(c) ==
    /\ Take(c) /\ conn[c].kind = "client" /\ conn[c].out
    /\ Nothing \/ ClientConnTeardown(c)

\* ... a parked connection is read to notice its peer leave ...
ParkedRead(c) ==
    /\ Take(c) /\ conn[c].kind = "client" /\ ~conn[c].out /\ conn[c].park # NULL
    /\ Nothing \/ ClientConnTeardown(c)

\* ... and the others are read: nothing new, the end, something that is no
\* request, or all of one.
ReadRequest(c) ==
    /\ Take(c) /\ conn[c].kind = "client" /\ ~conn[c].out /\ conn[c].park = NULL
    /\ \/ Nothing
       \/ ClientConnTeardown(c)
       \/ /\ ClientConnFinish(c, conn)
          /\ answers' = [answers EXCEPT ![conn[c].req] = @ + 1]
          /\ UNCHANGED <<rec, queue, running, helper, sweep_pending, todo, requests, forks>>
       \/ /\ todo' = [todo EXCEPT !.serve = c]
          /\ UNCHANGED <<conn, rec, queue, running, helper, sweep_pending, pending, requests,
                         forks, answers>>

\* Mutated: the place is given back twice.
ParkFinishedTwice(r) == running' = [running EXCEPT ![KindOf[rec[r].job]] = @ - 2]

\* Mutated: the place of a client that left is not given back.
ParkFinishedOfClient(r) ==
    running' = IF rec[r].cc = NULL /\ ~rec[r].daemon_job THEN running
               ELSE [running EXCEPT ![KindOf[rec[r].job]] = @ - 1]

\* park_finished()
ParkFinished(r) ==
    running' = IF rec[r].running THEN [running EXCEPT ![KindOf[rec[r].job]] = @ - 1] ELSE running

\* What the done callbacks leave on the connection.
Attached(c, job, result) ==
    IF job = "check"
    THEN {[conn EXCEPT ![c].park = NULL, ![c].cred = verdict] :
            verdict \in IF result = "ok" THEN {"verified", "refused"} ELSE {"refused"}}
    ELSE {[conn EXCEPT ![c].park = NULL, ![c].body = IF result = "ok" THEN "done" ELSE "failed"]}

\* Mutated: a sweep that ended without a report stays pending.
SweepOverOnReport(r, ok) == sweep_pending' = (sweep_pending /\ ~(rec[r].job = "sweep" /\ ok))

\* kmodscan_adopt(), kmodscan_set_sweep_pending(0)
SweepOver(r, ok) == sweep_pending' = (sweep_pending /\ rec[r].job # "sweep")

\* Mutated: the callback returns early when the client has left.
CallbackEndsForClient(r) ==
    [serve |-> rec[r].cc, drain |-> IF rec[r].cc = NULL THEN NULL ELSE KindOf[rec[r].job]]

\* The callback's last steps: serve_request(), then park_start_waiting().
CallbackEnds(r) == [serve |-> rec[r].cc, drain |-> KindOf[rec[r].job]]

\* handle_helper_event() and the done callback: cred_check_done(),
\* park_body_done(), kmod_job_done(), update_done().
HelperDone(r) ==
    /\ Take(r)
    /\ helper' = [helper EXCEPT ![r] = "none"]
    /\ ParkFinished(r)
    /\ SweepOver(r, helper[r] = "ok")
    /\ IF rec[r].cc = NULL THEN UNCHANGED conn
       ELSE conn' \in Attached(rec[r].cc, rec[r].job, helper[r])
    /\ rec' = [rec EXCEPT ![r] = Freed]
    /\ todo' = CallbackEnds(r)
    /\ UNCHANGED <<queue, pending, requests, forks, answers>>

\* park_unavailable()
Unavailable(c, job) ==
    IF job = "check" THEN [conn EXCEPT ![c].park = NULL, ![c].cred = "unavailable"]
    ELSE [conn EXCEPT ![c].park = NULL, ![c].body = "unavailable"]

\* One turn of the loop of park_start_waiting(), or its end.
ParkStartWaiting(kind) ==
    /\ todo.serve = NULL /\ todo.drain = kind
    /\ \/ /\ Room(kind) /\ queue[kind] # <<>>
          /\ LET r == Head(queue[kind]) IN
                \/ /\ rec[r].cc # NULL \/ rec[r].daemon_job
                   /\ ParkStart(r, rec[r])
                   /\ UNCHANGED <<conn, sweep_pending, todo>>
                \/ /\ rec' = [rec EXCEPT ![r] = Freed]
                   /\ conn' = IF rec[r].cc = NULL THEN conn ELSE Unavailable(rec[r].cc, rec[r].job)
                   /\ SweepOver(r, FALSE)
                   /\ todo' = [todo EXCEPT !.serve = rec[r].cc]
                   /\ UNCHANGED <<running, helper, forks>>
          /\ queue' = [queue EXCEPT ![kind] = Tail(@)]
       \/ /\ ~Room(kind) \/ queue[kind] = <<>>
          /\ todo' = [todo EXCEPT !.drain = NULL]
          /\ UNCHANGED <<conn, rec, queue, running, helper, sweep_pending, forks>>
    /\ UNCHANGED <<phase, batch, pending, requests, answers>>

\* kmod_hotplug() does not queue an alias that waits already, and
\* kmod_queue_sweep() no second sweep.
Redundant(job) ==
    \/ job = "sweep" /\ sweep_pending
    \/ job = "alias" /\ \E r \in Records : rec[r].live /\ rec[r].job = "alias" /\ ~rec[r].running

\* kmod_submit_daemon_job(), backup_submit_daemon_job(), update_submit_daemon_job(),
\* from a timer, a uevent or a request that does not wait for it.
DaemonJob(job) ==
    /\ phase = "batch" /\ Idle /\ ~Redundant(job)
    /\ \E r \in Records : SubmitStarts(r, ParkNew(job, NULL)) \/ SubmitQueues(r, ParkNew(job, NULL))
    /\ sweep_pending' = (sweep_pending \/ job = "sweep")
    /\ UNCHANGED <<conn, phase, batch, pending, todo, requests, answers>>

\* Every event is handled: conn_out_sweep() drops who does not read, and
\* drain_pending_free() frees.
EndBatch ==
    /\ phase = "batch" /\ Idle /\ batch = {}
    /\ \E stuck \in SUBSET {c \in Conns : conn[c].kind = "client" /\ conn[c].out} :
        conn' = [c \in Conns |-> IF c \in stuck \cup pending THEN NoConn ELSE conn[c]]
    /\ pending' = {}
    /\ phase' = "wait"
    /\ UNCHANGED <<rec, queue, running, helper, sweep_pending, batch, todo, requests, forks,
                   answers>>

\* A child ends with a result or without one; at any time.
HelperExits(r) ==
    /\ \/ helper[r] = "working" /\ \E how \in {"ok", "failed"} : helper' = [helper EXCEPT ![r] = how]
       \/ helper[r] = "killed" /\ helper' = [helper EXCEPT ![r] = "failed"]
    /\ UNCHANGED <<conn, rec, queue, running, sweep_pending, phase, batch, pending, todo,
                   requests, forks, answers>>

-----------------------------------------------------------------------------
Init ==
    /\ conn = [c \in Conns |-> NoConn]
    /\ rec = [r \in Records |-> Freed]
    /\ queue = [k \in Kinds |-> <<>>]
    /\ running = [k \in Kinds |-> 0]
    /\ helper = [r \in Records |-> "none"]
    /\ sweep_pending = FALSE
    /\ phase = "wait"
    /\ batch = {}
    /\ pending = {}
    /\ todo = [serve |-> NULL, drain |-> NULL]
    /\ requests = 0
    /\ forks = [n \in Requests |-> [stage \in Stages |-> 0]]
    /\ answers = [n \in Requests |-> 0]

Event ==
    \/ \E c \in Conns : SkipDead(c) \/ ResumeOutput(c) \/ ParkedRead(c) \/ ReadRequest(c)
    \/ \E r \in Records : HelperDone(r)

Handler ==
    \/ \E c \in Conns : ServeRequest(c)
    \/ \E k \in Kinds : ParkStartWaiting(k)

Next ==
    \/ Poll \/ Event \/ Handler \/ EndBatch
    \/ \E c \in Conns : Accept(c)
    \/ \E job \in DaemonJobs : DaemonJob(job)
    \/ \E r \in Records : HelperExits(r)

Spec == Init /\ [][Next]_vars

\* The loop goes round, and every child ends.
FairSpec ==
    /\ Spec
    /\ WF_vars(Poll \/ Event \/ Handler \/ EndBatch)
    /\ \A r \in Records : WF_vars(HelperExits(r))
=============================================================================
