------------------------- MODULE ParkedRequestsProps -------------------------
(***************************************************************************)
(* What cixd promises of the requests it parks, over ParkedRequests.       *)
(***************************************************************************)
EXTENDS ParkedRequests

\* Every variable has its type.
TypeOK ==
    /\ conn \in [Conns -> Conn]
    /\ rec \in [Records -> Record]
    /\ queue \in [Kinds -> Seq(Records)]
    /\ running \in [Kinds -> Nat]
    /\ helper \in [Records -> {"none", "working", "killed", "ok", "failed"}]
    /\ sweep_pending \in BOOLEAN
    /\ phase \in {"wait", "batch"}
    /\ batch \subseteq Conns \cup Records
    /\ pending \subseteq Conns
    /\ todo \in [serve : Conns \cup {NULL}, drain : Kinds \cup {NULL}]
    /\ requests \in 0 .. MaxRequests
    /\ forks \in [Requests -> [Stages -> Nat]]
    /\ answers \in [Requests -> Nat]

\* A connection and the record it waits for point at each other, and a record
\* never points at a later connection at the same address: a helper's result
\* reaches the request it was made for or nobody.
ResultsReachTheirRequest ==
    \A c \in Conns, r \in Records :
        /\ conn[c].park = r => rec[r].live /\ rec[r].cc = c /\ conn[c].kind = "client"
        /\ rec[r].cc = c => rec[r].live /\ conn[c].park = r /\ conn[c].req = rec[r].req

\* A child has the record it was started for until its exit is handled: its done
\* callback finds the record, and a kill finds the child.
HelpersKeepRecords == \A r \in Records : helper[r] # "none" <=> rec[r].live /\ rec[r].running

\* An event that is still to be handled belongs to a connection that is not freed.
EventsKeepConns == \A c \in Conns \cap batch : conn[c].kind # "none"

\* Between two handlers, whoever waits waits for running_max others to finish:
\* nobody is left in a queue that nothing will start.
WaitingIsForAPlace == Idle => \A k \in Kinds : queue[k] # <<>> => running[k] = RunningMax[k]

\* What handover_quiescent() asks of helpers is enough: when no child is alive
\* between two handlers, no record is left and no request is parked.
QuiescentIsIdle ==
    Idle /\ (\A r \in Records : helper[r] = "none") =>
        /\ \A r \in Records : ~rec[r].live
        /\ \A c \in Conns : conn[c].park = NULL

\* A sweep is pending exactly while there is a record for one.
SweepIsPending == sweep_pending <=> \E r \in Records : rec[r].live /\ rec[r].job = "sweep"

\* However often a request is served again, its credential is checked once, its
\* work is done once and it is answered once.
WorkIsDoneOnce ==
    \A n \in Requests : (\A stage \in Stages : forks[n][stage] <= 1) /\ answers[n] <= 1

Parked(n) == \E c \in Conns : conn[c].req = n /\ conn[c].park # NULL

\* A parked request is answered, or its client leaves.
ParkedIsServed == \A n \in Requests : Parked(n) ~> ~Parked(n)

-----------------------------------------------------------------------------
(* The promise as a whole                                                  *)

\* The requests of connections, and of records with the stage of their work.
Tokens(records) == {<<rec[r].req, Stage(rec[r].job)>> : r \in {r \in records : rec[r].req # 0}}

Open == {conn[c].req : c \in {c \in Conns : conn[c].kind = "client"}}
Locked ==
    {conn[c].req : c \in {c \in Conns : /\ conn[c].kind = "client"
                                       /\ conn[c].login /\ conn[c].cred # "verified"}}
Waiting == Tokens({r \in Records : rec[r].live /\ ~rec[r].running})
Working == Tokens({r \in Records : rec[r].live /\ rec[r].running})
Begun == {p \in Requests \X Stages : forks[p[1]][p[2]] > 0}
Answered == {n \in Requests : answers[n] > 0}

H == INSTANCE HelpedRequests
        WITH seen <- requests, open <- Open, locked <- Locked, waiting <- Waiting,
             working <- Working, started <- Begun, answered <- Answered

\* cixd does for its requests what HelpedRequests promises, and nothing else: a
\* credential is verified before the work starts, a helper works for one stage of
\* one request, nobody is answered while a helper is at work for them, and only
\* who was answered is dropped.
ImplementsRequests == H!Spec

-----------------------------------------------------------------------------
(* What makes them inductive                                               *)

Elems(seq) == {seq[i] : i \in 1 .. Len(seq)}
Distinct(seq) == \A i, j \in 1 .. Len(seq) : seq[i] = seq[j] => i = j

Waits(r, k) == rec[r].live /\ ~rec[r].running /\ KindOf[rec[r].job] = k
Occupied(k) == {r \in Records : rec[r].running /\ KindOf[rec[r].job] = k}
Sweeps(r) == rec[r].live /\ rec[r].job = "sweep"

RunningIsLive == \A r \in Records : rec[r].running => rec[r].live

\* The queue of a kind holds its waiting records, each of them once.
QueuesHoldTheWaiting ==
    \A k \in Kinds :
        /\ Distinct(queue[k])
        /\ \A r \in Records : r \in Elems(queue[k]) <=> Waits(r, k)

\* The counter of a kind counts its running records.
PlacesAreCounted ==
    \A k \in Kinds : running[k] = Cardinality(Occupied(k)) /\ running[k] <= RunningMax[k]

\* A place is free before somebody who waits only while a callback is about to
\* start who waits.
WaitingOrDraining ==
    \A k \in Kinds : queue[k] # <<>> => running[k] = RunningMax[k] \/ todo.drain = k

\* The request being served waits for nothing, and no parked request is answered.
ServedIsOpen ==
    /\ todo.serve # NULL => /\ conn[todo.serve].kind = "client"
                            /\ conn[todo.serve].park = NULL
                            /\ ~conn[todo.serve].out
    /\ \A c \in Conns : conn[c].park # NULL => ~conn[c].out

\* What the loop holds is as it was when it got hold of it.
LoopIsCurrent ==
    /\ \A r \in Records \cap batch : helper[r] \in {"ok", "failed"}
    /\ \A c \in pending : conn[c].kind = "dead"

\* There is one sweep at most, and no client waits for it.
OneSweep ==
    /\ \A r, s \in Records : Sweeps(r) /\ Sweeps(s) => r = s
    /\ \A r \in Records : Sweeps(r) => rec[r].cc = NULL

\* A request has one connection, and one record at a time.
RequestsAreDistinct ==
    /\ \A c \in Conns : conn[c].req <= requests /\ (conn[c].req # 0 <=> conn[c].kind = "client")
    /\ \A c, d \in Conns : conn[c].req # 0 /\ conn[c].req = conn[d].req => c = d
    /\ \A r \in Records : rec[r].req <= requests
    /\ \A r, s \in Records :
            rec[r].live /\ rec[s].live /\ rec[r].req # 0 /\ rec[r].req = rec[s].req => r = s
    /\ \A r \in Records, c \in Conns :
            rec[r].live /\ rec[r].req # 0 /\ conn[c].req = rec[r].req => rec[r].cc = c

\* What is still to be done for a request has not been done: the work of a record
\* that waits, and for a client what it has not yet asked for.
WaitingIsFresh(r) ==
    rec[r].live /\ ~rec[r].running /\ rec[r].req # 0 => forks[rec[r].req][Stage(rec[r].job)] = 0

HasNotAsked(c, stage) == \A r \in Records : conn[c].park = r => Stage(rec[r].job) # stage

ClientIsFresh(c) ==
    conn[c].kind = "client" =>
        /\ ~conn[c].out => answers[conn[c].req] = 0
        /\ conn[c].login /\ conn[c].cred = "unchecked" /\ HasNotAsked(c, "check")
            => forks[conn[c].req]["check"] = 0
        /\ conn[c].body = "none" /\ HasNotAsked(c, "work") => forks[conn[c].req]["work"] = 0

NotDoneYet ==
    /\ \A n \in Requests : n > requests =>
            answers[n] = 0 /\ \A stage \in Stages : forks[n][stage] = 0
    /\ \A r \in Records : WaitingIsFresh(r)
    /\ \A c \in Conns : ClientIsFresh(c)

RecordsInv ==
    /\ HelpersKeepRecords /\ RunningIsLive /\ QueuesHoldTheWaiting /\ PlacesAreCounted
    /\ WaitingOrDraining /\ OneSweep /\ SweepIsPending

ConnsInv == ResultsReachTheirRequest /\ ServedIsOpen /\ LoopIsCurrent

PInv == TypeOK /\ RecordsInv /\ ConnsInv

HistoryInv == RequestsAreDistinct /\ NotDoneYet /\ WorkIsDoneOnce

\* A response that is leaving was counted, and who waits for a check has no verdict.
OutIsAnswered == \A c \in Conns : conn[c].kind = "client" /\ conn[c].out => answers[conn[c].req] > 0

ChecksAreOpen ==
    \A c \in Conns, r \in Records :
        conn[c].park = r /\ rec[r].job = "check" => conn[c].login /\ conn[c].cred = "unchecked"

RInv == HistoryInv /\ OutIsAnswered /\ ChecksAreOpen
=============================================================================
