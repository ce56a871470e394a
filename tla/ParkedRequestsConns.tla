------------------------ MODULE ParkedRequestsConns -------------------------
(***************************************************************************)
(* Every step of ParkedRequests keeps the types, and what is true of the   *)
(* connections and of the loop.                                            *)
(***************************************************************************)
EXTENDS ParkedRequestsSteps

LEMMA TodoUpdates ==
    ASSUME NEW t \in [serve : Conns \cup {NULL}, drain : Kinds \cup {NULL}]
    PROVE  /\ \A c \in Conns \cup {NULL} : [t EXCEPT !.serve = c] \in [serve : Conns \cup {NULL}, drain : Kinds \cup {NULL}]
           /\ [t EXCEPT !.drain = NULL] \in [serve : Conns \cup {NULL}, drain : Kinds \cup {NULL}]
BY Zenon

LEMMA WithoutType ==
    ASSUME NEW S, NEW q \in Seq(S), NEW r
    PROVE  Without(q, r) \in Seq(S)
<1>1. CASE ~\E i \in 1 .. Len(q) : q[i] = r
  BY <1>1, Zenon DEF Without
<1>2. CASE \E i \in 1 .. Len(q) : q[i] = r
  <2>1. Len(q) \in Nat /\ Len(q) - 1 \in Nat /\ \A i \in 1 .. Len(q) : q[i] \in S
    BY <1>2
  <2>2. \A i \in 1 .. Len(q) - 1 :
            (IF \E j \in 1 .. i : q[j] = r THEN q[i + 1] ELSE q[i]) \in S
    BY <2>1
  <2>3. [i \in 1 .. Len(q) - 1 |-> IF \E j \in 1 .. i : q[j] = r THEN q[i + 1] ELSE q[i]] \in Seq(S)
    BY <2>1, <2>2
  <2> QED
    BY <1>2, <2>3, Zenon DEF Without
<1> QED
  BY <1>1, <1>2, Zenon

LEMMA ParkAbandonType ==
    ASSUME TypeOK, NEW r \in Records, ParkAbandon(r)
    PROVE  /\ rec' \in [Records -> Record] /\ queue' \in [Kinds -> Seq(Records)]
           /\ helper' \in [Records -> {"none", "working", "killed", "ok", "failed"}]
<1>1. KindOf[rec[r].job] \in Kinds
  BY KindType DEF TypeOK, Record
<1>2. Without(queue[KindOf[rec[r].job]], r) \in Seq(Records)
  BY <1>1, WithoutType, Zenon DEF TypeOK
<1>3. [queue EXCEPT ![KindOf[rec[r].job]] = Without(@, r)] \in [Kinds -> Seq(Records)]
  BY <1>1, <1>2, Zenon DEF TypeOK
<1>4. \A x \in Record : [rec EXCEPT ![r] = x] \in [Records -> Record]
  BY Zenon DEF TypeOK
<1>5. PICK x \in Record :
            /\ rec' = [rec EXCEPT ![r] = x]
            /\ queue' = queue \/ queue' = [queue EXCEPT ![KindOf[rec[r].job]] = Without(@, r)]
  BY ParkAbandonShape, Zenon
<1>6. queue' \in [Kinds -> Seq(Records)]
  BY <1>3, <1>5, Zenon DEF TypeOK
<1> QED
  BY <1>4, <1>5, <1>6, ParkAbandonShape, Zenon

LEMMA TeardownType ==
    ASSUME TypeOK, NEW c \in Conns, ClientConnTeardown(c), phase' = phase, batch' \subseteq batch
    PROVE  TypeOK'
<1>1. conn' \in [Conns -> Conn] /\ pending' \subseteq Conns
  <2>1. PICK v \in Conn : conn' = [conn EXCEPT ![c] = v] /\ pending' \subseteq pending \cup {c}
    BY TeardownShape, Zenon
  <2> QED
    BY <2>1, ZenonT(60) DEF TypeOK
<1>2. conn[c].park \in Records \cup {NULL}
  BY DEF TypeOK, Conn
<1>3. /\ rec' \in [Records -> Record] /\ queue' \in [Kinds -> Seq(Records)]
      /\ helper' \in [Records -> {"none", "working", "killed", "ok", "failed"}]
  BY <1>2, ParkAbandonType, Zenon DEF ClientConnTeardown, TypeOK
<1> QED
  BY <1>1, <1>3, Zenon DEF ClientConnTeardown, TypeOK

LEMMA ParkStartType ==
    ASSUME TypeOK, NEW r \in Records, NEW x \in Record, ParkStart(r, x)
    PROVE  /\ rec' \in [Records -> Record] /\ running' \in [Kinds -> Nat]
           /\ helper' \in [Records -> {"none", "working", "killed", "ok", "failed"}]
           /\ forks' \in [Requests -> [Stages -> Nat]]
<1>1. KindOf[x.job] \in Kinds
  BY KindType DEF Record
<1>2. [x EXCEPT !.running = TRUE] \in Record
  BY RecordUpdates, Zenon
<1>3. rec' \in [Records -> Record]
  BY <1>2, Zenon DEF ParkStart, TypeOK
<1>4. running' \in [Kinds -> Nat]
  BY SMTT(30), <1>1 DEF ParkStart, TypeOK
<1>5. forks' \in [Requests -> [Stages -> Nat]]
  <2>1. x.req = 0 \/ x.req \in Requests
    BY LimitsAssumption DEF Record, Requests
  <2>2. Stage(x.job) \in Stages
    BY DEF Stage, Stages
  <2>3. CASE x.req # 0
    <3>1. forks[x.req] \in [Stages -> Nat] /\ forks[x.req][Stage(x.job)] + 1 \in Nat
      BY <2>1, <2>2, <2>3 DEF TypeOK
    <3>2. [forks[x.req] EXCEPT ![Stage(x.job)] = @ + 1] \in [Stages -> Nat]
      BY <3>1, Zenon
    <3>3. forks' = [forks EXCEPT ![x.req] = [forks[x.req] EXCEPT ![Stage(x.job)] = @ + 1]]
      BY <2>3, Zenon DEF ParkStart
    <3> QED
      BY <3>2, <3>3, Zenon DEF TypeOK
  <2> QED
    BY <2>3, Zenon DEF ParkStart, TypeOK
<1> QED
  BY <1>3, <1>4, <1>5, Zenon DEF ParkStart, TypeOK

\* park_submit(), started or queued.
LEMMA SubmitType ==
    ASSUME TypeOK, NEW r \in Records, NEW x \in Record, SubmitStarts(r, x) \/ SubmitQueues(r, x)
    PROVE  /\ rec' \in [Records -> Record] /\ running' \in [Kinds -> Nat]
           /\ queue' \in [Kinds -> Seq(Records)]
           /\ helper' \in [Records -> {"none", "working", "killed", "ok", "failed"}]
           /\ forks' \in [Requests -> [Stages -> Nat]]
<1>1. CASE SubmitStarts(r, x)
  BY <1>1, ParkStartType, Zenon DEF SubmitStarts, TypeOK
<1>2. CASE SubmitQueues(r, x)
  <2>1. KindOf[x.job] \in Kinds
    BY KindType DEF Record
  <2>2. Append(queue[KindOf[x.job]], r) \in Seq(Records)
    BY <2>1 DEF TypeOK
  <2> QED
    BY <1>2, <2>1, <2>2, Zenon DEF SubmitQueues, TypeOK
<1> QED
  BY <1>1, <1>2, Zenon

LEMMA AnswersType ==
    ASSUME NEW f \in [Requests -> Nat]
    PROVE  \A n : [f EXCEPT ![n] = @ + 1] \in [Requests -> Nat]
<1> TAKE n
<1>1. CASE n \in Requests
  <2>1. f[n] + 1 \in Nat
    BY <1>1
  <2> QED
    BY <2>1, Zenon
<1>2. CASE n \notin Requests
  <2>1. \A m \in Requests : [f EXCEPT ![n] = @ + 1][m] = f[m]
    BY <1>2, Zenon
  <2> QED
    BY <2>1, Zenon
<1> QED
  BY <1>1, <1>2, Zenon

LEMMA ServeType == ASSUME TypeOK, NEW c \in Conns, ServeRequest(c) PROVE TypeOK'
<1>1. todo' \in [serve : Conns \cup {NULL}, drain : Kinds \cup {NULL}]
  BY TodoUpdates, Zenon DEF ServeRequest, TypeOK
<1>2. CASE Answer(c) /\ UNCHANGED <<rec, queue, running, helper, forks>>
  <2>1. PICK v : AnswerShape(c, v)
    BY <1>2, AnswerIsAnswer, Zenon
  <2>2. conn' \in [Conns -> Conn] /\ pending' \subseteq Conns
    BY <2>1, Zenon DEF AnswerShape, TypeOK
  <2>3. answers' \in [Requests -> Nat]
    <3>1. answers' = [answers EXCEPT ![conn[c].req] = @ + 1]
      BY <1>2, Zenon DEF Answer
    <3> QED
      BY <3>1, AnswersType, Zenon DEF TypeOK
  <2> QED
    BY <1>1, <1>2, <2>2, <2>3, Zenon DEF ServeRequest, TypeOK
<1>3. ASSUME NextJob(c) # "none", NEW r \in Records,
             SubmitStarts(r, ParkNew(NextJob(c), c)) \/ SubmitQueues(r, ParkNew(NextJob(c), c)),
             conn' = [conn EXCEPT ![c].park = r], UNCHANGED <<pending, answers>>
      PROVE  TypeOK'
  <2>0. PICK job \in Jobs : job = NextJob(c)
    BY <1>3, NextJobType, Zenon
  <2>1. PICK x \in Record : x = ParkNew(job, c)
    <3>1. c \in Conns \cup {NULL}
      BY Zenon
    <3> QED
      BY <3>1, ParkNewType, Zenon
  <2>2. SubmitStarts(r, x) \/ SubmitQueues(r, x)
    BY <1>3, <2>0, <2>1, Zenon
  <2>3. conn' \in [Conns -> Conn]
    <3>1. [conn[c] EXCEPT !.park = r] \in Conn
      BY ConnUpdates, Zenon DEF TypeOK
    <3> QED
      BY <1>3, <3>1, Zenon DEF TypeOK
  <2> QED
    BY <1>1, <1>3, <2>2, <2>3, SubmitType, Zenon DEF ServeRequest, TypeOK
<1> QED
  BY <1>2, <1>3, Zenon DEF ServeRequest

LEMMA DoneType ==
    ASSUME TypeOK, NEW r \in Records, HelperDone(r),
           rec[r].running => running[KindOf[rec[r].job]] # 0
    PROVE  TypeOK'
<1>1. rec[r] \in Record /\ KindOf[rec[r].job] \in Kinds /\ rec[r].cc \in Conns \cup {NULL}
  BY KindType DEF TypeOK, Record
<1>2. rec' \in [Records -> Record] /\ rec' = [rec EXCEPT ![r] = Freed]
  BY FreedType, Zenon DEF HelperDone, TypeOK
<1>3. running' \in [Kinds -> Nat]
  <2>1. CASE rec[r].running
    <3>1. running' = [running EXCEPT ![KindOf[rec[r].job]] = @ - 1]
      BY <2>1, Zenon DEF HelperDone, ParkFinished
    <3>2. running[KindOf[rec[r].job]] \in Nat \ {0}
      BY <1>1, <2>1, Zenon DEF TypeOK
    <3>3. running[KindOf[rec[r].job]] - 1 \in Nat
      BY <3>2
    <3> QED
      BY <1>1, <3>1, <3>3, Zenon DEF TypeOK
  <2> QED
    BY <2>1, Zenon DEF HelperDone, ParkFinished, TypeOK
<1>4. conn' \in [Conns -> Conn]
  BY DoneShape, Zenon DEF TypeOK
<1>5. todo' \in [serve : Conns \cup {NULL}, drain : Kinds \cup {NULL}]
  BY <1>1, Zenon DEF HelperDone, CallbackEnds
<1>6. helper' \in [Records -> {"none", "working", "killed", "ok", "failed"}]
  BY Zenon DEF HelperDone, TypeOK
<1>7. sweep_pending' \in BOOLEAN
  BY Zenon DEF HelperDone, SweepOver
<1> QED
  BY <1>2, <1>3, <1>4, <1>5, <1>6, <1>7, Zenon DEF HelperDone, Take, TypeOK

LEMMA WaitingType ==
    ASSUME TypeOK, NEW kind \in Kinds, ParkStartWaiting(kind)
    PROVE  TypeOK'
<1>1. UNCHANGED <<phase, batch, pending, requests, answers>>
  BY Zenon DEF ParkStartWaiting
<1>2. CASE WaitingEnds(kind)
  <2>1. todo' \in [serve : Conns \cup {NULL}, drain : Kinds \cup {NULL}]
    BY <1>2, TodoUpdates, Zenon DEF WaitingEnds, TypeOK
  <2> QED
    BY <1>1, <1>2, <2>1, Zenon DEF WaitingEnds, TypeOK
<1>3. ASSUME NEW r \in Records, NEW x \in Record, WaitingStarts(kind, r, x),
             queue' \in [Kinds -> Seq(Records)]
      PROVE  TypeOK'
  BY <1>1, <1>3, ParkStartType, Zenon DEF WaitingStarts, TypeOK
<1>4. ASSUME NEW r \in Records, NEW x \in Record, WaitingFails(kind, r, x),
             queue' \in [Kinds -> Seq(Records)]
      PROVE  TypeOK'
  <2>1. x.cc \in Conns \cup {NULL}
    BY DEF Record
  <2>2. conn' \in [Conns -> Conn]
    BY <1>4, FailsShape, Zenon DEF TypeOK
  <2>3. todo' \in [serve : Conns \cup {NULL}, drain : Kinds \cup {NULL}]
    BY <1>4, <2>1, TodoUpdates, Zenon DEF WaitingFails, TypeOK
  <2>4. sweep_pending' \in BOOLEAN /\ rec' \in [Records -> Record]
    BY <1>4, FreedType, Zenon DEF WaitingFails, TypeOK
  <2> QED
    BY <1>1, <1>4, <2>2, <2>3, <2>4, Zenon DEF WaitingFails, TypeOK
<1> QED
  BY <1>2, <1>3, <1>4, WaitingOutcomes, Zenon

LEMMA ReadType == ASSUME TypeOK, NEW c \in Conns, ReadRequest(c) PROVE TypeOK'
<1>1. phase' = phase /\ batch' \subseteq batch
  BY Zenon DEF ReadRequest, Take
<1>2. CASE Nothing
  BY <1>1, <1>2, Zenon DEF Nothing, TypeOK
<1>3. CASE ClientConnTeardown(c)
  BY <1>1, <1>3, TeardownType, Zenon
<1>4. CASE /\ ClientConnFinish(c, conn)
           /\ answers' = [answers EXCEPT ![conn[c].req] = @ + 1]
           /\ UNCHANGED <<rec, queue, running, helper, sweep_pending, todo, requests, forks>>
  <2>1. PICK v : AnswerShape(c, v)
    BY <1>4, FinishIsAnswer, Zenon
  <2>2. conn' \in [Conns -> Conn] /\ pending' \subseteq Conns
    BY <2>1, Zenon DEF AnswerShape, TypeOK
  <2>3. answers' \in [Requests -> Nat]
    BY <1>4, AnswersType, Zenon DEF TypeOK
  <2> QED
    BY <1>1, <1>4, <2>2, <2>3, Zenon DEF TypeOK
<1>5. CASE /\ todo' = [todo EXCEPT !.serve = c]
           /\ UNCHANGED <<conn, rec, queue, running, helper, sweep_pending, pending, requests,
                          forks, answers>>
  <2>1. todo' \in [serve : Conns \cup {NULL}, drain : Kinds \cup {NULL}]
    BY <1>5, TodoUpdates, Zenon DEF TypeOK
  <2> QED
    BY <1>1, <1>5, <2>1, Zenon DEF TypeOK
<1> QED
  BY <1>2, <1>3, <1>4, <1>5, Zenon DEF ReadRequest

LEMMA AcceptType == ASSUME TypeOK, NEW c \in Conns, Accept(c) PROVE TypeOK'
<1>1. requests' \in 0 .. MaxRequests
  BY LimitsAssumption DEF Accept, TypeOK
<1>2. conn' \in [Conns -> Conn]
  BY AcceptShape, Zenon DEF TypeOK
<1> QED
  BY <1>1, <1>2, Zenon DEF Accept, TypeOK

LEMMA TypesKept ==
    ASSUME TypeOK, [Next]_vars,
           \A r \in Records : rec[r].running => running[KindOf[rec[r].job]] # 0
    PROVE  TypeOK'
<1>1. CASE UNCHANGED vars
  BY <1>1, Zenon DEF vars, TypeOK
<1>2. CASE Poll
  <2>1. batch' \subseteq Conns \cup Records
    BY <1>2, Zenon DEF Poll, Exited
  <2> QED
    BY <1>2, <2>1, Zenon DEF Poll, TypeOK
<1>3. ASSUME NEW c \in Conns, SkipDead(c) PROVE TypeOK'
  BY <1>3, Zenon DEF SkipDead, Take, Nothing, TypeOK
<1>4. ASSUME NEW c \in Conns, ResumeOutput(c) \/ ParkedRead(c) PROVE TypeOK'
  <2>1. phase' = phase /\ batch' \subseteq batch /\ (Nothing \/ ClientConnTeardown(c))
    BY <1>4, Zenon DEF ResumeOutput, ParkedRead, Take
  <2>2. CASE Nothing
    BY <2>1, <2>2, Zenon DEF Nothing, TypeOK
  <2> QED
    BY <2>1, <2>2, TeardownType, Zenon
<1>5. ASSUME NEW c \in Conns, ReadRequest(c) PROVE TypeOK'
  BY <1>5, ReadType, Zenon
<1>6. ASSUME NEW r \in Records, HelperDone(r) PROVE TypeOK'
  BY <1>6, DoneType, Zenon
<1>7. ASSUME NEW c \in Conns, ServeRequest(c) PROVE TypeOK'
  BY <1>7, ServeType, Zenon
<1>8. ASSUME NEW k \in Kinds, ParkStartWaiting(k) PROVE TypeOK'
  BY <1>8, WaitingType, Zenon
<1>9. CASE EndBatch
  <2>1. conn' \in [Conns -> Conn]
    BY <1>9, ConnType, Zenon DEF EndBatch, TypeOK
  <2> QED
    BY <1>9, <2>1, Zenon DEF EndBatch, TypeOK
<1>10. ASSUME NEW c \in Conns, Accept(c) PROVE TypeOK'
  BY <1>10, AcceptType, Zenon
<1>11. ASSUME NEW job \in DaemonJobs, DaemonJob(job) PROVE TypeOK'
  <2>1. job \in Jobs
    BY JobsAreJobs, Zenon
  <2>2. PICK x \in Record : x = ParkNew(job, NULL)
    BY <2>1, ParkNewType, Zenon
  <2>3. PICK r \in Records : SubmitStarts(r, x) \/ SubmitQueues(r, x)
    BY <1>11, <2>2, Zenon DEF DaemonJob
  <2>4. sweep_pending' \in BOOLEAN
    BY <1>11, Zenon DEF DaemonJob
  <2> QED
    BY <1>11, <2>3, <2>4, SubmitType, Zenon DEF DaemonJob, TypeOK
<1>12. ASSUME NEW r \in Records, HelperExits(r) PROVE TypeOK'
  <2>1. helper' \in [Records -> {"none", "working", "killed", "ok", "failed"}]
    BY <1>12, Zenon DEF HelperExits, TypeOK
  <2> QED
    BY <1>12, <2>1, Zenon DEF HelperExits, TypeOK
<1> QED
  BY <1>1, <1>2, <1>3, <1>4, <1>5, <1>6, <1>7, <1>8, <1>9, <1>10, <1>11, <1>12, Zenon
  DEF Next, Event, Handler

-----------------------------------------------------------------------------
(* What is true of the connections                                         *)

\* Steps that leave connections and records alone.
LEMMA ConnsQuiet ==
    ASSUME ConnsInv, UNCHANGED <<conn, rec, pending>>, todo'.serve = todo.serve,
           batch' \subseteq batch,
           \A r \in Records : helper[r] \in {"ok", "failed"} => helper'[r] = helper[r]
    PROVE  ConnsInv'
<1>1. ResultsReachTheirRequest'
  BY ZenonT(60) DEF ConnsInv, ResultsReachTheirRequest
<1>2. ServedIsOpen'
  BY Zenon DEF ConnsInv, ServedIsOpen
<1>3. LoopIsCurrent'
  <2>1. \A r \in Records \cap batch' : helper'[r] \in {"ok", "failed"}
    BY Zenon DEF ConnsInv, LoopIsCurrent
  <2>2. \A c \in pending' : conn'[c].kind = "dead"
    BY Zenon DEF ConnsInv, LoopIsCurrent
  <2> QED
    BY <2>1, <2>2, Zenon DEF LoopIsCurrent
<1> QED
  BY <1>1, <1>2, <1>3, Zenon DEF ConnsInv

\* A connection that is not parked is answered.
LEMMA ConnsFinish ==
    ASSUME TypeOK, ConnsInv, NEW c \in Conns, NEW v \in Conn,
           conn' = [conn EXCEPT ![c] = v],
           conn[c].kind = "client", conn[c].park = NULL, v.park = NULL,
           pending' = pending \/ (v.kind = "dead" /\ pending' = pending \cup {c}),
           UNCHANGED <<rec, helper>>, todo'.serve = NULL, batch' \subseteq batch
    PROVE  ConnsInv'
<1>1. conn'[c] = v /\ \A d \in Conns : d # c => conn'[d] = conn[d]
  BY Zenon DEF TypeOK
<1>2. \A d \in Conns : conn'[d].park # NULL => d # c
  BY <1>1, Zenon
<1>3. \A r \in Records : r # NULL
  BY AddressAssumption, Zenon
<1>4. ResultsReachTheirRequest'
  <2> SUFFICES ASSUME NEW d \in Conns, NEW r \in Records
               PROVE  /\ conn'[d].park = r => rec'[r].live /\ rec'[r].cc = d /\ conn'[d].kind = "client"
                      /\ rec'[r].cc = d => rec'[r].live /\ conn'[d].park = r /\ conn'[d].req = rec'[r].req
    BY Zenon DEF ResultsReachTheirRequest
  <2>0. /\ conn[d].park = r => rec[r].live /\ rec[r].cc = d /\ conn[d].kind = "client"
        /\ rec[r].cc = d => rec[r].live /\ conn[d].park = r /\ conn[d].req = rec[r].req
        /\ rec' = rec
    BY ZenonT(60) DEF ConnsInv, ResultsReachTheirRequest
  <2>1. CASE d = c
    BY <1>1, <1>3, <2>0, <2>1
  <2>2. CASE d # c
    BY <1>1, <2>0, <2>2
  <2> QED
    BY <2>1, <2>2, Zenon
<1>5. ServedIsOpen'
  BY <1>1, <1>2, Zenon DEF ConnsInv, ServedIsOpen
<1>6. LoopIsCurrent'
  <2>1. \A d \in pending : conn[d].kind = "dead" /\ d # c /\ d \in Conns
    BY Zenon DEF ConnsInv, LoopIsCurrent, TypeOK
  <2>2. \A d \in pending' : conn'[d].kind = "dead"
    BY <1>1, <2>1, Zenon
  <2>3. \A r \in Records \cap batch' : helper'[r] \in {"ok", "failed"}
    BY Zenon DEF ConnsInv, LoopIsCurrent
  <2> QED
    BY <2>2, <2>3, Zenon DEF LoopIsCurrent
<1> QED
  BY <1>4, <1>5, <1>6, Zenon DEF ConnsInv

\* A connection and its record let go of each other.
LEMMA ReachEnds ==
    ASSUME TypeOK, ResultsReachTheirRequest,
           NEW c \in Conns, NEW v \in Conn, NEW r \in Records, NEW x \in Record,
           conn[c].park = r, v.park = NULL, x.cc = NULL,
           conn' = [conn EXCEPT ![c] = v], rec' = [rec EXCEPT ![r] = x]
    PROVE  ResultsReachTheirRequest'
<1>1. conn'[c] = v /\ \A d \in Conns : d # c => conn'[d] = conn[d]
  BY Zenon DEF TypeOK
<1>2. rec'[r] = x /\ \A s \in Records : s # r => rec'[s] = rec[s]
  BY Zenon DEF TypeOK
<1>3. c # NULL /\ r # NULL
  BY AddressAssumption, Zenon
<1> SUFFICES ASSUME NEW d \in Conns, NEW s \in Records
             PROVE  /\ conn'[d].park = s => rec'[s].live /\ rec'[s].cc = d /\ conn'[d].kind = "client"
                    /\ rec'[s].cc = d => rec'[s].live /\ conn'[d].park = s /\ conn'[d].req = rec'[s].req
  BY Zenon DEF ResultsReachTheirRequest
<1>4. /\ conn[d].park = s => rec[s].live /\ rec[s].cc = d /\ conn[d].kind = "client"
      /\ rec[s].cc = d => rec[s].live /\ conn[d].park = s /\ conn[d].req = rec[s].req
  BY ZenonT(60) DEF ResultsReachTheirRequest
<1>5. rec[r].cc = c
  BY Zenon DEF ResultsReachTheirRequest
<1>6. d # NULL /\ s # NULL
  BY AddressAssumption, Zenon
<1>7. CASE d = c /\ s = r
  BY <1>1, <1>2, <1>6, <1>7, Zenon
<1>8. CASE d = c /\ s # r
  BY <1>1, <1>2, <1>4, <1>6, <1>8, Zenon
<1>9. CASE d # c /\ s = r
  BY <1>1, <1>2, <1>4, <1>5, <1>6, <1>9, Zenon
<1>10. CASE d # c /\ s # r
  BY <1>1, <1>2, <1>4, <1>10
<1> QED
  BY <1>7, <1>8, <1>9, <1>10, Zenon

\* A connection is parked behind a new record.
LEMMA ReachBegins ==
    ASSUME TypeOK, ResultsReachTheirRequest,
           NEW c \in Conns, NEW v \in Conn, NEW r \in Records, NEW x \in Record,
           conn[c].park = NULL, ~rec[r].live,
           v.park = r, v.kind = "client", x.cc = c, x.live, v.req = x.req,
           conn' = [conn EXCEPT ![c] = v], rec' = [rec EXCEPT ![r] = x]
    PROVE  ResultsReachTheirRequest'
<1>1. conn'[c] = v /\ \A d \in Conns : d # c => conn'[d] = conn[d]
  BY Zenon DEF TypeOK
<1>2. rec'[r] = x /\ \A s \in Records : s # r => rec'[s] = rec[s]
  BY Zenon DEF TypeOK
<1>3. c # NULL /\ r # NULL
  BY AddressAssumption, Zenon
<1> SUFFICES ASSUME NEW d \in Conns, NEW s \in Records
             PROVE  /\ conn'[d].park = s => rec'[s].live /\ rec'[s].cc = d /\ conn'[d].kind = "client"
                    /\ rec'[s].cc = d => rec'[s].live /\ conn'[d].park = s /\ conn'[d].req = rec'[s].req
  BY Zenon DEF ResultsReachTheirRequest
<1>4. /\ conn[d].park = s => rec[s].live /\ rec[s].cc = d /\ conn[d].kind = "client"
      /\ rec[s].cc = d => rec[s].live /\ conn[d].park = s /\ conn[d].req = rec[s].req
  BY DEF ResultsReachTheirRequest
<1>6. d # NULL /\ s # NULL
  BY AddressAssumption, Zenon
<1>7. CASE d = c /\ s = r
  BY <1>1, <1>2, <1>7, ZenonT(60)
<1>8. CASE d = c /\ s # r
  BY <1>1, <1>2, <1>4, <1>6, <1>8, ZenonT(60)
<1>9. CASE d # c /\ s = r
  BY <1>1, <1>2, <1>4, <1>9, ZenonT(60)
<1>10. CASE d # c /\ s # r
  BY <1>1, <1>2, <1>4, <1>10
<1> QED
  BY <1>7, <1>8, <1>9, <1>10, Zenon

\* A record changes that nobody waits for, or that goes on as it was.
LEMMA ReachSame ==
    ASSUME TypeOK, ResultsReachTheirRequest,
           NEW r \in Records, NEW x \in Record,
           conn' = conn, rec' = [rec EXCEPT ![r] = x],
           \/ x.cc = NULL /\ (rec[r].cc = NULL \/ ~rec[r].live)
           \/ x.cc = rec[r].cc /\ x.live = rec[r].live /\ x.req = rec[r].req
    PROVE  ResultsReachTheirRequest'
<1>2. rec'[r] = x /\ \A s \in Records : s # r => rec'[s] = rec[s]
  BY Zenon DEF TypeOK
<1> SUFFICES ASSUME NEW d \in Conns, NEW s \in Records
             PROVE  /\ conn[d].park = s => rec'[s].live /\ rec'[s].cc = d /\ conn[d].kind = "client"
                    /\ rec'[s].cc = d => rec'[s].live /\ conn[d].park = s /\ conn[d].req = rec'[s].req
  BY DEF ResultsReachTheirRequest
<1>4. /\ conn[d].park = s => rec[s].live /\ rec[s].cc = d /\ conn[d].kind = "client"
      /\ rec[s].cc = d => rec[s].live /\ conn[d].park = s /\ conn[d].req = rec[s].req
  BY Zenon DEF ResultsReachTheirRequest
<1>6. d # NULL
  BY AddressAssumption, Zenon
<1>7. CASE s # r
  BY <1>2, <1>4, <1>7
<1>8. CASE s = r /\ x.cc = NULL /\ (rec[r].cc = NULL \/ ~rec[r].live)
  BY <1>2, <1>4, <1>6, <1>8, Zenon
<1>9. CASE s = r /\ x.cc = rec[r].cc /\ x.live = rec[r].live /\ x.req = rec[r].req
  BY <1>2, <1>4, <1>9
<1> QED
  BY <1>7, <1>8, <1>9, Zenon

\* A served connection, or a parked one, is still as a request needs it.
LEMMA ServedSame ==
    ASSUME TypeOK, ServedIsOpen, NEW c \in Conns, NEW v \in Conn, conn' = [conn EXCEPT ![c] = v],
           todo'.serve = NULL \/ (todo'.serve = c /\ v.kind = "client" /\ v.park = NULL /\ ~v.out),
           v.park # NULL => ~v.out
    PROVE  ServedIsOpen'
<1>1. conn'[c] = v /\ \A d \in Conns : d # c => conn'[d] = conn[d]
  BY Zenon DEF TypeOK
<1>2. \A d \in Conns : conn'[d].park # NULL => ~conn'[d].out
  BY <1>1, Zenon DEF ServedIsOpen
<1>3. todo'.serve # NULL => /\ conn'[todo'.serve].kind = "client"
                           /\ conn'[todo'.serve].park = NULL
                           /\ ~conn'[todo'.serve].out
  BY <1>1, Zenon
<1> QED
  BY <1>2, <1>3, Zenon DEF ServedIsOpen

\* client_conn_teardown() of a parked connection.
LEMMA ConnsTeardown ==
    ASSUME TypeOK, ConnsInv, NEW c \in Conns, ClientConnTeardown(c), conn[c].kind = "client",
           Idle, batch' \subseteq batch
    PROVE  ConnsInv'
<1>1. PICK v \in Conn :
        /\ conn' = [conn EXCEPT ![c] = v] /\ v.park = NULL
        /\ pending' = pending \/ (v.kind = "dead" /\ pending' = pending \cup {c})
  <2>1. conn \in [Conns -> Conn] /\ QueueConnFree(c, conn)
    BY Zenon DEF TypeOK, ClientConnTeardown
  <2>2. PICK conns \in [Conns -> Conn] : conns = conn
    BY <2>1, Zenon
  <2>3. QueueConnFree(c, conns)
    BY <2>1, <2>2, Zenon
  <2>4. PICK v \in Conn :
            /\ conn' = [conns EXCEPT ![c] = v]
            /\ v.kind \in {"none", "dead"} /\ v.park = NULL /\ v.req = 0
            /\ \/ v.kind = "dead" /\ pending' = pending \cup {c}
               \/ ~(Cardinality(pending) < MAX_EVENTS) /\ pending' = pending
    BY <2>3, QueueConnFreeShape, Zenon
  <2>5. conn' = [conn EXCEPT ![c] = v]
    BY <2>2, <2>4, Zenon
  <2> QED
    BY <2>4, <2>5, Zenon
<1>2. todo' = todo /\ todo'.serve = NULL
  BY Zenon DEF ClientConnTeardown, Idle
<1>3. CASE conn[c].park = NULL
  <2>1. UNCHANGED <<rec, helper>>
    BY <1>3, Zenon DEF ClientConnTeardown
  <2> QED
    BY <1>1, <1>2, <1>3, <2>1, ConnsFinish, Zenon
<1>4. CASE conn[c].park # NULL
  <2>1. PICK r \in Records : r = conn[c].park
    BY <1>4 DEF TypeOK, Conn
  <2>2. ParkAbandon(r)
    BY <1>4, <2>1, Zenon DEF ClientConnTeardown
  <2>3. PICK x \in Record : rec' = [rec EXCEPT ![r] = x] /\ x.cc = NULL
    BY <2>2, ParkAbandonShape, Zenon
  <2>4. ResultsReachTheirRequest'
    BY <1>1, <2>1, <2>3, ReachEnds, Zenon DEF ConnsInv
  <2>5. ServedIsOpen'
    BY <1>1, <1>2, ServedSame, Zenon DEF ConnsInv
  <2>6. LoopIsCurrent'
    <3>1. \A s \in Records : helper'[s] = helper[s] \/ (helper[s] = "working" /\ helper'[s] = "killed")
      BY <2>2, ParkAbandonShape, Zenon
    <3>2. \A s \in Records \cap batch' : helper[s] \in {"ok", "failed"}
      BY Zenon DEF ConnsInv, LoopIsCurrent
    <3>3. \A s \in Records \cap batch' : helper'[s] \in {"ok", "failed"}
      BY <3>1, <3>2
    <3>4. \A d \in pending : conn[d].kind = "dead" /\ d # c /\ d \in Conns
      BY Zenon DEF ConnsInv, LoopIsCurrent, TypeOK
    <3>5. conn'[c] = v /\ \A d \in Conns : d # c => conn'[d] = conn[d]
      BY <1>1, Zenon DEF TypeOK
    <3>6. \A d \in pending' : conn'[d].kind = "dead"
      BY <1>1, <3>4, <3>5, Zenon
    <3> QED
      BY <3>3, <3>6, Zenon DEF LoopIsCurrent
  <2> QED
    BY <2>4, <2>5, <2>6, Zenon DEF ConnsInv
<1> QED
  BY <1>3, <1>4, Zenon

\* A record goes and its connection, if it has one, is served again: with a
\* result, or without one.
LEMMA ConnsRelease ==
    ASSUME TypeOK, ConnsInv, NEW r \in Records, NEW c \in Conns \cup {NULL}, rec[r].cc = c,
           rec' = [rec EXCEPT ![r] = Freed], pending' = pending, todo'.serve = c,
           IF c = NULL THEN conn' = conn
           ELSE \E v \in Conn : /\ conn' = [conn EXCEPT ![c] = v]
                                /\ v.kind = conn[c].kind /\ v.park = NULL /\ v.out = conn[c].out,
           \A s \in Records \cap batch' : helper'[s] \in {"ok", "failed"}
    PROVE  ConnsInv'
<1>1. Freed.cc = NULL /\ Freed \in Record
  BY FreedType DEF Freed
<1>2. CASE c = NULL
  <2>1. ResultsReachTheirRequest'
    BY <1>1, <1>2, ReachSame, Zenon DEF ConnsInv
  <2>2. ServedIsOpen'
    BY <1>2, Zenon DEF ConnsInv, ServedIsOpen
  <2>3. LoopIsCurrent'
    BY <1>2, Zenon DEF ConnsInv, LoopIsCurrent
  <2> QED
    BY <2>1, <2>2, <2>3, Zenon DEF ConnsInv
<1>3. CASE c # NULL
  <2>1. c \in Conns
    BY <1>3, Zenon
  <2>2. PICK v \in Conn : /\ conn' = [conn EXCEPT ![c] = v]
                         /\ v.kind = conn[c].kind /\ v.park = NULL /\ v.out = conn[c].out
    BY <1>3, Zenon
  <2>3. conn[c].park = r /\ conn[c].kind = "client"
    BY <2>1 DEF ConnsInv, ResultsReachTheirRequest
  <2>4. ~conn[c].out
    BY <2>1, <2>3, AddressAssumption, Zenon DEF ConnsInv, ServedIsOpen
  <2>5. ResultsReachTheirRequest'
    BY <1>1, <2>1, <2>2, <2>3, ReachEnds, Zenon DEF ConnsInv
  <2>6. ServedIsOpen'
    BY <2>1, <2>2, <2>3, <2>4, ServedSame, Zenon DEF ConnsInv
  <2>7. LoopIsCurrent'
    <3>1. \A d \in pending : conn[d].kind = "dead" /\ d # c /\ d \in Conns
      BY <2>3 DEF ConnsInv, LoopIsCurrent, TypeOK
    <3>2. \A d \in pending : conn'[d] = conn[d]
      BY <2>1, <2>2, <3>1, Zenon DEF TypeOK
    <3> QED
      BY <3>1, <3>2, Zenon DEF LoopIsCurrent
  <2> QED
    BY <2>5, <2>6, <2>7, Zenon DEF ConnsInv
<1> QED
  BY <1>2, <1>3, Zenon

\* serve_request() parks the connection behind a new record.
LEMMA ConnsPark ==
    ASSUME TypeOK, ConnsInv, RecordsInv, NEW c \in Conns, NEW r \in Records, NEW x \in Record,
           todo.serve = c, todo'.serve = NULL, x.live, x.cc = c, x.req = conn[c].req,
           SubmitStarts(r, x) \/ SubmitQueues(r, x),
           conn' = [conn EXCEPT ![c].park = r], UNCHANGED <<pending, batch>>
    PROVE  ConnsInv'
<1>1. conn[c].kind = "client" /\ conn[c].park = NULL /\ ~conn[c].out
  BY AddressAssumption, Zenon DEF ConnsInv, ServedIsOpen
<1>2. PICK v \in Conn :
        /\ conn' = [conn EXCEPT ![c] = v]
        /\ v.park = r /\ v.kind = "client" /\ ~v.out /\ v.req = conn[c].req
  <2> DEFINE v == [conn[c] EXCEPT !.park = r]
  <2>1. conn[c] \in Conn
    BY Zenon DEF TypeOK
  <2>2. v \in Conn
    BY <2>1, ConnUpdates, Zenon
  <2>3. v.park = r /\ v.kind = conn[c].kind /\ v.out = conn[c].out /\ v.req = conn[c].req
    BY <2>1 DEF Conn
  <2>4. conn' = [conn EXCEPT ![c] = v]
    BY Zenon
  <2> HIDE DEF v
  <2> QED
    BY <1>1, <2>2, <2>3, <2>4, Zenon
<1>3. ~rec[r].live /\ helper[r] = "none"
  BY Zenon DEF SubmitStarts, SubmitQueues, Unused, RecordsInv, HelpersKeepRecords
<1>4. PICK y \in Record :
        /\ rec' = [rec EXCEPT ![r] = y]
        /\ y.live = x.live /\ y.cc = x.cc /\ y.req = x.req
  BY Started, ZenonT(60) DEF SubmitStarts, SubmitQueues, ParkStart
<1>5. ResultsReachTheirRequest'
  <2>1. y.cc = c /\ y.live /\ v.req = y.req
    BY <1>2, <1>4, Zenon
  <2>2. ResultsReachTheirRequest
    BY Zenon DEF ConnsInv
  <2> QED
    BY <1>1, <1>2, <1>3, <1>4, <2>1, <2>2, ReachBegins, Zenon
<1>6. ServedIsOpen'
  BY <1>2, ServedSame, Zenon DEF ConnsInv
<1>7. LoopIsCurrent'
  <2>1. \A s \in Records : s # r => helper'[s] = helper[s]
    BY Zenon DEF SubmitStarts, SubmitQueues, ParkStart, TypeOK
  <2>2. \A s \in Records \cap batch : s # r /\ helper[s] \in {"ok", "failed"}
    BY <1>3 DEF ConnsInv, LoopIsCurrent
  <2>3. \A d \in pending : conn[d].kind = "dead" /\ d # c /\ d \in Conns
    BY <1>1 DEF ConnsInv, LoopIsCurrent, TypeOK
  <2>4. \A d \in pending : conn'[d] = conn[d]
    BY <1>2, <2>3, Zenon DEF TypeOK
  <2> QED
    BY <2>1, <2>2, <2>3, <2>4, Zenon DEF LoopIsCurrent
<1> QED
  BY <1>5, <1>6, <1>7, Zenon DEF ConnsInv

\* A record that no connection waits for is made, or one that waits is started.
LEMMA ConnsRecord ==
    ASSUME TypeOK, ConnsInv, RecordsInv, NEW r \in Records, NEW x \in Record,
           rec' = [rec EXCEPT ![r] = x], helper[r] = "none",
           \/ x.cc = NULL /\ ~rec[r].live
           \/ x.cc = rec[r].cc /\ x.live = rec[r].live /\ x.req = rec[r].req,
           \A s \in Records : s # r => helper'[s] = helper[s],
           UNCHANGED <<conn, pending, batch, todo>>
    PROVE  ConnsInv'
<1>1. ResultsReachTheirRequest'
  BY ReachSame, Zenon DEF ConnsInv
<1>2. ServedIsOpen'
  BY Zenon DEF ConnsInv, ServedIsOpen
<1>3. LoopIsCurrent'
  <2>1. \A s \in Records \cap batch : s # r /\ helper[s] \in {"ok", "failed"}
    BY DEF ConnsInv, LoopIsCurrent
  <2> QED
    BY <2>1, Zenon DEF ConnsInv, LoopIsCurrent
<1> QED
  BY <1>1, <1>2, <1>3, Zenon DEF ConnsInv

LEMMA ConnsDone ==
    ASSUME TypeOK, ConnsInv, NEW r \in Records, HelperDone(r)
    PROVE  ConnsInv'
<1>1. PICK c \in Conns \cup {NULL}, job \in Jobs :
        /\ rec[r].cc = c /\ rec[r].job = job
        /\ IF c = NULL THEN conn' = conn
           ELSE \E v \in Conn : conn' = [conn EXCEPT ![c] = v] /\ Released(v, conn[c], job)
  BY DoneShape, Zenon
<1>2. IF c = NULL THEN conn' = conn
      ELSE \E v \in Conn : /\ conn' = [conn EXCEPT ![c] = v]
                           /\ v.kind = conn[c].kind /\ v.park = NULL /\ v.out = conn[c].out
  BY <1>1, Zenon DEF Released
<1>3. rec' = [rec EXCEPT ![r] = Freed] /\ pending' = pending
  BY Zenon DEF HelperDone
<1>4. todo'.serve = c
  BY <1>1 DEF HelperDone, CallbackEnds
<1>5. \A s \in Records \cap batch' : helper'[s] \in {"ok", "failed"}
  <2>1. batch' = batch \ {r} /\ helper' = [helper EXCEPT ![r] = "none"]
    BY Zenon DEF HelperDone, Take
  <2>2. \A s \in Records : s # r => helper'[s] = helper[s]
    BY <2>1, Zenon DEF TypeOK
  <2>3. \A s \in Records \cap batch : helper[s] \in {"ok", "failed"}
    BY DEF ConnsInv, LoopIsCurrent
  <2> QED
    BY <2>1, <2>2, <2>3
<1> QED
  BY <1>1, <1>2, <1>3, <1>4, <1>5, ConnsRelease, Zenon

LEMMA ConnsWaiting ==
    ASSUME TypeOK, ConnsInv, RecordsInv, NEW kind \in Kinds, ParkStartWaiting(kind)
    PROVE  ConnsInv'
<1>0. UNCHANGED <<batch, pending>>
  BY Zenon DEF ParkStartWaiting
<1>1. CASE WaitingEnds(kind)
  <2>1. todo'.serve = todo.serve
    BY <1>1 DEF WaitingEnds, TypeOK
  <2>2. UNCHANGED <<conn, rec, pending, helper>> /\ batch' \subseteq batch
    BY <1>0, <1>1, Zenon DEF WaitingEnds
  <2> QED
    BY <2>1, <2>2, ConnsQuiet, Zenon
<1>2. ASSUME NEW r \in Records, NEW x \in Record, queue[kind] # <<>>, r = Head(queue[kind]),
             x = rec[r], WaitingStarts(kind, r, x)
      PROVE  ConnsInv'
  <2>1. helper[r] = "none"
    BY <1>2, HeadWaits, Zenon DEF Waits, RecordsInv, HelpersKeepRecords
  <2>2. PICK y \in Record : /\ y = [x EXCEPT !.running = TRUE]
                            /\ y.live = x.live /\ y.cc = x.cc /\ y.req = x.req
    BY Started, Zenon
  <2>3. /\ rec' = [rec EXCEPT ![r] = y] /\ helper' = [helper EXCEPT ![r] = "working"]
        /\ UNCHANGED <<conn, todo>>
    BY <1>2, <2>2, Zenon DEF WaitingStarts, ParkStart
  <2>4. \A s \in Records : s # r => helper'[s] = helper[s]
    BY <2>3, Zenon DEF TypeOK
  <2>5. y.cc = rec[r].cc /\ y.live = rec[r].live /\ y.req = rec[r].req
    BY <1>2, <2>2, Zenon
  <2> QED
    BY <1>0, <2>1, <2>3, <2>4, <2>5, ConnsRecord, Zenon
<1>3. ASSUME NEW r \in Records, NEW x \in Record, x = rec[r], WaitingFails(kind, r, x)
      PROVE  ConnsInv'
  <2>1. PICK c \in Conns \cup {NULL}, job \in Jobs :
            /\ x.cc = c /\ x.job = job
            /\ IF c = NULL THEN conn' = conn
               ELSE \E v \in Conn : conn' = [conn EXCEPT ![c] = v] /\ Released(v, conn[c], job)
    BY <1>3, FailsShape, Zenon
  <2>2. IF c = NULL THEN conn' = conn
        ELSE \E v \in Conn : /\ conn' = [conn EXCEPT ![c] = v]
                             /\ v.kind = conn[c].kind /\ v.park = NULL /\ v.out = conn[c].out
    BY <2>1, Zenon DEF Released
  <2>3. rec' = [rec EXCEPT ![r] = Freed] /\ helper' = helper /\ rec[r].cc = c
    BY <1>3, <2>1, Zenon DEF WaitingFails
  <2>4. todo'.serve = c
    BY <1>3, <2>1 DEF WaitingFails, TypeOK
  <2>5. \A s \in Records \cap batch' : helper'[s] \in {"ok", "failed"}
    BY <1>0, <2>3, Zenon DEF ConnsInv, LoopIsCurrent
  <2> QED
    BY <1>0, <2>2, <2>3, <2>4, <2>5, ConnsRelease, Zenon
<1> QED
  BY <1>1, <1>2, <1>3, WaitingOutcomes, Zenon

LEMMA ConnsAnswer ==
    ASSUME TypeOK, ConnsInv, NEW c \in Conns, NEW v, AnswerShape(c, v),
           conn[c].kind = "client", conn[c].park = NULL, UNCHANGED <<rec, helper>>,
           todo'.serve = NULL, batch' \subseteq batch
    PROVE  ConnsInv'
<1>1. v \in Conn /\ conn' = [conn EXCEPT ![c] = v] /\ v.park = NULL
  BY Zenon DEF AnswerShape
<1>2. pending' = pending \/ (v.kind = "dead" /\ pending' = pending \cup {c})
  BY Zenon DEF AnswerShape
<1> QED
  BY <1>1, <1>2, ConnsFinish, Zenon

LEMMA ConnsServe ==
    ASSUME TypeOK, ConnsInv, RecordsInv, NEW c \in Conns, ServeRequest(c)
    PROVE  ConnsInv'
<1>1. todo.serve = c /\ todo'.serve = NULL
  BY DEF ServeRequest, TypeOK
<1>2. conn[c].kind = "client" /\ conn[c].park = NULL
  BY <1>1, AddressAssumption, Zenon DEF ConnsInv, ServedIsOpen
<1>3. batch' = batch
  BY Zenon DEF ServeRequest
<1>4. CASE Answer(c) /\ UNCHANGED <<rec, queue, running, helper, forks>>
  <2>1. PICK v : AnswerShape(c, v)
    BY <1>4, AnswerIsAnswer, Zenon
  <2>2. batch' \subseteq batch /\ UNCHANGED <<rec, helper>>
    BY <1>3, <1>4, Zenon
  <2> QED
    BY <1>1, <1>2, <2>1, <2>2, ConnsAnswer, Zenon
<1>5. ASSUME NextJob(c) # "none", NEW r \in Records,
             SubmitStarts(r, ParkNew(NextJob(c), c)) \/ SubmitQueues(r, ParkNew(NextJob(c), c)),
             conn' = [conn EXCEPT ![c].park = r], pending' = pending
      PROVE  ConnsInv'
  <2>1. PICK job \in Jobs : job = NextJob(c)
    BY <1>5, NextJobType, Zenon
  <2>2. c \in Conns \cup {NULL}
    BY Zenon
  <2>3. c # NULL
    BY AddressAssumption, Zenon
  <2>4. PICK x \in Record : x = ParkNew(job, c) /\ x.live /\ x.cc = c /\ x.req = conn[c].req
    <3>1. ParkNew(job, c) \in Record /\ ParkNew(job, c).live /\ ParkNew(job, c).cc = c
      BY <2>2, ParkNewType, ZenonT(60)
    <3>2. ParkNew(job, c).req = conn[c].req
      BY <2>3 DEF ParkNew
    <3> QED
      BY <3>1, <3>2, Zenon
  <2>5. SubmitStarts(r, x) \/ SubmitQueues(r, x)
    BY <1>5, <2>1, <2>4, Zenon
  <2> QED
    BY <1>1, <1>3, <1>5, <2>4, <2>5, ConnsPark, Zenon
<1> QED
  BY <1>4, <1>5, Zenon DEF ServeRequest

LEMMA ConnsRead ==
    ASSUME TypeOK, ConnsInv, NEW c \in Conns, ReadRequest(c)
    PROVE  ConnsInv'
<1>1. /\ conn[c].kind = "client" /\ conn[c].park = NULL /\ ~conn[c].out
      /\ todo.serve = NULL /\ Idle /\ batch' \subseteq batch
  BY Zenon DEF ReadRequest, Take, Idle
<1>2. CASE Nothing
  <2>1. UNCHANGED <<conn, rec, pending>> /\ todo' = todo /\ helper' = helper
    BY <1>2, Zenon DEF Nothing
  <2> QED
    BY <1>1, <2>1, ConnsQuiet, Zenon
<1>3. CASE ClientConnTeardown(c)
  BY <1>1, <1>3, ConnsTeardown, Zenon
<1>4. CASE ClientConnFinish(c, conn) /\ UNCHANGED <<rec, helper, todo>>
  <2>1. PICK v : AnswerShape(c, v)
    BY <1>4, FinishIsAnswer, Zenon
  <2>2. todo'.serve = NULL
    BY <1>1, <1>4, Zenon
  <2> QED
    BY <1>1, <1>4, <2>1, <2>2, ConnsAnswer, Zenon
<1>5. CASE todo' = [todo EXCEPT !.serve = c] /\ UNCHANGED <<conn, rec, helper, pending>>
  <2>1. todo'.serve = c
    BY <1>5 DEF TypeOK
  <2>2. ResultsReachTheirRequest'
    BY <1>5, ZenonT(60) DEF ConnsInv, ResultsReachTheirRequest
  <2>3. ServedIsOpen'
    BY <1>1, <1>5, <2>1, Zenon DEF ConnsInv, ServedIsOpen
  <2>4. LoopIsCurrent'
    BY <1>1, <1>5, Zenon DEF ConnsInv, LoopIsCurrent
  <2> QED
    BY <2>2, <2>3, <2>4, Zenon DEF ConnsInv
<1> QED
  BY <1>2, <1>3, <1>4, <1>5, Zenon DEF ReadRequest

LEMMA ConnsPoll ==
    ASSUME TypeOK, ConnsInv, Poll
    PROVE  ConnsInv'
<1>1. UNCHANGED <<conn, rec, helper, pending, todo>>
  BY Zenon DEF Poll
<1>2. ResultsReachTheirRequest' /\ ServedIsOpen'
  BY <1>1, ZenonT(60) DEF ConnsInv, ResultsReachTheirRequest, ServedIsOpen
<1>3. \A r \in Records \cap batch' : helper[r] \in {"ok", "failed"}
  <2>1. batch' \subseteq Exited \cup {c \in Conns : conn[c].kind = "client"}
    BY Zenon DEF Poll
  <2> QED
    BY <2>1, AddressAssumption DEF Exited
<1>4. LoopIsCurrent'
  BY <1>1, <1>3, Zenon DEF ConnsInv, LoopIsCurrent
<1> QED
  BY <1>2, <1>4, Zenon DEF ConnsInv

LEMMA ConnsAccept ==
    ASSUME TypeOK, ConnsInv, NEW c \in Conns, Accept(c)
    PROVE  ConnsInv'
<1>1. UNCHANGED <<rec, helper, pending, batch, todo>> /\ conn[c].kind = "none" /\ todo.serve = NULL
  BY Zenon DEF Accept, Idle
<1>2. PICK v \in Conn :
        conn' = [conn EXCEPT ![c] = v] /\ v.kind = "client" /\ v.park = NULL /\ ~v.out
  BY AcceptShape, Zenon
<1>3. conn'[c] = v /\ \A d \in Conns : d # c => conn'[d] = conn[d]
  BY <1>2, Zenon DEF TypeOK
<1>4. \A r \in Records : rec[r].cc # c
  BY <1>1 DEF ConnsInv, ResultsReachTheirRequest
<1>5. ResultsReachTheirRequest'
  <2>1. \A r \in Records : conn'[c].park # r
    BY <1>2, <1>3, AddressAssumption, Zenon
  <2> SUFFICES ASSUME NEW d \in Conns, NEW r \in Records
               PROVE  /\ conn'[d].park = r =>
                            rec[r].live /\ rec[r].cc = d /\ conn'[d].kind = "client"
                      /\ rec[r].cc = d =>
                            rec[r].live /\ conn'[d].park = r /\ conn'[d].req = rec[r].req
    BY <1>1 DEF ResultsReachTheirRequest
  <2>2. CASE d = c
    BY <1>4, <2>1, <2>2, Zenon
  <2>3. CASE d # c
    <3>1. conn'[d] = conn[d]
      BY <1>3, <2>3, Zenon
    <3>2. /\ conn[d].park = r => rec[r].live /\ rec[r].cc = d /\ conn[d].kind = "client"
          /\ rec[r].cc = d => rec[r].live /\ conn[d].park = r /\ conn[d].req = rec[r].req
      BY ZenonT(60) DEF ConnsInv, ResultsReachTheirRequest
    <3> QED
      BY <3>1, <3>2, Zenon
  <2> QED
    BY <2>2, <2>3, Zenon
<1>6. ServedIsOpen'
  BY <1>1, <1>2, ServedSame, Zenon DEF ConnsInv
<1>7. LoopIsCurrent'
  <2>1. \A d \in pending : d # c /\ d \in Conns
    BY <1>1 DEF ConnsInv, LoopIsCurrent, TypeOK
  <2> QED
    BY <1>1, <1>3, <2>1, Zenon DEF ConnsInv, LoopIsCurrent
<1> QED
  BY <1>5, <1>6, <1>7, Zenon DEF ConnsInv

LEMMA ConnsEndBatch ==
    ASSUME TypeOK, ConnsInv, EndBatch
    PROVE  ConnsInv'
<1>1. /\ UNCHANGED <<rec, helper, batch, todo>> /\ pending' = {} /\ todo.serve = NULL
  BY Zenon DEF EndBatch, Idle
<1>2. PICK stuck \in SUBSET {c \in Conns : conn[c].kind = "client" /\ conn[c].out} :
        conn' = [c \in Conns |-> IF c \in stuck \cup pending THEN NoConn ELSE conn[c]]
  BY Zenon DEF EndBatch
<1>3. \A c \in Conns : \/ conn'[c] = conn[c]
                       \/ conn[c].park = NULL /\ conn'[c] = NoConn
  <2> SUFFICES ASSUME NEW c \in Conns, c \in stuck \cup pending
               PROVE  conn[c].park = NULL
    BY <1>2, Zenon
  <2>1. CASE c \in stuck
    BY <2>1, Zenon DEF ConnsInv, ServedIsOpen
  <2>2. CASE c \in pending
    <3>1. conn[c].kind = "dead" /\ conn[c].park \in Records \cup {NULL}
      BY <2>2 DEF ConnsInv, LoopIsCurrent, TypeOK, Conn
    <3>2. conn[c].kind # "client"
      BY <3>1
    <3> QED
      BY <3>1, <3>2, Zenon DEF ConnsInv, ResultsReachTheirRequest
  <2> QED
    BY <2>1, <2>2, Zenon
<1>4. ResultsReachTheirRequest'
  <2> SUFFICES ASSUME NEW d \in Conns, NEW r \in Records
               PROVE  /\ conn'[d].park = r =>
                            rec[r].live /\ rec[r].cc = d /\ conn'[d].kind = "client"
                      /\ rec[r].cc = d =>
                            rec[r].live /\ conn'[d].park = r /\ conn'[d].req = rec[r].req
    BY <1>1, ZenonT(60) DEF ResultsReachTheirRequest
  <2>1. /\ conn[d].park = r => rec[r].live /\ rec[r].cc = d /\ conn[d].kind = "client"
        /\ rec[r].cc = d => rec[r].live /\ conn[d].park = r /\ conn[d].req = rec[r].req
    BY Zenon DEF ConnsInv, ResultsReachTheirRequest
  <2>2. NULL # r
    BY AddressAssumption, Zenon
  <2>3. CASE conn'[d] = conn[d]
    BY <2>1, <2>3, Zenon
  <2>4. CASE conn[d].park = NULL /\ conn'[d] = NoConn
    BY <2>1, <2>2, <2>4, EmptyConns, Zenon
  <2> QED
    BY <1>3, <2>3, <2>4, Zenon
<1>5. ServedIsOpen'
  <2>1. \A c \in Conns : conn'[c].park # NULL => ~conn'[c].out
    BY <1>3, EmptyConns, Zenon DEF ConnsInv, ServedIsOpen
  <2>2. todo'.serve = NULL
    BY <1>1, Zenon
  <2> QED
    BY <2>1, <2>2, Zenon DEF ServedIsOpen
<1>6. LoopIsCurrent'
  BY <1>1, Zenon DEF ConnsInv, LoopIsCurrent
<1> QED
  BY <1>4, <1>5, <1>6, Zenon DEF ConnsInv

LEMMA ConnsDaemonJob ==
    ASSUME TypeOK, ConnsInv, RecordsInv, NEW job \in DaemonJobs, DaemonJob(job)
    PROVE  ConnsInv'
<1>1. UNCHANGED <<conn, pending, batch, todo>>
  BY Zenon DEF DaemonJob
<1>2. job \in Jobs
  BY JobsAreJobs, Zenon
<1>3. NULL \in Conns \cup {NULL}
  BY Zenon
<1>4. PICK x \in Record : x = ParkNew(job, NULL) /\ x.cc = NULL
  BY <1>2, <1>3, ParkNewType, ZenonT(60)
<1>5. PICK r \in Records : SubmitStarts(r, x) \/ SubmitQueues(r, x)
  BY <1>4, Zenon DEF DaemonJob
<1>6. ~rec[r].live /\ helper[r] = "none"
  BY <1>5, Zenon DEF SubmitStarts, SubmitQueues, Unused, RecordsInv, HelpersKeepRecords
<1>7. PICK y \in Record : rec' = [rec EXCEPT ![r] = y] /\ y.cc = x.cc
  <2>1. PICK z \in Record : z = [x EXCEPT !.running = TRUE] /\ z.cc = x.cc
    BY Started, Zenon
  <2>2. rec' = [rec EXCEPT ![r] = z] \/ rec' = [rec EXCEPT ![r] = x]
    BY <1>5, <2>1, Zenon DEF SubmitStarts, SubmitQueues, ParkStart
  <2> QED
    BY <2>1, <2>2, Zenon
<1>8. \A s \in Records : s # r => helper'[s] = helper[s]
  BY <1>5, Zenon DEF SubmitStarts, SubmitQueues, ParkStart, TypeOK
<1>9. y.cc = NULL
  BY <1>4, <1>7, Zenon
<1> QED
  BY <1>1, <1>6, <1>7, <1>8, <1>9, ConnsRecord, Zenon

LEMMA ConnsKept == PInv /\ [Next]_vars => ConnsInv'
<1> SUFFICES ASSUME PInv, [Next]_vars PROVE ConnsInv'
  OBVIOUS
<1>0. TypeOK /\ RecordsInv /\ ConnsInv
  BY Zenon DEF PInv
<1>1. ASSUME Nothing, batch' \subseteq batch PROVE ConnsInv'
  <2>1. UNCHANGED <<conn, rec, pending>> /\ todo' = todo /\ helper' = helper
    BY <1>1, Zenon DEF Nothing
  <2> QED
    BY <1>0, <1>1, <2>1, ConnsQuiet, Zenon
<1>2. CASE UNCHANGED vars
  BY <1>1, <1>2, Zenon DEF vars, Nothing
<1>3. CASE Poll
  BY <1>0, <1>3, ConnsPoll, Zenon
<1>4. CASE EndBatch
  BY <1>0, <1>4, ConnsEndBatch, Zenon
<1>5. ASSUME NEW c \in Conns, SkipDead(c) \/ ResumeOutput(c) \/ ParkedRead(c) PROVE ConnsInv'
  <2>1. Idle /\ batch' \subseteq batch
    BY <1>5, Zenon DEF SkipDead, ResumeOutput, ParkedRead, Take
  <2>2. Nothing \/ (conn[c].kind = "client" /\ ClientConnTeardown(c))
    BY <1>5, Zenon DEF SkipDead, ResumeOutput, ParkedRead
  <2>3. CASE Nothing
    BY <1>1, <2>1, <2>3, Zenon
  <2>4. CASE conn[c].kind = "client" /\ ClientConnTeardown(c)
    BY <1>0, <2>1, <2>4, ConnsTeardown, Zenon
  <2> QED
    BY <2>2, <2>3, <2>4, Zenon
<1>6. ASSUME NEW c \in Conns, ReadRequest(c) PROVE ConnsInv'
  BY <1>0, <1>6, ConnsRead, Zenon
<1>7. ASSUME NEW r \in Records, HelperDone(r) PROVE ConnsInv'
  BY <1>0, <1>7, ConnsDone, Zenon
<1>8. ASSUME NEW c \in Conns, ServeRequest(c) PROVE ConnsInv'
  BY <1>0, <1>8, ConnsServe, Zenon
<1>9. ASSUME NEW kind \in Kinds, ParkStartWaiting(kind) PROVE ConnsInv'
  BY <1>0, <1>9, ConnsWaiting, Zenon
<1>10. ASSUME NEW c \in Conns, Accept(c) PROVE ConnsInv'
  BY <1>0, <1>10, ConnsAccept, Zenon
<1>11. ASSUME NEW job \in DaemonJobs, DaemonJob(job) PROVE ConnsInv'
  BY <1>0, <1>11, ConnsDaemonJob, Zenon
<1>12. ASSUME NEW r \in Records, HelperExits(r) PROVE ConnsInv'
  <2>1. UNCHANGED <<conn, rec, pending>> /\ todo' = todo /\ batch' \subseteq batch
    BY <1>12, Zenon DEF HelperExits
  <2>2. \A s \in Records : helper[s] \in {"ok", "failed"} => helper'[s] = helper[s]
    BY <1>0, <1>12 DEF HelperExits, TypeOK
  <2> QED
    BY <1>0, <2>1, <2>2, ConnsQuiet, Zenon
<1> QED
  BY <1>2, <1>3, <1>4, <1>5, <1>6, <1>7, <1>8, <1>9, <1>10, <1>11, <1>12, ZenonT(60)
     DEF Next, Event, Handler

-----------------------------------------------------------------------------
(* Events                                                                  *)

LEMMA EventsOne ==
    ASSUME TypeOK, EventsKeepConns, NEW c \in Conns, NEW v, conn' = [conn EXCEPT ![c] = v],
           v.kind # "none" \/ v.kind = conn[c].kind, batch' \subseteq batch
    PROVE  EventsKeepConns'
<1>1. conn'[c] = v /\ \A d \in Conns : d # c => conn'[d] = conn[d]
  BY Zenon DEF TypeOK
<1> QED
  BY <1>1, Zenon DEF EventsKeepConns

LEMMA EventsStep ==
    ASSUME PInv, EventsKeepConns, [Next]_vars,
           \A c \in Conns : conn[c].kind = "client" => Cardinality(pending) < MAX_EVENTS
    PROVE  EventsKeepConns'
<1>0. TypeOK /\ RecordsInv /\ ConnsInv
  BY Zenon DEF PInv
<1>1. ASSUME conn' = conn, batch' \subseteq batch PROVE EventsKeepConns'
  BY <1>1, Zenon DEF EventsKeepConns
<1>2. ASSUME NEW c \in Conns, conn[c].kind = "client", ClientConnTeardown(c), batch' \subseteq batch
      PROVE  EventsKeepConns'
  <2>1. Cardinality(pending) < MAX_EVENTS
    BY <1>2, Zenon
  <2>2. PICK v \in Conn : conn' = [conn EXCEPT ![c] = v] /\ v.kind = "dead"
    BY <1>0, <1>2, <2>1, TeardownShape, Zenon
  <2> QED
    BY <1>0, <1>2, <2>2, EventsOne, Zenon
<1>3. ASSUME NEW c \in Conns, conn[c].kind = "client", NEW v, AnswerShape(c, v), batch' \subseteq batch
      PROVE  EventsKeepConns'
  <2>1. Cardinality(pending) < MAX_EVENTS
    BY <1>3, Zenon
  <2>2. conn' = [conn EXCEPT ![c] = v] /\ (v.kind # "none" \/ v.kind = conn[c].kind)
    BY <1>3, <2>1, Zenon DEF AnswerShape
  <2> QED
    BY <1>0, <1>3, <2>2, EventsOne, Zenon
<1>4. CASE UNCHANGED vars
  BY <1>1, <1>4, Zenon DEF vars
<1>5. CASE Poll
  <2>1. conn' = conn /\ batch' \subseteq Exited \cup {c \in Conns : conn[c].kind = "client"}
    BY <1>5, Zenon DEF Poll
  <2>2. \A c \in Conns \cap batch' : conn[c].kind = "client"
    BY <2>1, AddressAssumption DEF Exited
  <2> QED
    BY <2>1, <2>2, Zenon DEF EventsKeepConns
<1>6. CASE EndBatch
  BY <1>6, Zenon DEF EndBatch, EventsKeepConns
<1>7. ASSUME NEW c \in Conns, SkipDead(c) \/ ResumeOutput(c) \/ ParkedRead(c) PROVE EventsKeepConns'
  <2>1. batch' \subseteq batch
    BY <1>7, Zenon DEF SkipDead, ResumeOutput, ParkedRead, Take
  <2>2. conn' = conn \/ (conn[c].kind = "client" /\ ClientConnTeardown(c))
    BY <1>7, Zenon DEF SkipDead, ResumeOutput, ParkedRead, Nothing
  <2> QED
    BY <1>1, <1>2, <2>1, <2>2, Zenon
<1>8. ASSUME NEW c \in Conns, ReadRequest(c) PROVE EventsKeepConns'
  <2>1. conn[c].kind = "client" /\ batch' \subseteq batch
    BY <1>8, Zenon DEF ReadRequest, Take
  <2>2. conn' = conn \/ ClientConnTeardown(c) \/ ClientConnFinish(c, conn)
    BY <1>8, Zenon DEF ReadRequest, Nothing
  <2>3. ClientConnFinish(c, conn) => \E v : AnswerShape(c, v)
    BY <1>0, FinishIsAnswer, Zenon
  <2> QED
    BY <1>1, <1>2, <1>3, <2>1, <2>2, <2>3, Zenon
<1>9. ASSUME NEW r \in Records, HelperDone(r) PROVE EventsKeepConns'
  <2>1. batch' \subseteq batch
    BY <1>9, Zenon DEF HelperDone, Take
  <2>2. PICK c \in Conns \cup {NULL}, job \in Jobs :
            IF c = NULL THEN conn' = conn
            ELSE \E v \in Conn : conn' = [conn EXCEPT ![c] = v] /\ Released(v, conn[c], job)
    BY <1>0, <1>9, DoneShape, Zenon
  <2> QED
    BY <1>0, <1>1, <2>1, <2>2, EventsOne, Zenon DEF Released
<1>10. ASSUME NEW c \in Conns, ServeRequest(c) PROVE EventsKeepConns'
  <2>1. batch' \subseteq batch /\ todo.serve = c
    BY <1>10, Zenon DEF ServeRequest
  <2>2. conn[c].kind = "client"
    BY <1>0, <2>1, AddressAssumption, Zenon DEF ConnsInv, ServedIsOpen
  <2>3. CASE Answer(c)
    BY <1>0, <1>3, <2>1, <2>2, <2>3, AnswerIsAnswer, Zenon
  <2>4. ASSUME NEW r \in Records, conn' = [conn EXCEPT ![c].park = r] PROVE EventsKeepConns'
    <3>1. PICK v : v = [conn[c] EXCEPT !.park = r]
      BY Zenon
    <3>2. conn[c] \in Conn
      BY <1>0, Zenon DEF TypeOK
    <3>3. v.kind = conn[c].kind
      BY <3>1, <3>2 DEF Conn
    <3>4. conn' = [conn EXCEPT ![c] = v]
      BY <2>4, <3>1, Zenon
    <3> QED
      BY <1>0, <2>1, <3>3, <3>4, EventsOne, Zenon
  <2> QED
    BY <1>10, <2>3, <2>4, Zenon DEF ServeRequest
<1>11. ASSUME NEW kind \in Kinds, ParkStartWaiting(kind) PROVE EventsKeepConns'
  <2>1. batch' \subseteq batch
    BY <1>11, Zenon DEF ParkStartWaiting
  <2>2. ASSUME NEW r \in Records, NEW x \in Record, WaitingFails(kind, r, x) PROVE EventsKeepConns'
    <3>1. PICK c \in Conns \cup {NULL}, job \in Jobs :
            IF c = NULL THEN conn' = conn
            ELSE \E v \in Conn : conn' = [conn EXCEPT ![c] = v] /\ Released(v, conn[c], job)
      BY <1>0, <2>2, FailsShape, Zenon
    <3> QED
      BY <1>0, <1>1, <2>1, <3>1, EventsOne, Zenon DEF Released
  <2>3. conn' = conn \/ \E r \in Records, x \in Record : WaitingFails(kind, r, x)
    BY <1>0, <1>11, WaitingOutcomes, Zenon DEF WaitingEnds, WaitingStarts
  <2> QED
    BY <1>1, <2>1, <2>2, <2>3, Zenon
<1>12. ASSUME NEW c \in Conns, Accept(c) PROVE EventsKeepConns'
  <2>1. batch' \subseteq batch
    BY <1>12, Zenon DEF Accept
  <2>2. PICK v \in Conn : conn' = [conn EXCEPT ![c] = v] /\ v.kind = "client"
    BY <1>0, <1>12, AcceptShape, Zenon
  <2>3. v.kind # "none"
    BY <2>2
  <2> QED
    BY <1>0, <2>1, <2>2, <2>3, EventsOne, Zenon
<1>13. ASSUME NEW job \in DaemonJobs, DaemonJob(job) PROVE EventsKeepConns'
  BY <1>1, <1>13, Zenon DEF DaemonJob
<1>14. ASSUME NEW r \in Records, HelperExits(r) PROVE EventsKeepConns'
  BY <1>1, <1>14, Zenon DEF HelperExits
<1> QED
  BY <1>4, <1>5, <1>6, <1>7, <1>8, <1>9, <1>10, <1>11, <1>12, <1>13, <1>14, Zenon
     DEF Next, Event, Handler
=============================================================================
