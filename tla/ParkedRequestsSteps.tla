------------------------ MODULE ParkedRequestsSteps -------------------------
(***************************************************************************)
(* What the steps of ParkedRequests do to a connection, a record and a     *)
(* queue: the lemmas the proofs rest on.                                   *)
(***************************************************************************)
EXTENDS ParkedRequestsProps, TLAPS

LEMMA KindType == \A job \in Jobs : KindOf[job] \in Kinds
BY DEF Jobs, KindOf, Kinds

LEMMA JobsAreJobs ==
    /\ RequestJobs \subseteq Jobs /\ DaemonJobs \subseteq Jobs /\ "check" \in Jobs
    /\ "sweep" \notin RequestJobs /\ "none" \notin Jobs
BY JobsAssumption DEF RequestJobs, Jobs, KindOf

-----------------------------------------------------------------------------
(* Queues                                                                  *)

\* Taking the first.
LEMMA TailElems ==
    ASSUME NEW S, NEW q \in Seq(S), q # <<>>, Distinct(q)
    PROVE  /\ Tail(q) \in Seq(S)
           /\ Head(q) \in S /\ Head(q) \in Elems(q)
           /\ Distinct(Tail(q))
           /\ Elems(Tail(q)) = Elems(q) \ {Head(q)}
<1> DEFINE t == Tail(q)
           h == Head(q)
<1>1. /\ t \in Seq(S) /\ h \in S /\ h = q[1] /\ Len(q) \in Nat /\ Len(q) > 0
      /\ Len(t) = Len(q) - 1
      /\ \A i \in 1 .. Len(t) : t[i] = q[i + 1]
  OBVIOUS
<1> HIDE DEF t, h
<1>2. 1 \in 1 .. Len(q)
  BY <1>1
<1>3. \A i \in 1 .. Len(t) : i + 1 \in 1 .. Len(q) /\ i + 1 # 1
  BY <1>1
<1>4. \A i \in 1 .. Len(q) : i = 1 \/ (i - 1 \in 1 .. Len(t) /\ (i - 1) + 1 = i)
  BY <1>1
<1>5. Distinct(t)
  BY <1>1, <1>3 DEF Distinct
<1>6. h \in Elems(q)
  BY <1>1, <1>2, Zenon DEF Elems
<1>7. ASSUME NEW x \in Elems(t) PROVE x \in Elems(q) /\ x # h
  <2>1. PICK i \in 1 .. Len(t) : x = t[i]
    BY Zenon DEF Elems
  <2>2. x = q[i + 1]
    BY <1>1, <2>1
  <2> QED
    BY <1>1, <1>2, <1>3, <2>2, Zenon DEF Elems, Distinct
<1>8. ASSUME NEW x \in Elems(q), x # h PROVE x \in Elems(t)
  <2>1. PICK i \in 1 .. Len(q) : x = q[i]
    BY Zenon DEF Elems
  <2>2. i - 1 \in 1 .. Len(t) /\ (i - 1) + 1 = i
    BY <1>1, <1>4, <1>8, <2>1
  <2>3. x = t[i - 1]
    BY <1>1, <2>1, <2>2
  <2> QED
    BY <2>2, <2>3, Zenon DEF Elems
<1> QED
  BY <1>1, <1>5, <1>6, <1>7, <1>8, Zenon DEF t, h

\* A queue is empty when nothing is in it.
LEMMA EmptyElems ==
    ASSUME NEW S, NEW q \in Seq(S)
    PROVE  q = <<>> <=> Elems(q) = {}
<1>1. Len(q) \in Nat /\ (q # <<>> => 1 \in 1 .. Len(q)) /\ (q = <<>> => Len(q) = 0)
  OBVIOUS
<1>2. q # <<>> => q[1] \in Elems(q)
  BY <1>1, Zenon DEF Elems
<1>3. q = <<>> => 1 .. Len(q) = {}
  BY <1>1
<1> QED
  BY <1>2, <1>3, Zenon DEF Elems

-----------------------------------------------------------------------------
(* Types                                                                   *)

LEMMA ConnType == NoConn \in Conn /\ DeadConn \in Conn
<1>1. 0 \in 0 .. MaxRequests
  BY LimitsAssumption
<1>2. NoConn \in Conn
  BY <1>1, Zenon DEF NoConn, Conn
<1>3. \A x \in Conn : [x EXCEPT !.kind = "dead"] \in Conn
  BY DEF Conn
<1> QED
  BY <1>2, <1>3, Zenon DEF DeadConn

\* The updates of a record that leave it one.
LEMMA RecordUpdates ==
    \A x \in Record :
        /\ [x EXCEPT !.running = TRUE] \in Record
        /\ [x EXCEPT !.cc = NULL] \in Record
        /\ [[x EXCEPT !.cc = NULL] EXCEPT !.daemon_job = TRUE] \in Record
BY Zenon DEF Record

\* The updates of a connection that leave it one.
LEMMA ConnUpdates ==
    \A x \in Conn :
        /\ [x EXCEPT !.out = TRUE] \in Conn
        /\ \A r \in Records \cup {NULL} : [x EXCEPT !.park = r] \in Conn
        /\ \A b \in {"none", "done", "unavailable", "failed", "taken"} : [x EXCEPT !.body = b] \in Conn
        /\ \A v \in {"unchecked", "refused", "verified", "unavailable"} : [x EXCEPT !.cred = v] \in Conn
<1> TAKE x \in Conn
<1>1. [x EXCEPT !.out = TRUE] \in Conn
  BY Zenon DEF Conn
<1>2. \A r \in Records \cup {NULL} : [x EXCEPT !.park = r] \in Conn
  BY DEF Conn
<1>3. \A b \in {"none", "done", "unavailable", "failed", "taken"} : [x EXCEPT !.body = b] \in Conn
  BY DEF Conn
<1>4. \A v \in {"unchecked", "refused", "verified", "unavailable"} : [x EXCEPT !.cred = v] \in Conn
  BY DEF Conn
<1> QED
  BY <1>1, <1>2, <1>3, <1>4, Zenon

LEMMA FreedType == Freed \in Record
BY LimitsAssumption DEF Freed, Record, Jobs, KindOf

-----------------------------------------------------------------------------
(* What steps do to connections and records                                *)

\* What park_abandon() does: the record loses its connection, or is freed and
\* leaves its queue; its child may be killed.
LEMMA ParkAbandonShape ==
    ASSUME TypeOK, NEW r \in Records, ParkAbandon(r)
    PROVE  /\ \E x \in Record :
                /\ rec' = [rec EXCEPT ![r] = x] /\ x.cc = NULL
                /\ \/ /\ x.live = rec[r].live /\ x.running = rec[r].running
                      /\ x.job = rec[r].job /\ x.req = rec[r].req
                      /\ queue' = queue
                   \/ /\ ~rec[r].running /\ x = Freed
                      /\ queue' = [queue EXCEPT ![KindOf[rec[r].job]] = Without(@, r)]
           /\ helper' \in [Records -> {"none", "working", "killed", "ok", "failed"}]
           /\ \A s \in Records : helper'[s] = helper[s] \/ (helper[s] = "working" /\ helper'[s] = "killed")
<1>1. rec[r] \in Record
  BY Zenon DEF TypeOK
<1>2. CASE rec[r].running
  <2> DEFINE x == [rec[r] EXCEPT !.cc = NULL]
  <2>1. x \in Record
    BY <1>1, RecordUpdates, Zenon
  <2>2. rec' = [rec EXCEPT ![r] = x] /\ queue' = queue
    BY <1>2, Zenon DEF ParkAbandon
  <2>3. x.cc = NULL /\ x.live = rec[r].live /\ x.running = rec[r].running
        /\ x.job = rec[r].job /\ x.req = rec[r].req
    BY <1>1 DEF Record
  <2>4. helper' = [helper EXCEPT ![r] =
                     IF KilledWhenAbandoned(rec[r].job) /\ @ = "working" THEN "killed" ELSE @]
    BY <1>2, Zenon DEF ParkAbandon
  <2>5. /\ helper' \in [Records -> {"none", "working", "killed", "ok", "failed"}]
        /\ \A s \in Records : helper'[s] = helper[s] \/ (helper[s] = "working" /\ helper'[s] = "killed")
    BY <2>4 DEF TypeOK
  <2> HIDE DEF x
  <2> QED
    BY <2>1, <2>2, <2>3, <2>5, Zenon
<1>3. CASE ~rec[r].running /\ rec[r].job = "snapshot"
  <2> DEFINE x == [[rec[r] EXCEPT !.cc = NULL] EXCEPT !.daemon_job = TRUE]
  <2>1. x \in Record
    BY <1>1, RecordUpdates, Zenon
  <2>2. rec' = [rec EXCEPT ![r] = x] /\ queue' = queue /\ helper' = helper
    BY <1>1, <1>3, Zenon DEF ParkAbandon, TypeOK
  <2>3. x.cc = NULL /\ x.live = rec[r].live /\ x.running = rec[r].running
        /\ x.job = rec[r].job /\ x.req = rec[r].req
    BY <1>1 DEF Record
  <2> HIDE DEF x
  <2> QED
    BY <2>1, <2>2, <2>3, Zenon DEF TypeOK
<1>4. CASE ~rec[r].running /\ rec[r].job # "snapshot"
  <2>1. /\ rec' = [rec EXCEPT ![r] = Freed] /\ helper' = helper
        /\ queue' = [queue EXCEPT ![KindOf[rec[r].job]] = Without(@, r)]
    BY <1>4, Zenon DEF ParkAbandon
  <2>2. Freed.cc = NULL
    BY DEF Freed
  <2> QED
    BY <1>4, <2>1, <2>2, FreedType, Zenon DEF TypeOK
<1> QED
  BY <1>2, <1>3, <1>4, Zenon

LEMMA ParkNewType ==
    ASSUME TypeOK, NEW job \in Jobs, NEW c \in Conns \cup {NULL}
    PROVE  /\ ParkNew(job, c) \in Record
           /\ ParkNew(job, c).live /\ ~ParkNew(job, c).running
           /\ ParkNew(job, c).job = job /\ ParkNew(job, c).cc = c
           /\ ParkNew(job, c).req = IF c = NULL THEN 0 ELSE conn[c].req
<1>1. c # NULL => conn[c].req \in 0 .. MaxRequests
  BY DEF TypeOK, Conn
<1>2. 0 \in 0 .. MaxRequests
  BY LimitsAssumption
<1> QED
  BY <1>1, <1>2 DEF ParkNew, Record

LEMMA NextJobType ==
    ASSUME TypeOK, NEW c \in Conns, NextJob(c) # "none"
    PROVE  NextJob(c) \in Jobs /\ NextJob(c) # "sweep"
<1>1. conn[c].job \in RequestJobs \cup {"none"}
  BY DEF TypeOK, Conn
<1>2. NextJob(c) \in {"check", "none", conn[c].job}
  BY Zenon DEF NextJob
<1> QED
  BY <1>1, <1>2, JobsAreJobs, Zenon

\* The three outcomes of a turn of park_start_waiting(), of the first record r that
\* waits, which is x: it is started, it is not, or the loop ends.
WaitingStarts(kind, r, x) ==
    /\ ParkStart(r, x)
    /\ UNCHANGED <<conn, sweep_pending, todo>>

WaitingFails(kind, r, x) ==
    /\ rec' = [rec EXCEPT ![r] = Freed]
    /\ conn' = IF x.cc = NULL THEN conn ELSE Unavailable(x.cc, x.job)
    /\ sweep_pending' = (sweep_pending /\ x.job # "sweep")
    /\ todo' = [todo EXCEPT !.serve = x.cc]
    /\ UNCHANGED <<running, helper, forks>>

WaitingEnds(kind) ==
    /\ ~Room(kind) \/ queue[kind] = <<>>
    /\ todo' = [todo EXCEPT !.drain = NULL]
    /\ UNCHANGED <<conn, rec, queue, running, helper, sweep_pending, forks>>

LEMMA WaitingOutcomes ==
    ASSUME TypeOK, NEW kind \in Kinds, ParkStartWaiting(kind)
    PROVE  \/ WaitingEnds(kind)
           \/ /\ Room(kind) /\ queue[kind] # <<>>
              /\ queue' = [queue EXCEPT ![kind] = Tail(@)]
              /\ queue' \in [Kinds -> Seq(Records)]
              /\ \E r \in Records, x \in Record :
                    /\ r = Head(queue[kind]) /\ x = rec[r]
                    /\ WaitingStarts(kind, r, x) \/ WaitingFails(kind, r, x)
<1>1. CASE WaitingEnds(kind)
  BY <1>1, Zenon
<1>2. CASE ~WaitingEnds(kind)
  <2>1. Room(kind) /\ queue[kind] # <<>> /\ queue' = [queue EXCEPT ![kind] = Tail(@)]
    BY <1>2, Zenon DEF ParkStartWaiting, WaitingEnds
  <2>2. Head(queue[kind]) \in Records /\ Tail(queue[kind]) \in Seq(Records)
    BY <2>1 DEF TypeOK
  <2>3. PICK r \in Records : r = Head(queue[kind])
    BY <2>2, Zenon
  <2>4. queue' \in [Kinds -> Seq(Records)]
    BY <2>1, <2>2, Zenon DEF TypeOK
  <2>5. PICK x \in Record : x = rec[r]
    BY Zenon DEF TypeOK
  <2>6. WaitingStarts(kind, r, x) \/ WaitingFails(kind, r, x)
    BY <1>2, <2>3, <2>5, Zenon DEF ParkStartWaiting, WaitingEnds, WaitingStarts, WaitingFails, SweepOver
  <2> QED
    BY <2>1, <2>3, <2>4, <2>5, <2>6, Zenon
<1> QED
  BY <1>1, <1>2, Zenon

\* A record that is started.
LEMMA Started ==
    ASSUME NEW x \in Record
    PROVE  \E y \in Record :
                /\ y = [x EXCEPT !.running = TRUE]
                /\ y.running /\ y.live = x.live /\ y.job = x.job /\ y.cc = x.cc /\ y.req = x.req
<1>1. [x EXCEPT !.running = TRUE] \in Record
  BY RecordUpdates, Zenon
<1>2. LET y == [x EXCEPT !.running = TRUE]
      IN  y.running /\ y.live = x.live /\ y.job = x.job /\ y.cc = x.cc /\ y.req = x.req
  BY DEF Record
<1> QED
  BY <1>1, <1>2, Zenon

\* The first of a queue: it waits, and the rest of the queue is without it.
LEMMA HeadWaits ==
    ASSUME TypeOK, RecordsInv, NEW kind \in Kinds, queue[kind] # <<>>
    PROVE  /\ Waits(Head(queue[kind]), kind) /\ Head(queue[kind]) \in Records
           /\ \E q \in Seq(Records) :
                q = Tail(queue[kind]) /\ Distinct(q) /\ Elems(q) = Elems(queue[kind]) \ {Head(queue[kind])}
<1>1. queue[kind] \in Seq(Records) /\ Distinct(queue[kind])
  BY Zenon DEF TypeOK, RecordsInv, QueuesHoldTheWaiting
<1>2. Head(queue[kind]) \in Records /\ Head(queue[kind]) \in Elems(queue[kind])
  BY <1>1, TailElems, Zenon
<1>3. Waits(Head(queue[kind]), kind)
  BY <1>2, Zenon DEF RecordsInv, QueuesHoldTheWaiting
<1> QED
  BY <1>1, <1>2, <1>3, TailElems, Zenon

LEMMA EmptyConns ==
    /\ NoConn.kind = "none" /\ NoConn.park = NULL /\ NoConn.req = 0 /\ ~NoConn.out
    /\ DeadConn.kind = "dead" /\ DeadConn.park = NULL /\ DeadConn.req = 0 /\ ~DeadConn.out
BY DEF NoConn, DeadConn

\* What queue_conn_free() makes of a connection.
LEMMA QueueConnFreeShape ==
    ASSUME NEW c \in Conns, NEW conns \in [Conns -> Conn], QueueConnFree(c, conns)
    PROVE  \E v \in Conn :
                /\ conn' = [conns EXCEPT ![c] = v]
                /\ v.kind \in {"none", "dead"} /\ v.park = NULL /\ v.req = 0
                /\ \/ v.kind = "dead" /\ pending' = pending \cup {c}
                   \/ ~(Cardinality(pending) < MAX_EVENTS) /\ pending' = pending
<1>1. CASE Cardinality(pending) < MAX_EVENTS
  BY <1>1, ConnType, EmptyConns, Zenon DEF QueueConnFree
<1>2. CASE ~(Cardinality(pending) < MAX_EVENTS)
  BY <1>2, ConnType, EmptyConns, Zenon DEF QueueConnFree
<1> QED
  BY <1>1, <1>2, Zenon

\* What client_conn_finish() makes of one: it ends, or its response goes on leaving.
LEMMA FinishShape ==
    ASSUME NEW c \in Conns, NEW conns \in [Conns -> Conn], ClientConnFinish(c, conns)
    PROVE  \E v \in Conn :
                /\ conn' = [conns EXCEPT ![c] = v]
                /\ \/ /\ v.kind \in {"none", "dead"} /\ v.park = NULL /\ v.req = 0
                      /\ \/ v.kind = "dead" /\ pending' = pending \cup {c}
                         \/ ~(Cardinality(pending) < MAX_EVENTS) /\ pending' = pending
                   \/ /\ v = [conns[c] EXCEPT !.out = TRUE]
                      /\ v.kind = conns[c].kind /\ v.park = conns[c].park /\ v.req = conns[c].req /\ v.out
                      /\ pending' = pending
<1>1. CASE QueueConnFree(c, conns)
  BY <1>1, QueueConnFreeShape, ZenonT(60)
<1>2. CASE conn' = [conns EXCEPT ![c].out = TRUE] /\ UNCHANGED pending
  <2> DEFINE v == [conns[c] EXCEPT !.out = TRUE]
  <2>1. v \in Conn
    BY ConnUpdates, Zenon
  <2>2. v.kind = conns[c].kind /\ v.park = conns[c].park /\ v.req = conns[c].req /\ v.out
    BY DEF Conn
  <2>3. conn' = [conns EXCEPT ![c] = v]
    BY <1>2, Zenon
  <2> HIDE DEF v
  <2>4. v = [conns[c] EXCEPT !.out = TRUE]
    BY Zenon DEF v
  <2> QED
    BY <1>2, <2>1, <2>2, <2>3, <2>4, Zenon
<1> QED
  BY <1>1, <1>2, Zenon DEF ClientConnFinish

\* What a connection is left with when its record is done with.
Released(v, w, job) ==
    /\ v.park = NULL /\ v.kind = w.kind /\ v.out = w.out /\ v.req = w.req
    /\ v.login = w.login /\ v.job = w.job
    /\ IF job = "check" THEN v.cred # "unchecked" /\ v.body = w.body
       ELSE v.body # "none" /\ v.cred = w.cred

LEMMA ReleaseUpdates ==
    ASSUME NEW w \in Conn
    PROVE  /\ \A e \in {"verified", "refused", "unavailable"} :
                LET v == [[w EXCEPT !.park = NULL] EXCEPT !.cred = e]
                IN  v \in Conn /\ Released(v, w, "check")
           /\ \A b \in {"done", "failed", "unavailable"}, job \in Jobs \ {"check"} :
                LET v == [[w EXCEPT !.park = NULL] EXCEPT !.body = b]
                IN  v \in Conn /\ Released(v, w, job)
<1>1. ASSUME NEW e \in {"verified", "refused", "unavailable"}
      PROVE  LET v == [[w EXCEPT !.park = NULL] EXCEPT !.cred = e]
             IN  v \in Conn /\ Released(v, w, "check")
  <2> DEFINE v == [[w EXCEPT !.park = NULL] EXCEPT !.cred = e]
  <2>1. v \in Conn
    BY ConnUpdates, Zenon
  <2>2. /\ v.park = NULL /\ v.kind = w.kind /\ v.out = w.out /\ v.req = w.req
        /\ v.login = w.login /\ v.job = w.job /\ v.cred = e /\ v.body = w.body
    BY DEF Conn
  <2>3. v.cred # "unchecked"
    BY <2>2
  <2> HIDE DEF v
  <2>4. Released(v, w, "check")
    BY <2>2, <2>3, Zenon DEF Released
  <2> QED
    BY <2>1, <2>4, Zenon DEF v
<1>2. ASSUME NEW b \in {"done", "failed", "unavailable"}, NEW job \in Jobs \ {"check"}
      PROVE  LET v == [[w EXCEPT !.park = NULL] EXCEPT !.body = b]
             IN  v \in Conn /\ Released(v, w, job)
  <2> DEFINE v == [[w EXCEPT !.park = NULL] EXCEPT !.body = b]
  <2>1. v \in Conn
    BY ConnUpdates, Zenon
  <2>2. /\ v.park = NULL /\ v.kind = w.kind /\ v.out = w.out /\ v.req = w.req
        /\ v.login = w.login /\ v.job = w.job /\ v.cred = w.cred /\ v.body = b
    BY DEF Conn
  <2>3. v.body # "none" /\ job # "check"
    BY <2>2
  <2> HIDE DEF v
  <2>4. Released(v, w, job)
    BY <2>2, <2>3, Zenon DEF Released
  <2> QED
    BY <2>1, <2>4, Zenon DEF v
<1> QED
  BY <1>1, <1>2, Zenon

\* park_unavailable(), and what a done callback leaves.
LEMMA UnavailableShape ==
    ASSUME NEW conns \in [Conns -> Conn], conns = conn, NEW c \in Conns, NEW job \in Jobs
    PROVE  \E v \in Conn :
                Unavailable(c, job) = [conns EXCEPT ![c] = v] /\ Released(v, conns[c], job)
<1>1. PICK w \in Conn : w = conns[c]
  BY Zenon
<1>2. CASE job = "check"
  <2>1. Unavailable(c, job) =
            [conns EXCEPT ![c] = [[w EXCEPT !.park = NULL] EXCEPT !.cred = "unavailable"]]
    BY <1>1, <1>2, Zenon DEF Unavailable
  <2> QED
    BY <1>1, <1>2, <2>1, ReleaseUpdates, Zenon
<1>3. CASE job # "check"
  <2>1. Unavailable(c, job) =
            [conns EXCEPT ![c] = [[w EXCEPT !.park = NULL] EXCEPT !.body = "unavailable"]]
    BY <1>1, <1>3, Zenon DEF Unavailable
  <2>2. job \in Jobs \ {"check"}
    BY <1>3, Zenon
  <2> QED
    BY <1>1, <2>1, <2>2, ReleaseUpdates, Zenon
<1> QED
  BY <1>2, <1>3, Zenon

LEMMA AttachedShape ==
    ASSUME NEW conns \in [Conns -> Conn], conns = conn, NEW c \in Conns, NEW job \in Jobs,
           NEW result, NEW left \in Attached(c, job, result)
    PROVE  \E v \in Conn : left = [conns EXCEPT ![c] = v] /\ Released(v, conns[c], job)
<1>1. PICK w \in Conn : w = conns[c]
  BY Zenon
<1>2. CASE job = "check"
  <2>1. PICK e \in {"verified", "refused", "unavailable"} :
            left = [conn EXCEPT ![c].park = NULL, ![c].cred = e]
    BY <1>2, Zenon DEF Attached
  <2>2. left = [conns EXCEPT ![c] = [[w EXCEPT !.park = NULL] EXCEPT !.cred = e]]
    BY <1>1, <2>1, Zenon
  <2> QED
    BY <1>1, <1>2, <2>2, ReleaseUpdates, Zenon
<1>3. CASE job # "check"
  <2>1. PICK b \in {"done", "failed", "unavailable"} :
            left = [conn EXCEPT ![c].park = NULL, ![c].body = b]
    BY <1>3, Zenon DEF Attached
  <2>2. left = [conns EXCEPT ![c] = [[w EXCEPT !.park = NULL] EXCEPT !.body = b]]
    BY <1>1, <2>1, Zenon
  <2>3. job \in Jobs \ {"check"}
    BY <1>3, Zenon
  <2> QED
    BY <1>1, <2>2, <2>3, ReleaseUpdates, Zenon
<1> QED
  BY <1>2, <1>3, Zenon

\* handle_helper_event() and the done callback.
LEMMA DoneShape ==
    ASSUME TypeOK, NEW r \in Records, HelperDone(r)
    PROVE  \E c \in Conns \cup {NULL}, job \in Jobs :
                /\ rec[r].cc = c /\ rec[r].job = job
                /\ IF c = NULL THEN conn' = conn
                   ELSE \E v \in Conn : conn' = [conn EXCEPT ![c] = v] /\ Released(v, conn[c], job)
<1>1. PICK c \in Conns \cup {NULL}, job \in Jobs : c = rec[r].cc /\ job = rec[r].job
  BY DEF TypeOK, Record
<1>2. CASE c = NULL
  BY <1>1, <1>2, Zenon DEF HelperDone
<1>3. CASE c # NULL
  <2>1. c \in Conns /\ conn' \in Attached(c, job, helper[r])
    BY <1>1, <1>3, Zenon DEF HelperDone
  <2>2. PICK conns \in [Conns -> Conn] : conns = conn
    BY Zenon DEF TypeOK
  <2>3. PICK v \in Conn : conn' = [conns EXCEPT ![c] = v] /\ Released(v, conns[c], job)
    BY <2>1, <2>2, AttachedShape, Zenon
  <2>4. conn' = [conn EXCEPT ![c] = v] /\ Released(v, conn[c], job)
    BY <2>2, <2>3, Zenon
  <2> QED
    BY <1>1, <1>3, <2>4, Zenon
<1> QED
  BY <1>2, <1>3, Zenon

\* A waiting record is given up, its child not forked.
LEMMA FailsShape ==
    ASSUME TypeOK, NEW kind \in Kinds, NEW r \in Records, NEW x \in Record, WaitingFails(kind, r, x)
    PROVE  \E c \in Conns \cup {NULL}, job \in Jobs :
                /\ x.cc = c /\ x.job = job
                /\ IF c = NULL THEN conn' = conn
                   ELSE \E v \in Conn : conn' = [conn EXCEPT ![c] = v] /\ Released(v, conn[c], job)
<1>1. PICK c \in Conns \cup {NULL}, job \in Jobs : c = x.cc /\ job = x.job
  BY DEF Record
<1>2. CASE c = NULL
  BY <1>1, <1>2, Zenon DEF WaitingFails
<1>3. CASE c # NULL
  <2>1. c \in Conns /\ conn' = Unavailable(c, job)
    BY <1>1, <1>3, Zenon DEF WaitingFails
  <2>2. PICK conns \in [Conns -> Conn] : conns = conn
    BY Zenon DEF TypeOK
  <2>3. PICK v \in Conn :
            Unavailable(c, job) = [conns EXCEPT ![c] = v] /\ Released(v, conns[c], job)
    BY <2>1, <2>2, UnavailableShape, Zenon
  <2>4. conn' = [conn EXCEPT ![c] = v] /\ Released(v, conn[c], job)
    BY <2>1, <2>2, <2>3, Zenon
  <2> QED
    BY <1>1, <1>3, <2>4, Zenon
<1> QED
  BY <1>2, <1>3, Zenon

\* A response is written: the connection ends, or keeps what is left of it.
AnswerShape(c, v) ==
    /\ v \in Conn /\ conn' = [conn EXCEPT ![c] = v]
    /\ v.park = conn[c].park \/ v.park = NULL
    /\ \/ /\ v.kind \in {"none", "dead"} /\ v.req = 0
          /\ \/ v.kind = "dead" /\ pending' = pending \cup {c}
             \/ ~(Cardinality(pending) < MAX_EVENTS) /\ pending' = pending
       \/ v.kind = conn[c].kind /\ v.req = conn[c].req /\ v.out /\ pending' = pending
    /\ v.body # "none" \/ v.body = conn[c].body \/ v.kind # "client"
    /\ v.kind = "client" => v.login = conn[c].login /\ v.cred = conn[c].cred

LEMMA FinishIsAnswer ==
    ASSUME TypeOK, NEW c \in Conns, ClientConnFinish(c, conn)
    PROVE  \E v : AnswerShape(c, v)
<1>1. PICK conns \in [Conns -> Conn] : conns = conn
  BY Zenon DEF TypeOK
<1>2. ClientConnFinish(c, conns)
  BY <1>1, Zenon DEF ClientConnFinish, QueueConnFree
<1>3. PICK v \in Conn :
        /\ conn' = [conns EXCEPT ![c] = v]
        /\ \/ /\ v.kind \in {"none", "dead"} /\ v.park = NULL /\ v.req = 0
              /\ \/ v.kind = "dead" /\ pending' = pending \cup {c}
                 \/ ~(Cardinality(pending) < MAX_EVENTS) /\ pending' = pending
           \/ /\ v = [conns[c] EXCEPT !.out = TRUE]
              /\ v.kind = conns[c].kind /\ v.park = conns[c].park /\ v.req = conns[c].req /\ v.out
              /\ pending' = pending
  BY <1>2, FinishShape, Zenon
<1>4. \A w \in Conn : LET u == [w EXCEPT !.out = TRUE]
                      IN  u.body = w.body /\ u.login = w.login /\ u.cred = w.cred
  BY DEF Conn
<1>5. CASE v.kind \in {"none", "dead"} /\ v.park = NULL /\ v.req = 0 /\
           \/ v.kind = "dead" /\ pending' = pending \cup {c}
           \/ ~(Cardinality(pending) < MAX_EVENTS) /\ pending' = pending
  <2>1. v.kind # "client"
    BY <1>5
  <2> QED
    BY <1>1, <1>3, <1>5, <2>1, Zenon DEF AnswerShape
<1>6. CASE /\ v = [conns[c] EXCEPT !.out = TRUE]
           /\ v.kind = conns[c].kind /\ v.park = conns[c].park /\ v.req = conns[c].req /\ v.out
           /\ pending' = pending
  <2>1. v.body = conns[c].body /\ v.login = conns[c].login /\ v.cred = conns[c].cred
    BY <1>4, <1>6, Zenon
  <2> QED
    BY <1>1, <1>3, <1>6, <2>1, ZenonT(60) DEF AnswerShape
<1> QED
  BY <1>3, <1>5, <1>6, Zenon

LEMMA AnswerIsAnswer ==
    ASSUME TypeOK, NEW c \in Conns, Answer(c)
    PROVE  \E v : AnswerShape(c, v)
<1>1. PICK w \in Conn :
        /\ w = [conn[c] EXCEPT !.body = IF @ = "done" THEN "taken" ELSE @]
        /\ w.park = conn[c].park /\ w.kind = conn[c].kind /\ w.req = conn[c].req
        /\ w.login = conn[c].login /\ w.cred = conn[c].cred
        /\ w.body # "none" \/ w.body = conn[c].body
  <2>1. PICK u \in Conn : u = conn[c]
    BY Zenon DEF TypeOK
  <2>2. PICK b \in {"none", "done", "unavailable", "failed", "taken"} :
            b = (IF u.body = "done" THEN "taken" ELSE u.body) /\ (b # "none" \/ b = u.body)
    BY DEF Conn
  <2> DEFINE w == [u EXCEPT !.body = b]
  <2>3. w \in Conn
    BY ConnUpdates, Zenon
  <2>4. /\ w.park = u.park /\ w.kind = u.kind /\ w.req = u.req
        /\ w.login = u.login /\ w.cred = u.cred /\ w.body = b
    BY DEF Conn
  <2>5. w = [conn[c] EXCEPT !.body = IF @ = "done" THEN "taken" ELSE @]
    BY <2>1, <2>2, Zenon
  <2> HIDE DEF w
  <2> QED
    BY <2>1, <2>2, <2>3, <2>4, <2>5, ZenonT(60)
<1>2. PICK conns \in [Conns -> Conn] :
        /\ conns = [conn EXCEPT ![c].body = IF @ = "done" THEN "taken" ELSE @]
        /\ conns = [conn EXCEPT ![c] = w]
  BY <1>1, Zenon DEF TypeOK
<1>3. ClientConnFinish(c, conns)
  BY <1>2, Zenon DEF Answer, ClientConnFinish, QueueConnFree
<1>4. conns[c] = w /\ \A x \in Conn : [conns EXCEPT ![c] = x] = [conn EXCEPT ![c] = x]
  BY <1>2 DEF TypeOK
<1>5. PICK v \in Conn :
        /\ conn' = [conns EXCEPT ![c] = v]
        /\ \/ /\ v.kind \in {"none", "dead"} /\ v.park = NULL /\ v.req = 0
              /\ \/ v.kind = "dead" /\ pending' = pending \cup {c}
                 \/ ~(Cardinality(pending) < MAX_EVENTS) /\ pending' = pending
           \/ /\ v = [conns[c] EXCEPT !.out = TRUE]
              /\ v.kind = conns[c].kind /\ v.park = conns[c].park /\ v.req = conns[c].req /\ v.out
              /\ pending' = pending
  BY <1>3, FinishShape, Zenon
<1>6. conn' = [conn EXCEPT ![c] = v]
  BY <1>4, <1>5, Zenon
<1>7. CASE v.kind \in {"none", "dead"} /\ v.park = NULL /\ v.req = 0 /\
           \/ v.kind = "dead" /\ pending' = pending \cup {c}
           \/ ~(Cardinality(pending) < MAX_EVENTS) /\ pending' = pending
  <2>1. v.kind # "client"
    BY <1>7
  <2> QED
    BY <1>6, <1>7, <2>1, Zenon DEF AnswerShape
<1>8. CASE /\ v = [conns[c] EXCEPT !.out = TRUE]
           /\ v.kind = conns[c].kind /\ v.park = conns[c].park /\ v.req = conns[c].req /\ v.out
           /\ pending' = pending
  <2>1. v.body = w.body /\ v.login = w.login /\ v.cred = w.cred
    BY <1>4, <1>8 DEF Conn
  <2>2. /\ v.kind = conn[c].kind /\ v.park = conn[c].park /\ v.req = conn[c].req
        /\ v.login = conn[c].login /\ v.cred = conn[c].cred
        /\ v.body # "none" \/ v.body = conn[c].body
    BY <1>1, <1>4, <1>8, <2>1, ZenonT(60)
  <2> QED
    BY <1>6, <1>8, <2>2, Zenon DEF AnswerShape
<1> QED
  BY <1>5, <1>7, <1>8, Zenon

\* What accept_loop() makes of a connection.
LEMMA AcceptShape ==
    ASSUME TypeOK, NEW c \in Conns, Accept(c)
    PROVE  \E v \in Conn :
                /\ conn' = [conn EXCEPT ![c] = v]
                /\ v.kind = "client" /\ v.req = requests + 1 /\ v.park = NULL /\ ~v.out
<1>1. PICK shape \in RequestShapes :
        conn' = [conn EXCEPT ![c] = [NoConn EXCEPT !.kind = "client", !.req = requests + 1,
                                                   !.login = shape.login, !.job = shape.job]]
  BY Zenon DEF Accept
<1>2. shape.login \in BOOLEAN /\ shape.job \in RequestJobs \cup {"none"}
  BY JobsAssumption
<1>3. requests + 1 \in 0 .. MaxRequests
  BY LimitsAssumption DEF Accept, TypeOK
<1> DEFINE v == [NoConn EXCEPT !.kind = "client", !.req = requests + 1,
                               !.login = shape.login, !.job = shape.job]
<1>4. v \in Conn
  BY <1>2, <1>3, Zenon DEF NoConn, Conn
<1>5. v.kind = "client" /\ v.req = requests + 1 /\ v.park = NULL /\ ~v.out
  BY DEF NoConn
<1> HIDE DEF v
<1> QED
  BY <1>1, <1>4, <1>5, Zenon DEF v

LEMMA TeardownShape ==
    ASSUME TypeOK, NEW c \in Conns, ClientConnTeardown(c)
    PROVE  \E v \in Conn :
                /\ conn' = [conn EXCEPT ![c] = v]
                /\ v.kind \in {"none", "dead"} /\ v.park = NULL /\ v.req = 0
                /\ v.kind = "dead" \/ ~(Cardinality(pending) < MAX_EVENTS)
                /\ pending' \subseteq pending \cup {c}
<1>1. PICK conns \in [Conns -> Conn] : conns = conn
  BY Zenon DEF TypeOK
<1>2. QueueConnFree(c, conns)
  BY <1>1, Zenon DEF ClientConnTeardown
<1>3. PICK v \in Conn :
            /\ conn' = [conns EXCEPT ![c] = v]
            /\ v.kind \in {"none", "dead"} /\ v.park = NULL /\ v.req = 0
            /\ \/ v.kind = "dead" /\ pending' = pending \cup {c}
               \/ ~(Cardinality(pending) < MAX_EVENTS) /\ pending' = pending
  BY <1>2, QueueConnFreeShape, Zenon
<1>4. conn' = [conn EXCEPT ![c] = v]
  BY <1>1, <1>3, Zenon
<1> QED
  BY <1>3, <1>4, Zenon
=============================================================================
