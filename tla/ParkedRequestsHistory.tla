----------------------- MODULE ParkedRequestsHistory ------------------------
(***************************************************************************)
(* Every step of ParkedRequests keeps what is true of the work done for a  *)
(* request, and does no more for it than HelpedRequests allows.            *)
(***************************************************************************)
EXTENDS ParkedRequestsSteps

LEMMA StageType == \A job : Stage(job) \in Stages /\ (Stage(job) = "check" <=> job = "check")
BY DEF Stage, Stages

LEMMA ReqType ==
    ASSUME TypeOK
    PROVE  /\ \A c \in Conns : conn[c].req # 0 => conn[c].req \in Requests
           /\ \A r \in Records : rec[r].req # 0 => rec[r].req \in Requests
           /\ requests \in Nat
<1>1. \A c \in Conns : conn[c].req \in 0 .. MaxRequests
  BY DEF TypeOK, Conn
<1>2. \A r \in Records : rec[r].req \in 0 .. MaxRequests
  BY DEF TypeOK, Record
<1>3. requests \in Nat
  BY DEF TypeOK
<1> QED
  BY <1>1, <1>2, <1>3, LimitsAssumption DEF Requests

\* Connections end, and records with them, or are abandoned.
LEMMA HistoryDrops ==
    ASSUME TypeOK, ConnsInv, HistoryInv, UNCHANGED <<requests, forks, answers>>,
           \A d \in Conns : conn'[d] = conn[d] \/ (conn'[d].kind # "client" /\ conn'[d].req = 0),
           \A r \in Records :
                \/ rec'[r] = rec[r]
                \/ /\ \A d \in Conns : conn[d].park = r => conn'[d].kind # "client"
                   /\ \/ ~rec'[r].live /\ rec'[r].req = 0
                      \/ /\ rec'[r].live = rec[r].live /\ rec'[r].running = rec[r].running
                         /\ rec'[r].req = rec[r].req /\ rec'[r].job = rec[r].job
    PROVE  HistoryInv'
<1>1. RequestsAreDistinct /\ NotDoneYet /\ WorkIsDoneOnce
  BY Zenon DEF HistoryInv
<1>2. 0 <= requests
  BY ReqType
<1>3. RequestsAreDistinct'
  <2>1. \A c \in Conns : conn'[c].req <= requests /\ (conn'[c].req # 0 <=> conn'[c].kind = "client")
    BY <1>1, <1>2, Zenon DEF RequestsAreDistinct
  <2>2. \A c, d \in Conns : conn'[c].req # 0 /\ conn'[c].req = conn'[d].req => c = d
    BY <1>1 DEF RequestsAreDistinct
  <2>3. \A r \in Records : rec'[r].req <= requests
    BY <1>1, <1>2, Zenon DEF RequestsAreDistinct
  <2>4. \A r \in Records : rec'[r].live /\ rec'[r].req # 0 => rec[r].live /\ rec[r].req = rec'[r].req
    BY Zenon
  <2>5. \A r, s \in Records :
            rec'[r].live /\ rec'[s].live /\ rec'[r].req # 0 /\ rec'[r].req = rec'[s].req => r = s
    BY <1>1, <2>4 DEF RequestsAreDistinct
  <2>6. ASSUME NEW r \in Records, NEW c \in Conns, rec'[r].live, rec'[r].req # 0,
               conn'[c].req = rec'[r].req
        PROVE  rec'[r].cc = c
    <3>1. conn'[c] = conn[c] /\ rec[r].live /\ rec[r].req # 0 /\ conn[c].req = rec[r].req
      BY <2>4, <2>6, Zenon
    <3>2. rec[r].cc = c /\ conn[c].kind = "client"
      BY <1>1, <3>1, Zenon DEF RequestsAreDistinct
    <3>3. conn[c].park = r
      BY <3>2 DEF ConnsInv, ResultsReachTheirRequest
    <3>4. rec'[r] = rec[r]
      BY <3>1, <3>2, <3>3, ZenonT(60)
    <3> QED
      BY <3>2, <3>4, Zenon
  <2> QED
    BY <2>1, <2>2, <2>3, <2>5, <2>6, Zenon DEF RequestsAreDistinct
<1>4. \A r \in Records : WaitingIsFresh(r)'
  BY <1>1, ZenonT(60) DEF NotDoneYet, WaitingIsFresh
<1>5. ASSUME NEW c \in Conns PROVE ClientIsFresh(c)'
  <2> SUFFICES ASSUME conn'[c].kind = "client" PROVE ClientIsFresh(c)'
    BY Zenon DEF ClientIsFresh
  <2>1. conn'[c] = conn[c]
    BY Zenon
  <2>2. \A r \in Records : conn[c].park = r => rec'[r] = rec[r]
    BY Zenon
  <2>3. \A stage : HasNotAsked(c, stage)' => HasNotAsked(c, stage)
    BY <2>1, <2>2, Zenon DEF HasNotAsked
  <2>4. ClientIsFresh(c)
    BY <1>1, Zenon DEF NotDoneYet
  <2> QED
    BY <2>1, <2>3, <2>4, Zenon DEF ClientIsFresh
<1>6. NotDoneYet'
  BY <1>1, <1>4, <1>5, Zenon DEF NotDoneYet
<1>7. WorkIsDoneOnce'
  BY <1>1, Zenon DEF WorkIsDoneOnce
<1> QED
  BY <1>3, <1>6, <1>7, Zenon DEF HistoryInv

\* A record is done with, and its connection gets what it waited for.
LEMMA HistoryRelease ==
    ASSUME TypeOK, ConnsInv, HistoryInv, UNCHANGED <<requests, forks, answers>>,
           NEW r \in Records, NEW c \in Conns \cup {NULL}, NEW job \in Jobs,
           rec[r].cc = c, rec[r].job = job, rec' = [rec EXCEPT ![r] = Freed],
           IF c = NULL THEN conn' = conn
           ELSE \E v \in Conn : conn' = [conn EXCEPT ![c] = v] /\ Released(v, conn[c], job)
    PROVE  HistoryInv'
<1>1. RequestsAreDistinct /\ NotDoneYet /\ WorkIsDoneOnce
  BY Zenon DEF HistoryInv
<1>2. rec'[r] = Freed /\ \A s \in Records : s # r => rec'[s] = rec[s]
  BY Zenon DEF TypeOK
<1>3. ~Freed.live /\ Freed.req = 0
  BY DEF Freed
<1>4. CASE c = NULL
  <2>1. \A d \in Conns : conn[d].park # r
    BY <1>4, AddressAssumption DEF ConnsInv, ResultsReachTheirRequest
  <2>2. \A d \in Conns : conn'[d] = conn[d]
    BY <1>4, Zenon
  <2>3. \A s \in Records :
            \/ rec'[s] = rec[s]
            \/ /\ \A d \in Conns : conn[d].park = s => conn'[d].kind # "client"
               /\ ~rec'[s].live /\ rec'[s].req = 0
    BY <1>2, <1>3, <2>1, Zenon
  <2> QED
    BY <2>2, <2>3, HistoryDrops, Zenon
<1>5. CASE c # NULL
  <2>1. PICK v \in Conn : conn' = [conn EXCEPT ![c] = v] /\ Released(v, conn[c], job)
    BY <1>5, Zenon
  <2>2. c \in Conns
    BY <1>5, Zenon
  <2>3. conn'[c] = v /\ \A d \in Conns : d # c => conn'[d] = conn[d]
    BY <2>1, <2>2, Zenon DEF TypeOK
  <2>4. conn[c].park = r
    BY <2>2, Zenon DEF ConnsInv, ResultsReachTheirRequest
  <2>5. \A d \in Conns : conn'[d].req = conn[d].req /\ conn'[d].kind = conn[d].kind
    BY <2>1, <2>3, ZenonT(60) DEF Released
  <2>6. RequestsAreDistinct'
    <3>1. \A s \in Records : rec'[s].live => s # r /\ rec'[s] = rec[s]
      BY <1>2, <1>3, Zenon
    <3>2. \A s \in Records : rec'[s].req <= requests
      <4>1. 0 <= requests
        BY ReqType
      <4> QED
        BY <1>1, <1>2, <1>3, <4>1, Zenon DEF RequestsAreDistinct
    <3>3. \A d \in Conns : conn'[d].req <= requests /\ (conn'[d].req # 0 <=> conn'[d].kind = "client")
      BY <1>1, <2>5, Zenon DEF RequestsAreDistinct
    <3>4. \A d, e \in Conns : conn'[d].req # 0 /\ conn'[d].req = conn'[e].req => d = e
      BY <1>1, <2>5 DEF RequestsAreDistinct
    <3>5. \A s, t \in Records :
            rec'[s].live /\ rec'[t].live /\ rec'[s].req # 0 /\ rec'[s].req = rec'[t].req => s = t
      BY <1>1, <3>1, ZenonT(60) DEF RequestsAreDistinct
    <3>6. \A s \in Records, d \in Conns :
            rec'[s].live /\ rec'[s].req # 0 /\ conn'[d].req = rec'[s].req => rec'[s].cc = d
      BY <1>1, <2>5, <3>1 DEF RequestsAreDistinct
    <3> QED
      BY <3>2, <3>3, <3>4, <3>5, <3>6, Zenon DEF RequestsAreDistinct
  <2>7. \A s \in Records : WaitingIsFresh(s)'
    BY <1>1, <1>2, <1>3, ZenonT(60) DEF NotDoneYet, WaitingIsFresh
  <2>8. ClientIsFresh(c)'
    <3>1. ClientIsFresh(c)
      BY <1>1, <2>2, Zenon DEF NotDoneYet
    <3>2. \A stage : Stage(job) # stage => HasNotAsked(c, stage)
      BY <2>4, Zenon DEF HasNotAsked
    <3>3. CASE job = "check"
      <4>1. HasNotAsked(c, "work") /\ v.cred # "unchecked" /\ v.body = conn[c].body
        BY <2>1, <3>2, <3>3 DEF Stage, Released
      <4>2. /\ conn'[c].kind = conn[c].kind /\ conn'[c].out = conn[c].out
            /\ conn'[c].req = conn[c].req /\ conn'[c].login = conn[c].login
        BY <2>1, <2>3, Zenon DEF Released
      <4> QED
        BY <2>3, <3>1, <4>1, <4>2 DEF ClientIsFresh
    <3>4. CASE job # "check"
      <4>1. HasNotAsked(c, "check") /\ v.body # "none" /\ v.cred = conn[c].cred
        BY <2>1, <3>2, <3>4 DEF Stage, Released
      <4>2. /\ conn'[c].kind = conn[c].kind /\ conn'[c].out = conn[c].out
            /\ conn'[c].req = conn[c].req /\ conn'[c].login = conn[c].login
        BY <2>1, <2>3, Zenon DEF Released
      <4> QED
        BY <2>3, <3>1, <4>1, <4>2 DEF ClientIsFresh
    <3> QED
      BY <3>3, <3>4, Zenon
  <2>9. ASSUME NEW d \in Conns, d # c PROVE ClientIsFresh(d)'
    <3>1. conn'[d] = conn[d] /\ ClientIsFresh(d)
      BY <1>1, <2>3, <2>9, Zenon DEF NotDoneYet
    <3>2. conn[d].park # r
      BY <2>9, Zenon DEF ConnsInv, ResultsReachTheirRequest
    <3>3. \A stage : HasNotAsked(d, stage)' => HasNotAsked(d, stage)
      BY <1>2, <3>1, <3>2, Zenon DEF HasNotAsked
    <3> QED
      BY <3>1, <3>3, Zenon DEF ClientIsFresh
  <2>10. NotDoneYet'
    BY <1>1, <2>7, <2>8, <2>9, Zenon DEF NotDoneYet
  <2>11. WorkIsDoneOnce'
    BY <1>1, Zenon DEF WorkIsDoneOnce
  <2> QED
    BY <2>6, <2>10, <2>11, Zenon DEF HistoryInv
<1> QED
  BY <1>4, <1>5, Zenon

\* A request that is open is answered.
LEMMA HistoryAnswer ==
    ASSUME TypeOK, HistoryInv, UNCHANGED <<requests, forks, rec>>, NEW c \in Conns, NEW v,
           AnswerShape(c, v), conn[c].kind = "client", conn[c].park = NULL, ~conn[c].out,
           answers' = [answers EXCEPT ![conn[c].req] = @ + 1]
    PROVE  HistoryInv'
<1>1. RequestsAreDistinct /\ NotDoneYet /\ WorkIsDoneOnce
  BY Zenon DEF HistoryInv
<1>2. PICK n \in Requests : n = conn[c].req /\ n <= requests /\ answers[n] = 0
  <2>1. conn[c].req # 0 /\ conn[c].req <= requests
    BY <1>1, Zenon DEF RequestsAreDistinct
  <2>2. answers[conn[c].req] = 0
    BY <1>1, Zenon DEF NotDoneYet, ClientIsFresh
  <2> QED
    BY <2>1, <2>2, ReqType, Zenon
<1>3. answers'[n] = 1 /\ \A m \in Requests : m # n => answers'[m] = answers[m]
  BY <1>2 DEF TypeOK
<1>4. conn'[c] = v /\ \A d \in Conns : d # c => conn'[d] = conn[d]
  BY Zenon DEF TypeOK, AnswerShape
<1>5. \/ v.kind # "client" /\ v.req = 0
      \/ v.kind = "client" /\ v.req = conn[c].req /\ v.out
  BY DEF AnswerShape
<1>6. RequestsAreDistinct'
  <2>0. 0 <= requests
    BY ReqType
  <2>1. \A d \in Conns : conn'[d].req <= requests /\ (conn'[d].req # 0 <=> conn'[d].kind = "client")
    BY <1>1, <1>4, <1>5, <2>0 DEF RequestsAreDistinct
  <2>2. \A d \in Conns : conn'[d].req # 0 => conn'[d].req = conn[d].req
    BY <1>4, <1>5, Zenon
  <2>3. \A d, e \in Conns : conn'[d].req # 0 /\ conn'[d].req = conn'[e].req => d = e
    BY <1>1, <2>2 DEF RequestsAreDistinct
  <2>4. \A r \in Records, d \in Conns :
            rec[r].live /\ rec[r].req # 0 /\ conn'[d].req = rec[r].req => rec[r].cc = d
    BY <1>1, <2>2 DEF RequestsAreDistinct
  <2>5. /\ \A r \in Records : rec[r].req <= requests
        /\ \A r, s \in Records :
            rec[r].live /\ rec[s].live /\ rec[r].req # 0 /\ rec[r].req = rec[s].req => r = s
    BY <1>1 DEF RequestsAreDistinct
  <2> QED
    BY <2>1, <2>3, <2>4, <2>5, Zenon DEF RequestsAreDistinct
<1>7. \A r \in Records : WaitingIsFresh(r)'
  BY <1>1, Zenon DEF NotDoneYet, WaitingIsFresh
<1>8. ClientIsFresh(c)'
  <2> SUFFICES ASSUME v.kind = "client" PROVE ClientIsFresh(c)'
    BY <1>4, Zenon DEF ClientIsFresh
  <2>1. v.out /\ v.req = conn[c].req
    BY <1>5, Zenon
  <2>2. \A stage : HasNotAsked(c, stage)
    BY AddressAssumption, Zenon DEF HasNotAsked
  <2>3. v.login = conn[c].login /\ v.cred = conn[c].cred /\ (v.body # "none" \/ v.body = conn[c].body)
    BY Zenon DEF AnswerShape
  <2>4. ClientIsFresh(c)
    BY <1>1, Zenon DEF NotDoneYet
  <2> QED
    BY <1>4, <2>1, <2>2, <2>3, <2>4 DEF ClientIsFresh
<1>9. ASSUME NEW d \in Conns, d # c PROVE ClientIsFresh(d)'
  <2> SUFFICES ASSUME conn[d].kind = "client" PROVE ClientIsFresh(d)'
    BY <1>4, <1>9, Zenon DEF ClientIsFresh
  <2>1. conn'[d] = conn[d] /\ ClientIsFresh(d)
    BY <1>1, <1>4, <1>9, Zenon DEF NotDoneYet
  <2>2. conn[d].req # 0 /\ conn[d].req # n
    BY <1>1, <1>2, <1>9 DEF RequestsAreDistinct
  <2>3. answers'[conn[d].req] = answers[conn[d].req]
    BY <1>3, <2>2, ReqType, Zenon
  <2>4. \A stage : HasNotAsked(d, stage)' => HasNotAsked(d, stage)
    BY <2>1, Zenon DEF HasNotAsked
  <2> QED
    BY <2>1, <2>3, <2>4, Zenon DEF ClientIsFresh
<1>10. \A m \in Requests : m > requests => m # n
  BY <1>2, ReqType DEF Requests
<1>11. NotDoneYet'
  BY <1>1, <1>3, <1>7, <1>8, <1>9, <1>10, Zenon DEF NotDoneYet
<1>12. WorkIsDoneOnce'
  <2>1. 1 <= 1
    OBVIOUS
  <2> QED
    BY <1>1, <1>3, <2>1, Zenon DEF WorkIsDoneOnce
<1> QED
  BY <1>6, <1>11, <1>12, Zenon DEF HistoryInv

\* A connection is accepted.
LEMMA HistoryAccept ==
    ASSUME TypeOK, ConnsInv, HistoryInv, NEW c \in Conns, Accept(c)
    PROVE  HistoryInv'
<1>1. RequestsAreDistinct /\ NotDoneYet /\ WorkIsDoneOnce
  BY Zenon DEF HistoryInv
<1>2. UNCHANGED <<rec, forks, answers>> /\ conn[c].kind = "none"
  BY Zenon DEF Accept
<1>3. requests' = requests + 1 /\ requests \in Nat /\ requests + 1 \in Requests
  BY LimitsAssumption DEF Accept, TypeOK, Requests
<1>4. PICK v \in Conn : /\ conn' = [conn EXCEPT ![c] = v] /\ v.kind = "client"
                        /\ v.req = requests + 1 /\ v.park = NULL
  BY AcceptShape, Zenon
<1>5. conn'[c] = v /\ \A d \in Conns : d # c => conn'[d] = conn[d]
  BY <1>4, Zenon DEF TypeOK
<1>6. /\ \A d \in Conns : conn[d].req \in Nat /\ conn[d].req <= requests
      /\ \A r \in Records : rec[r].req \in Nat /\ rec[r].req <= requests
  <2>1. \A d \in Conns : conn[d].req \in Nat
    BY LimitsAssumption DEF TypeOK, Conn
  <2>2. \A r \in Records : rec[r].req \in Nat
    BY LimitsAssumption DEF TypeOK, Record
  <2> QED
    BY <1>1, <2>1, <2>2, Zenon DEF RequestsAreDistinct
<1>7. /\ requests + 1 # 0 /\ requests + 1 <= requests + 1 /\ requests + 1 > requests
      /\ \A d \in Conns : conn[d].req <= requests + 1 /\ conn[d].req # requests + 1
      /\ \A r \in Records : rec[r].req <= requests + 1 /\ rec[r].req # requests + 1
      /\ \A n \in Requests : n > requests + 1 => n > requests
  BY <1>3, <1>6 DEF Requests
<1>8. RequestsAreDistinct'
  <2>1. \A d \in Conns : conn'[d].req <= requests' /\ (conn'[d].req # 0 <=> conn'[d].kind = "client")
    BY <1>1, <1>3, <1>4, <1>5, <1>7, ZenonT(60) DEF RequestsAreDistinct
  <2>2. ASSUME NEW d \in Conns, NEW e \in Conns, conn'[d].req # 0, conn'[d].req = conn'[e].req
        PROVE  d = e
    BY <1>1, <1>4, <1>5, <1>7, <2>2 DEF RequestsAreDistinct
  <2>3. \A r \in Records : rec'[r].req <= requests'
    BY <1>2, <1>3, <1>7, Zenon
  <2>4. \A r, s \in Records :
            rec'[r].live /\ rec'[s].live /\ rec'[r].req # 0 /\ rec'[r].req = rec'[s].req => r = s
    BY <1>1, <1>2 DEF RequestsAreDistinct
  <2>5. ASSUME NEW r \in Records, NEW d \in Conns, rec'[r].live, rec'[r].req # 0,
               conn'[d].req = rec'[r].req
        PROVE  rec'[r].cc = d
    <3>1. conn'[c].req = requests + 1 /\ rec'[r].req # requests + 1
      BY <1>2, <1>4, <1>5, <1>7, Zenon
    <3>2. d # c
      BY <2>5, <3>1, Zenon
    <3> QED
      BY <1>1, <1>2, <1>5, <2>5, <3>2 DEF RequestsAreDistinct
  <2> QED
    BY <2>1, <2>2, <2>3, <2>4, <2>5, Zenon DEF RequestsAreDistinct
<1>9. \A r \in Records : WaitingIsFresh(r)'
  BY <1>1, <1>2, Zenon DEF NotDoneYet, WaitingIsFresh
<1>10. ClientIsFresh(c)'
  <2>1. answers[requests + 1] = 0 /\ \A stage \in Stages : forks[requests + 1][stage] = 0
    BY <1>1, <1>3, <1>7, Zenon DEF NotDoneYet
  <2>2. "check" \in Stages /\ "work" \in Stages
    BY DEF Stages
  <2> QED
    BY <1>2, <1>4, <1>5, <2>1, <2>2, Zenon DEF ClientIsFresh
<1>11. ASSUME NEW d \in Conns, d # c PROVE ClientIsFresh(d)'
  <2>1. conn'[d] = conn[d] /\ ClientIsFresh(d)
    BY <1>1, <1>5, <1>11, Zenon DEF NotDoneYet
  <2>2. \A stage : HasNotAsked(d, stage)' => HasNotAsked(d, stage)
    BY <1>2, <2>1, Zenon DEF HasNotAsked
  <2> QED
    BY <1>2, <2>1, <2>2, Zenon DEF ClientIsFresh
<1>12. NotDoneYet'
  BY <1>1, <1>2, <1>3, <1>7, <1>9, <1>10, <1>11, Zenon DEF NotDoneYet
<1>13. WorkIsDoneOnce'
  BY <1>1, <1>2, Zenon DEF WorkIsDoneOnce
<1> QED
  BY <1>8, <1>12, <1>13, Zenon DEF HistoryInv

\* A record is made, or started: its work has not been done before, and the
\* client of its request, if it is there, is parked behind it.
Begins(r, y) ==
    /\ rec' = [rec EXCEPT ![r] = y] /\ y.live /\ y.req <= requests
    /\ y.req # 0 => forks[y.req][Stage(y.job)] = 0
    /\ \/ forks' = forks
       \/ y.running /\ y.req # 0 /\ forks' = [forks EXCEPT ![y.req][Stage(y.job)] = @ + 1]
    /\ rec[r].live => y.job = rec[r].job
    /\ \A s \in Records : s # r /\ rec[s].live /\ y.req # 0 => rec[s].req # y.req

SameRequest(v, w) ==
    /\ v.kind = w.kind /\ v.req = w.req /\ v.out = w.out /\ v.login = w.login
    /\ v.cred = w.cred /\ v.body = w.body

ParksBehind(r, y) ==
    \A d \in Conns :
        /\ SameRequest(conn'[d], conn[d])
        /\ y.req # 0 /\ conn[d].req = y.req => y.cc = d /\ conn'[d].park = r
        /\ \/ conn'[d].park = conn[d].park
           \/ conn[d].park = NULL /\ y.req # 0 /\ conn[d].req = y.req

LEMMA HistoryRecord ==
    ASSUME TypeOK, ConnsInv, HistoryInv, UNCHANGED <<requests, answers>>,
           NEW r \in Records, NEW y \in Record, Begins(r, y), ParksBehind(r, y)
    PROVE  HistoryInv'
<1>1. RequestsAreDistinct /\ NotDoneYet /\ WorkIsDoneOnce
  BY Zenon DEF HistoryInv
<1>2. rec'[r] = y /\ \A s \in Records : s # r => rec'[s] = rec[s]
  BY Zenon DEF TypeOK, Begins
<1>3. \A d \in Conns : conn'[d].req = conn[d].req /\ conn'[d].kind = conn[d].kind
  BY Zenon DEF ParksBehind, SameRequest
<1>4. \A s \in Records : s # r /\ rec[s].live /\ y.req # 0 => rec[s].req # y.req
  BY Zenon DEF Begins
<1>5. y.req # 0 => y.req \in Requests
  BY LimitsAssumption DEF Record, Requests
<1>6. Stage(y.job) \in Stages
  BY StageType, Zenon
<1>7. \A n \in Requests, stage \in Stages :
        \/ forks'[n][stage] = forks[n][stage]
        \/ /\ y.running /\ y.req # 0 /\ n = y.req /\ stage = Stage(y.job)
           /\ forks[n][stage] = 0 /\ forks'[n][stage] = 1
  <2>1. CASE forks' = forks
    BY <2>1, Zenon
  <2>2. CASE y.running /\ y.req # 0 /\ forks' = [forks EXCEPT ![y.req][Stage(y.job)] = @ + 1]
    <3>1. forks[y.req][Stage(y.job)] = 0
      BY <2>2, Zenon DEF Begins
    <3> QED
      BY <1>5, <1>6, <2>2, <3>1 DEF TypeOK
  <2> QED
    BY <2>1, <2>2, Zenon DEF Begins
<1>8. RequestsAreDistinct'
  <2>1. \A d \in Conns : conn'[d].req <= requests /\ (conn'[d].req # 0 <=> conn'[d].kind = "client")
    BY <1>1, <1>3, Zenon DEF RequestsAreDistinct
  <2>2. \A d, e \in Conns : conn'[d].req # 0 /\ conn'[d].req = conn'[e].req => d = e
    <3>1. \A d, e \in Conns : conn[d].req # 0 /\ conn[d].req = conn[e].req => d = e
      BY <1>1 DEF RequestsAreDistinct
    <3> QED
      BY <1>3, <3>1
  <2>3. \A s \in Records : rec'[s].req <= requests
    BY <1>1, <1>2, Zenon DEF RequestsAreDistinct, Begins
  <2>4. ASSUME NEW s \in Records, NEW t \in Records, rec'[s].live, rec'[t].live,
               rec'[s].req # 0, rec'[s].req = rec'[t].req
        PROVE  s = t
    <3>1. CASE s # r /\ t # r
      BY <1>1, <1>2, <2>4, <3>1 DEF RequestsAreDistinct
    <3>2. CASE s = r /\ t # r
      BY <1>2, <1>4, <2>4, <3>2
    <3>3. CASE s # r /\ t = r
      BY <1>2, <1>4, <2>4, <3>3
    <3> QED
      BY <3>1, <3>2, <3>3, Zenon
  <2>5. ASSUME NEW s \in Records, NEW d \in Conns, rec'[s].live, rec'[s].req # 0,
               conn'[d].req = rec'[s].req
        PROVE  rec'[s].cc = d
    <3>1. conn[d].req = rec'[s].req
      BY <1>3, <2>5, Zenon
    <3>2. CASE s = r
      BY <1>2, <2>5, <3>1, <3>2, Zenon DEF ParksBehind
    <3>3. CASE s # r
      BY <1>1, <1>2, <2>5, <3>1, <3>3 DEF RequestsAreDistinct
    <3> QED
      BY <3>2, <3>3, Zenon
  <2> QED
    BY <2>1, <2>2, <2>3, <2>4, <2>5, Zenon DEF RequestsAreDistinct
<1>9. ASSUME NEW s \in Records PROVE WaitingIsFresh(s)'
  <2> SUFFICES ASSUME rec'[s].live, ~rec'[s].running, rec'[s].req # 0
               PROVE  forks'[rec'[s].req][Stage(rec'[s].job)] = 0
    BY Zenon DEF WaitingIsFresh
  <2>1. CASE s = r
    <3>1. ~y.running /\ y.req \in Requests /\ forks[y.req][Stage(y.job)] = 0
      BY <1>2, <1>5, <2>1, ZenonT(60) DEF Begins
    <3>2. forks'[y.req][Stage(y.job)] = forks[y.req][Stage(y.job)]
      BY <1>6, <1>7, <3>1, Zenon
    <3> QED
      BY <1>2, <2>1, <3>1, <3>2, Zenon
  <2>2. CASE s # r
    <3>0. rec'[s] = rec[s] /\ rec[s].live /\ ~rec[s].running /\ rec[s].req # 0
      BY <1>2, <2>2, Zenon
    <3>1. forks[rec[s].req][Stage(rec[s].job)] = 0 /\ rec[s].req \in Requests
      BY <1>1, <3>0, ReqType, Zenon DEF NotDoneYet, WaitingIsFresh
    <3>2. Stage(rec[s].job) \in Stages
      BY StageType, Zenon
    <3>3. y.req # 0 => rec[s].req # y.req
      BY <1>4, <2>2, <3>0, Zenon
    <3>4. forks'[rec[s].req][Stage(rec[s].job)] = forks[rec[s].req][Stage(rec[s].job)]
      BY <1>7, <3>1, <3>2, <3>3, Zenon
    <3> QED
      BY <3>0, <3>1, <3>4, Zenon
  <2> QED
    BY <2>1, <2>2, Zenon
<1>10. ASSUME NEW d \in Conns PROVE ClientIsFresh(d)'
  <2> SUFFICES ASSUME conn[d].kind = "client" PROVE ClientIsFresh(d)'
    BY <1>3, Zenon DEF ClientIsFresh
  <2>1. conn[d].req \in Requests
    BY <1>1, ReqType, Zenon DEF RequestsAreDistinct
  <2>2. ClientIsFresh(d)
    BY <1>1, Zenon DEF NotDoneYet
  <2>3. ASSUME NEW stage \in Stages, HasNotAsked(d, stage)'
        PROVE  HasNotAsked(d, stage) /\ forks'[conn[d].req][stage] = forks[conn[d].req][stage]
    <3>1. HasNotAsked(d, stage)
      <4> SUFFICES ASSUME NEW s \in Records, conn[d].park = s PROVE Stage(rec[s].job) # stage
        BY Zenon DEF HasNotAsked
      <4>1. conn'[d].park = s
        BY AddressAssumption, Zenon DEF ParksBehind
      <4>2. Stage(rec'[s].job) # stage
        BY <2>3, <4>1, Zenon DEF HasNotAsked
      <4>3. rec[s].live
        BY Zenon DEF ConnsInv, ResultsReachTheirRequest
      <4>4. rec'[s].job = rec[s].job
        <5>1. CASE s = r
          BY <1>2, <4>3, <5>1, Zenon DEF Begins
        <5>2. CASE s # r
          BY <1>2, <5>2, Zenon
        <5> QED
          BY <5>1, <5>2, Zenon
      <4> QED
        BY <4>2, <4>4, Zenon
    <3>2. CASE y.req # 0 /\ conn[d].req = y.req
      <4>1. conn'[d].park = r
        BY <3>2, Zenon DEF ParksBehind
      <4>2. Stage(y.job) # stage
        BY <1>2, <2>3, <4>1, Zenon DEF HasNotAsked
      <4> QED
        BY <1>7, <2>1, <3>1, <4>2, Zenon
    <3>3. CASE ~(y.req # 0 /\ conn[d].req = y.req)
      BY <1>7, <2>1, <3>1, <3>3, Zenon
    <3> QED
      BY <3>2, <3>3, Zenon
  <2>4. "check" \in Stages /\ "work" \in Stages
    BY DEF Stages
  <2>5. HasNotAsked(d, "check")' =>
            HasNotAsked(d, "check") /\ forks'[conn[d].req]["check"] = forks[conn[d].req]["check"]
    BY <2>3, <2>4, Zenon
  <2>6. HasNotAsked(d, "work")' =>
            HasNotAsked(d, "work") /\ forks'[conn[d].req]["work"] = forks[conn[d].req]["work"]
    BY <2>3, <2>4, Zenon
  <2>7. /\ conn'[d].kind = conn[d].kind /\ conn'[d].req = conn[d].req
        /\ conn'[d].out = conn[d].out /\ conn'[d].login = conn[d].login
        /\ conn'[d].cred = conn[d].cred /\ conn'[d].body = conn[d].body
    BY Zenon DEF ParksBehind, SameRequest
  <2> QED
    BY <2>2, <2>5, <2>6, <2>7 DEF ClientIsFresh
<1>11. NotDoneYet'
  <2>1. ASSUME NEW n \in Requests, n > requests
        PROVE  answers'[n] = 0 /\ \A stage \in Stages : forks'[n][stage] = 0
    <3>1. answers[n] = 0 /\ \A stage \in Stages : forks[n][stage] = 0
      BY <1>1, <2>1, Zenon DEF NotDoneYet
    <3>2. y.req # n
      <4>1. y.req <= requests
        BY Zenon DEF Begins
      <4>2. y.req \in 0 .. MaxRequests
        BY DEF Record
      <4> QED
        BY <2>1, <4>1, <4>2, ReqType, LimitsAssumption DEF Requests
    <3>3. \A stage \in Stages : forks'[n][stage] = forks[n][stage]
      BY <1>7, <3>2, Zenon
    <3> QED
      BY <3>1, <3>3, Zenon
  <2> QED
    BY <1>9, <1>10, <2>1, Zenon DEF NotDoneYet
<1>12. WorkIsDoneOnce'
  <2>1. 1 <= 1
    OBVIOUS
  <2> QED
    BY <1>1, <1>7, <2>1, Zenon DEF WorkIsDoneOnce
<1> QED
  BY <1>8, <1>11, <1>12, Zenon DEF HistoryInv

\* A client is torn down, and its record abandoned.
LEMMA HistoryTeardown ==
    ASSUME TypeOK, ConnsInv, HistoryInv, NEW c \in Conns, ClientConnTeardown(c)
    PROVE  HistoryInv'
<1>1. UNCHANGED <<requests, forks, answers>>
  BY Zenon DEF ClientConnTeardown
<1>2. PICK v \in Conn : conn' = [conn EXCEPT ![c] = v] /\ v.kind # "client" /\ v.req = 0
  <2>1. PICK v \in Conn :
            conn' = [conn EXCEPT ![c] = v] /\ v.kind \in {"none", "dead"} /\ v.req = 0
    BY TeardownShape, Zenon
  <2>2. v.kind # "client"
    BY <2>1
  <2> QED
    BY <2>1, <2>2, Zenon
<1>3. conn'[c] = v /\ \A d \in Conns : d # c => conn'[d] = conn[d]
  BY <1>2, Zenon DEF TypeOK
<1>4. \A d \in Conns : conn'[d] = conn[d] \/ (conn'[d].kind # "client" /\ conn'[d].req = 0)
  BY <1>2, <1>3, Zenon
<1>5. CASE conn[c].park = NULL
  <2>1. rec' = rec
    BY <1>5, Zenon DEF ClientConnTeardown
  <2>2. \A r \in Records : rec'[r] = rec[r]
    BY <2>1, Zenon
  <2> QED
    BY <1>1, <1>4, <2>2, HistoryDrops, Zenon
<1>6. CASE conn[c].park # NULL
  <2>1. PICK r \in Records : r = conn[c].park
    BY <1>6 DEF TypeOK, Conn
  <2>2. ParkAbandon(r)
    BY <1>6, <2>1, Zenon DEF ClientConnTeardown
  <2>3. PICK x \in Record :
            /\ rec' = [rec EXCEPT ![r] = x]
            /\ \/ /\ x.live = rec[r].live /\ x.running = rec[r].running
                  /\ x.job = rec[r].job /\ x.req = rec[r].req
               \/ x = Freed
    BY <2>2, ParkAbandonShape, Zenon
  <2>4. rec'[r] = x /\ \A s \in Records : s # r => rec'[s] = rec[s]
    BY <2>3, Zenon DEF TypeOK
  <2>5. ~Freed.live /\ Freed.req = 0
    BY DEF Freed
  <2>6. \A d \in Conns : conn[d].park = r => conn'[d].kind # "client"
    <3>1. \A d \in Conns : conn[d].park = r => rec[r].cc = d
      BY Zenon DEF ConnsInv, ResultsReachTheirRequest
    <3>2. \A d \in Conns : conn[d].park = r => d = c
      BY <2>1, <3>1
    <3> QED
      BY <1>2, <1>3, <3>2, Zenon
  <2>7. ASSUME NEW s \in Records
        PROVE  \/ rec'[s] = rec[s]
               \/ /\ \A d \in Conns : conn[d].park = s => conn'[d].kind # "client"
                  /\ \/ ~rec'[s].live /\ rec'[s].req = 0
                     \/ /\ rec'[s].live = rec[s].live /\ rec'[s].running = rec[s].running
                        /\ rec'[s].req = rec[s].req /\ rec'[s].job = rec[s].job
    <3>1. CASE s # r
      BY <2>4, <3>1, Zenon
    <3>2. CASE s = r
      BY <2>3, <2>4, <2>5, <2>6, <3>2, Zenon
    <3> QED
      BY <3>1, <3>2, Zenon
  <2> QED
    BY <1>1, <1>4, <2>7, HistoryDrops, Zenon
<1> QED
  BY <1>5, <1>6, Zenon

\* serve_request()
LEMMA HistoryServe ==
    ASSUME TypeOK, ConnsInv, HistoryInv, NEW c \in Conns, ServeRequest(c)
    PROVE  HistoryInv'
<1>1. RequestsAreDistinct /\ NotDoneYet /\ requests' = requests
  BY Zenon DEF HistoryInv, ServeRequest
<1>2. conn[c].kind = "client" /\ conn[c].park = NULL /\ ~conn[c].out
  BY AddressAssumption, Zenon DEF ConnsInv, ServedIsOpen, ServeRequest
<1>3. CASE Answer(c) /\ UNCHANGED <<rec, queue, running, helper, forks>>
  <2>1. PICK v : AnswerShape(c, v)
    BY <1>3, AnswerIsAnswer, Zenon
  <2>2. answers' = [answers EXCEPT ![conn[c].req] = @ + 1] /\ UNCHANGED <<rec, forks>>
    BY <1>3, Zenon DEF Answer
  <2> QED
    BY <1>1, <1>2, <2>1, <2>2, HistoryAnswer, Zenon
<1>4. ASSUME NextJob(c) # "none", NEW r \in Records,
             SubmitStarts(r, ParkNew(NextJob(c), c)) \/ SubmitQueues(r, ParkNew(NextJob(c), c)),
             conn' = [conn EXCEPT ![c].park = r], answers' = answers
      PROVE  HistoryInv'
  <2>1. PICK job \in Jobs : job = NextJob(c)
    BY <1>4, NextJobType, Zenon
  <2>2. c # NULL /\ conn[c].req # 0 /\ conn[c].req <= requests
    BY <1>1, <1>2, AddressAssumption, Zenon DEF RequestsAreDistinct
  <2>3. PICK x \in Record : x = ParkNew(job, c) /\ x.live /\ x.cc = c /\ x.job = job
    <3>1. c \in Conns \cup {NULL}
      BY Zenon
    <3>2. /\ ParkNew(job, c) \in Record /\ ParkNew(job, c).live /\ ParkNew(job, c).cc = c
          /\ ParkNew(job, c).job = job
      BY <3>1, ParkNewType, ZenonT(60)
    <3> QED
      BY <3>2, Zenon
  <2>4. x.req = conn[c].req
    BY <2>2, <2>3 DEF ParkNew
  <2>5. SubmitStarts(r, x) \/ SubmitQueues(r, x)
    BY <1>4, <2>1, <2>3, Zenon
  <2>6. forks[x.req][Stage(job)] = 0
    <3>1. \A stage : HasNotAsked(c, stage)
      BY <1>2, AddressAssumption, Zenon DEF HasNotAsked
    <3>2. ClientIsFresh(c)
      BY <1>1, Zenon DEF NotDoneYet
    <3>3. CASE conn[c].login /\ conn[c].cred = "unchecked"
      <4>1. Stage(job) = "check"
        BY <2>1, <3>3 DEF NextJob, Stage
      <4> QED
        BY <1>2, <2>4, <3>1, <3>2, <3>3, <4>1, Zenon DEF ClientIsFresh
    <3>4. CASE ~(conn[c].login /\ conn[c].cred = "unchecked")
      <4>1. conn[c].body = "none" /\ job = conn[c].job
        BY <1>4, <2>1, <3>4, Zenon DEF NextJob
      <4>2. conn[c].job \in RequestJobs \cup {"none"}
        BY DEF TypeOK, Conn
      <4>3. Stage(job) = "work"
        BY <4>1, <4>2 DEF Stage, RequestJobs
      <4> QED
        BY <1>2, <2>4, <3>1, <3>2, <4>1, <4>3, Zenon DEF ClientIsFresh
    <3> QED
      BY <3>3, <3>4, Zenon
  <2>7. PICK y \in Record :
            /\ rec' = [rec EXCEPT ![r] = y] /\ y.live /\ y.cc = c /\ y.req = x.req /\ y.job = job
            /\ \/ forks' = forks
               \/ y.running /\ y.req # 0 /\ forks' = [forks EXCEPT ![y.req][Stage(y.job)] = @ + 1]
    <3>1. CASE SubmitQueues(r, x)
      BY <2>3, <3>1, Zenon DEF SubmitQueues
    <3>2. CASE SubmitStarts(r, x)
      <4>1. PICK z \in Record : /\ z = [x EXCEPT !.running = TRUE] /\ z.running /\ z.live = x.live
                                /\ z.job = x.job /\ z.cc = x.cc /\ z.req = x.req
        BY Started, Zenon
      <4>2. /\ rec' = [rec EXCEPT ![r] = z]
            /\ forks' = [forks EXCEPT ![x.req][Stage(x.job)] = @ + 1]
        BY <2>2, <2>4, <3>2, <4>1, Zenon DEF SubmitStarts, ParkStart
      <4>3. z.req # 0 /\ z.live /\ z.cc = c /\ z.job = job
        BY <2>2, <2>3, <2>4, <4>1, Zenon
      <4>4. forks' = [forks EXCEPT ![z.req][Stage(z.job)] = @ + 1]
        BY <4>1, <4>2, Zenon
      <4> QED
        BY <4>1, <4>2, <4>3, <4>4, Zenon
    <3> QED
      BY <2>5, <3>1, <3>2, Zenon
  <2>8. \A s \in Records : rec[s].live => rec[s].req # y.req
    <3> SUFFICES ASSUME NEW s \in Records, rec[s].live, rec[s].req = y.req PROVE FALSE
      BY Zenon
    <3>1. conn[c].req = rec[s].req /\ rec[s].req # 0
      BY <2>2, <2>4, <2>7, Zenon
    <3>2. rec[s].cc = c
      BY <1>1, <3>1, Zenon DEF RequestsAreDistinct
    <3>3. conn[c].park = s
      BY <3>2, Zenon DEF ConnsInv, ResultsReachTheirRequest
    <3> QED
      BY <1>2, <3>3, AddressAssumption, Zenon
  <2>9. Begins(r, y)
    <3>1. ~rec[r].live
      BY <2>5, Zenon DEF SubmitStarts, SubmitQueues, Unused
    <3>2. y.req <= requests /\ forks[y.req][Stage(y.job)] = 0
      BY <2>2, <2>4, <2>6, <2>7, Zenon
    <3> QED
      BY <2>7, <2>8, <3>1, <3>2, Zenon DEF Begins
  <2>10. ParksBehind(r, y)
    <3>1. PICK v : v = [conn[c] EXCEPT !.park = r]
      BY Zenon
    <3>2. conn[c] \in Conn
      BY Zenon DEF TypeOK
    <3>3. SameRequest(v, conn[c]) /\ v.park = r
      BY <3>1, <3>2 DEF Conn, SameRequest
    <3>4. conn'[c] = v /\ \A d \in Conns : d # c => conn'[d] = conn[d]
      BY <1>4, <3>1, Zenon DEF TypeOK
    <3>5. y.req = conn[c].req /\ y.req # 0 /\ y.cc = c
      BY <2>2, <2>4, <2>7, Zenon
    <3> SUFFICES ASSUME NEW d \in Conns
                 PROVE  /\ SameRequest(conn'[d], conn[d])
                        /\ y.req # 0 /\ conn[d].req = y.req => y.cc = d /\ conn'[d].park = r
                        /\ \/ conn'[d].park = conn[d].park
                           \/ conn[d].park = NULL /\ y.req # 0 /\ conn[d].req = y.req
      BY Zenon DEF ParksBehind
    <3>6. CASE d = c
      BY <1>2, <3>3, <3>4, <3>5, <3>6, Zenon
    <3>7. CASE d # c
      <4>1. conn[d].req # y.req
        BY <1>1, <3>5, <3>7 DEF RequestsAreDistinct
      <4> QED
        BY <3>4, <3>7, <4>1, Zenon DEF SameRequest
    <3> QED
      BY <3>6, <3>7, Zenon
  <2> QED
    BY <1>1, <1>4, <2>9, <2>10, HistoryRecord, Zenon
<1> QED
  BY <1>3, <1>4, Zenon DEF ServeRequest

\* One turn of park_start_waiting().
LEMMA HistoryWaiting ==
    ASSUME TypeOK, ConnsInv, RecordsInv, HistoryInv, NEW kind \in Kinds, ParkStartWaiting(kind)
    PROVE  HistoryInv'
<1>1. RequestsAreDistinct /\ NotDoneYet /\ UNCHANGED <<requests, answers>>
  BY Zenon DEF HistoryInv, ParkStartWaiting
<1>2. CASE WaitingEnds(kind)
  <2>1. UNCHANGED <<conn, rec, forks>>
    BY <1>2, Zenon DEF WaitingEnds
  <2> QED
    BY <1>1, <2>1, HistoryDrops, Zenon
<1>3. ASSUME NEW r \in Records, NEW x \in Record, x = rec[r], WaitingFails(kind, r, x)
      PROVE  HistoryInv'
  <2>1. PICK c \in Conns \cup {NULL}, job \in Jobs :
            /\ x.cc = c /\ x.job = job
            /\ IF c = NULL THEN conn' = conn
               ELSE \E v \in Conn : conn' = [conn EXCEPT ![c] = v] /\ Released(v, conn[c], job)
    BY <1>3, FailsShape, Zenon
  <2>2. rec' = [rec EXCEPT ![r] = Freed] /\ forks' = forks /\ rec[r].cc = c /\ rec[r].job = job
    BY <1>3, <2>1, Zenon DEF WaitingFails
  <2> QED
    BY <1>1, <2>1, <2>2, HistoryRelease, Zenon
<1>4. ASSUME NEW r \in Records, NEW x \in Record, queue[kind] # <<>>, r = Head(queue[kind]),
             x = rec[r], WaitingStarts(kind, r, x)
      PROVE  HistoryInv'
  <2>1. x.live /\ ~x.running
    BY <1>4, HeadWaits, Zenon DEF Waits
  <2>2. PICK y \in Record : /\ y = [x EXCEPT !.running = TRUE] /\ y.running /\ y.live = x.live
                            /\ y.job = x.job /\ y.cc = x.cc /\ y.req = x.req
    BY Started, Zenon
  <2>3. /\ rec' = [rec EXCEPT ![r] = y] /\ conn' = conn
        /\ forks' = IF x.req = 0 THEN forks ELSE [forks EXCEPT ![x.req][Stage(x.job)] = @ + 1]
    BY <1>4, <2>2, Zenon DEF WaitingStarts, ParkStart
  <2>4. \/ forks' = forks
        \/ y.running /\ y.req # 0 /\ forks' = [forks EXCEPT ![y.req][Stage(y.job)] = @ + 1]
    BY <2>2, <2>3, Zenon
  <2>5. y.req # 0 => forks[y.req][Stage(y.job)] = 0
    <3>1. WaitingIsFresh(r)
      BY <1>1, ZenonT(60) DEF NotDoneYet
    <3>2. x.req # 0 => forks[x.req][Stage(x.job)] = 0
      BY <1>4, <2>1, <3>1 DEF WaitingIsFresh
    <3> QED
      BY <2>2, <3>2, Zenon
  <2>6. y.req <= requests /\ y.live /\ y.job = rec[r].job /\ y.req = rec[r].req /\ y.cc = rec[r].cc
    <3>1. rec[r].req <= requests
      BY <1>1, Zenon DEF RequestsAreDistinct
    <3>2. y.live /\ y.job = rec[r].job /\ y.req = rec[r].req /\ y.cc = rec[r].cc
      BY <1>4, <2>1, <2>2, Zenon
    <3> QED
      BY <3>1, <3>2, Zenon
  <2>7. \A s \in Records : s # r /\ rec[s].live /\ y.req # 0 => rec[s].req # y.req
    <3> SUFFICES ASSUME NEW s \in Records, s # r, rec[s].live, y.req # 0, rec[s].req = y.req
                 PROVE  FALSE
      BY Zenon
    <3>1. rec[r].live /\ rec[r].req # 0 /\ rec[r].req = rec[s].req
      BY <1>4, <2>1, <2>6, Zenon
    <3> QED
      BY <1>1, <3>1, Zenon DEF RequestsAreDistinct
  <2>8. Begins(r, y)
    BY <2>3, <2>4, <2>5, <2>6, <2>7, Zenon DEF Begins
  <2>9. ASSUME NEW d \in Conns, y.req # 0, conn[d].req = y.req
        PROVE  y.cc = d /\ conn[d].park = r
    <3>1. rec[r].cc = d
      BY <1>1, <1>4, <2>1, <2>6, <2>9 DEF RequestsAreDistinct
    <3>2. conn[d].park = r
      BY <3>1, Zenon DEF ConnsInv, ResultsReachTheirRequest
    <3> QED
      BY <2>6, <3>1, <3>2, Zenon
  <2>10. ParksBehind(r, y)
    BY <2>3, <2>9, Zenon DEF ParksBehind, SameRequest
  <2> QED
    BY <1>1, <2>8, <2>10, HistoryRecord, Zenon
<1> QED
  BY <1>2, <1>3, <1>4, WaitingOutcomes, Zenon

LEMMA HistoryDaemonJob ==
    ASSUME TypeOK, ConnsInv, HistoryInv, NEW job \in DaemonJobs, DaemonJob(job)
    PROVE  HistoryInv'
<1>1. UNCHANGED <<conn, requests, answers>>
  BY Zenon DEF DaemonJob
<1>2. job \in Jobs
  BY JobsAreJobs, Zenon
<1>3. PICK x \in Record : x = ParkNew(job, NULL) /\ x.live /\ x.req = 0
  <2>1. NULL \in Conns \cup {NULL}
    BY Zenon
  <2>2. ParkNew(job, NULL) \in Record /\ ParkNew(job, NULL).live
    BY <1>2, <2>1, ParkNewType, Zenon
  <2>3. ParkNew(job, NULL).req = 0
    BY DEF ParkNew
  <2> QED
    BY <2>2, <2>3, Zenon
<1>4. PICK r \in Records : SubmitStarts(r, x) \/ SubmitQueues(r, x)
  BY <1>3, Zenon DEF DaemonJob
<1>5. forks' = forks
  BY <1>3, <1>4, Zenon DEF SubmitStarts, SubmitQueues, ParkStart
<1>6. PICK y \in Record : rec' = [rec EXCEPT ![r] = y] /\ y.live = x.live /\ y.req = x.req
  <2>1. PICK z \in Record : z = [x EXCEPT !.running = TRUE] /\ z.live = x.live /\ z.req = x.req
    BY Started, Zenon
  <2>2. rec' = [rec EXCEPT ![r] = z] \/ rec' = [rec EXCEPT ![r] = x]
    BY <1>4, <2>1, Zenon DEF SubmitStarts, SubmitQueues, ParkStart
  <2> QED
    BY <2>1, <2>2, Zenon
<1>7. y.live /\ y.req = 0 /\ ~rec[r].live
  BY <1>3, <1>4, <1>6, Zenon DEF SubmitStarts, SubmitQueues, Unused
<1>8. y.req <= requests
  BY <1>7, ReqType
<1>9. Begins(r, y)
  BY <1>5, <1>6, <1>7, <1>8, Zenon DEF Begins
<1>10. ParksBehind(r, y)
  BY <1>1, <1>7, Zenon DEF ParksBehind, SameRequest
<1> QED
  BY <1>1, <1>9, <1>10, HistoryRecord, Zenon

LEMMA HistoryStep ==
    ASSUME PInv, HistoryInv, [Next]_vars
    PROVE  HistoryInv'
<1>0. TypeOK /\ RecordsInv /\ ConnsInv
  BY Zenon DEF PInv
<1>1. ASSUME UNCHANGED <<conn, rec, requests, forks, answers>> PROVE HistoryInv'
  BY <1>0, <1>1, HistoryDrops, Zenon
<1>2. CASE UNCHANGED vars
  BY <1>1, <1>2, Zenon DEF vars
<1>3. CASE Poll
  BY <1>1, <1>3, Zenon DEF Poll
<1>4. CASE EndBatch
  <2>1. UNCHANGED <<rec, requests, forks, answers>>
    BY <1>4, Zenon DEF EndBatch
  <2>2. \A c \in Conns : conn'[c] = conn[c] \/ conn'[c] = NoConn
    BY <1>4, Zenon DEF EndBatch
  <2>3. NoConn.kind # "client" /\ NoConn.req = 0
    BY DEF NoConn
  <2>4. \A c \in Conns : conn'[c] = conn[c] \/ (conn'[c].kind # "client" /\ conn'[c].req = 0)
    BY <2>2, <2>3, Zenon
  <2> QED
    BY <1>0, <2>1, <2>4, HistoryDrops, Zenon
<1>5. ASSUME NEW c \in Conns, SkipDead(c) \/ ResumeOutput(c) \/ ParkedRead(c) PROVE HistoryInv'
  <2>1. Nothing \/ ClientConnTeardown(c)
    BY <1>5, Zenon DEF SkipDead, ResumeOutput, ParkedRead
  <2> QED
    BY <1>0, <1>1, <2>1, HistoryTeardown, Zenon DEF Nothing
<1>6. ASSUME NEW c \in Conns, ReadRequest(c) PROVE HistoryInv'
  <2>1. conn[c].kind = "client" /\ conn[c].park = NULL /\ ~conn[c].out
    BY <1>6, Zenon DEF ReadRequest
  <2>2. CASE Nothing
    BY <1>1, <2>2, Zenon DEF Nothing
  <2>3. CASE ClientConnTeardown(c)
    BY <1>0, <2>3, HistoryTeardown, Zenon
  <2>4. CASE /\ ClientConnFinish(c, conn) /\ UNCHANGED <<requests, forks, rec>>
             /\ answers' = [answers EXCEPT ![conn[c].req] = @ + 1]
    <3>1. PICK v : AnswerShape(c, v)
      BY <1>0, <2>4, FinishIsAnswer, Zenon
    <3> QED
      BY <1>0, <2>1, <2>4, <3>1, HistoryAnswer, Zenon
  <2>5. CASE UNCHANGED <<conn, rec, requests, forks, answers>>
    BY <1>1, <2>5, Zenon
  <2> QED
    BY <1>6, <2>2, <2>3, <2>4, <2>5, Zenon DEF ReadRequest
<1>7. ASSUME NEW r \in Records, HelperDone(r) PROVE HistoryInv'
  <2>1. rec' = [rec EXCEPT ![r] = Freed] /\ UNCHANGED <<requests, forks, answers>>
    BY <1>7, Zenon DEF HelperDone
  <2>2. PICK c \in Conns \cup {NULL}, job \in Jobs :
            /\ rec[r].cc = c /\ rec[r].job = job
            /\ IF c = NULL THEN conn' = conn
               ELSE \E v \in Conn : conn' = [conn EXCEPT ![c] = v] /\ Released(v, conn[c], job)
    BY <1>0, <1>7, DoneShape, Zenon
  <2> QED
    BY <1>0, <2>1, <2>2, HistoryRelease, Zenon
<1>8. ASSUME NEW c \in Conns, ServeRequest(c) PROVE HistoryInv'
  BY <1>0, <1>8, HistoryServe, Zenon
<1>9. ASSUME NEW kind \in Kinds, ParkStartWaiting(kind) PROVE HistoryInv'
  BY <1>0, <1>9, HistoryWaiting, Zenon
<1>10. ASSUME NEW c \in Conns, Accept(c) PROVE HistoryInv'
  BY <1>0, <1>10, HistoryAccept, Zenon
<1>11. ASSUME NEW job \in DaemonJobs, DaemonJob(job) PROVE HistoryInv'
  BY <1>0, <1>11, HistoryDaemonJob, Zenon
<1>12. ASSUME NEW r \in Records, HelperExits(r) PROVE HistoryInv'
  BY <1>1, <1>12, Zenon DEF HelperExits
<1> QED
  BY <1>2, <1>3, <1>4, <1>5, <1>6, <1>7, <1>8, <1>9, <1>10, <1>11, <1>12, Zenon
     DEF Next, Event, Handler

LEMMA HistoryInit == Init => HistoryInv
<1> SUFFICES ASSUME Init PROVE HistoryInv
  OBVIOUS
<1>1. /\ \A c \in Conns : conn[c] = NoConn
      /\ \A r \in Records : rec[r] = Freed
      /\ requests = 0
      /\ \A n \in Requests : answers[n] = 0 /\ \A stage \in Stages : forks[n][stage] = 0
  BY Zenon DEF Init
<1>2. NoConn.req = 0 /\ NoConn.kind # "client"
  BY DEF NoConn
<1>3. Freed.req = 0 /\ ~Freed.live
  BY DEF Freed
<1>4. 0 <= 0 /\ 0 <= 1
  OBVIOUS
<1>5. RequestsAreDistinct
  BY <1>1, <1>2, <1>3, <1>4, Zenon DEF RequestsAreDistinct
<1>6. NotDoneYet
  BY <1>1, <1>2, <1>3, Zenon DEF NotDoneYet, WaitingIsFresh, ClientIsFresh
<1>7. WorkIsDoneOnce
  BY <1>1, <1>4, Zenon DEF WorkIsDoneOnce
<1> QED
  BY <1>5, <1>6, <1>7, Zenon DEF HistoryInv

-----------------------------------------------------------------------------
(* Requests as HelpedRequests sees them                                    *)

\* What a connection and a record are to HelpedRequests.
OpenTok(w) == {n \in {w.req} : w.kind = "client"}
LockTok(w) == {n \in {w.req} : w.kind = "client" /\ w.login /\ w.cred # "verified"}
WaitTok(x) == {p \in {<<x.req, Stage(x.job)>>} : x.live /\ ~x.running /\ x.req # 0}
WorkTok(x) == {p \in {<<x.req, Stage(x.job)>>} : x.live /\ x.running /\ x.req # 0}

\* A request shows through its one connection ...
LEMMA ConnMoves ==
    ASSUME TypeOK, RequestsAreDistinct, NEW c \in Conns, NEW v,
           conn' = [conn EXCEPT ![c] = v]
    PROVE  /\ Open' = (Open \ OpenTok(conn[c])) \cup OpenTok(v)
           /\ Locked' = (Locked \ LockTok(conn[c])) \cup LockTok(v)
<1>1. conn'[c] = v /\ \A d \in Conns : d # c => conn'[d] = conn[d]
  BY Zenon DEF TypeOK
<1>2. \A d \in Conns : conn[c].kind = "client" /\ conn[d].req = conn[c].req => d = c
  BY Zenon DEF RequestsAreDistinct
<1>3. \A n : n \in Open <=> \E d \in Conns : conn[d].kind = "client" /\ conn[d].req = n
  BY Zenon DEF Open
<1>4. \A n : n \in Open' <=> \E d \in Conns : conn'[d].kind = "client" /\ conn'[d].req = n
  BY Zenon DEF Open
<1>5. \A n : n \in Locked <=> \E d \in Conns : /\ conn[d].kind = "client" /\ conn[d].req = n
                                               /\ conn[d].login /\ conn[d].cred # "verified"
  BY Zenon DEF Locked
<1>6. \A n : n \in Locked' <=> \E d \in Conns : /\ conn'[d].kind = "client" /\ conn'[d].req = n
                                                /\ conn'[d].login /\ conn'[d].cred # "verified"
  BY Zenon DEF Locked
<1>7. ASSUME NEW n PROVE n \in Open' <=> n \in (Open \ OpenTok(conn[c])) \cup OpenTok(v)
  BY SMTT(30), <1>1, <1>2, <1>3, <1>4 DEF OpenTok
<1>8. ASSUME NEW n PROVE n \in Locked' <=> n \in (Locked \ LockTok(conn[c])) \cup LockTok(v)
  BY SMTT(30), <1>1, <1>2, <1>5, <1>6 DEF LockTok
<1> QED
  BY <1>7, <1>8, Zenon

\* ... and its work through its one record.
LEMMA RecordMoves ==
    ASSUME TypeOK, RequestsAreDistinct, NEW r \in Records, NEW y,
           rec' = [rec EXCEPT ![r] = y]
    PROVE  /\ Waiting' = (Waiting \ WaitTok(rec[r])) \cup WaitTok(y)
           /\ Working' = (Working \ WorkTok(rec[r])) \cup WorkTok(y)
<1>1. rec'[r] = y /\ \A s \in Records : s # r => rec'[s] = rec[s]
  BY Zenon DEF TypeOK
<1>2. \A s \in Records : rec[r].live /\ rec[s].live /\ rec[r].req # 0 /\ rec[s].req = rec[r].req => s = r
  BY Zenon DEF RequestsAreDistinct
<1>3. \A p : p \in Waiting <=> \E s \in Records : /\ rec[s].live /\ ~rec[s].running /\ rec[s].req # 0
                                                  /\ p = <<rec[s].req, Stage(rec[s].job)>>
  BY Zenon DEF Waiting, Tokens
<1>4. \A p : p \in Waiting' <=> \E s \in Records : /\ rec'[s].live /\ ~rec'[s].running /\ rec'[s].req # 0
                                                   /\ p = <<rec'[s].req, Stage(rec'[s].job)>>
  BY Zenon DEF Waiting, Tokens
<1>5. \A p : p \in Working <=> \E s \in Records : /\ rec[s].live /\ rec[s].running /\ rec[s].req # 0
                                                  /\ p = <<rec[s].req, Stage(rec[s].job)>>
  BY Zenon DEF Working, Tokens
<1>6. \A p : p \in Working' <=> \E s \in Records : /\ rec'[s].live /\ rec'[s].running /\ rec'[s].req # 0
                                                   /\ p = <<rec'[s].req, Stage(rec'[s].job)>>
  BY Zenon DEF Working, Tokens
<1>7. \A a, b, d, e : <<a, b>> = <<d, e>> => a = d
  OBVIOUS
<1>8. ASSUME NEW p PROVE p \in Waiting' <=> p \in (Waiting \ WaitTok(rec[r])) \cup WaitTok(y)
  BY SMTT(30), <1>1, <1>2, <1>3, <1>4, <1>7 DEF WaitTok
<1>9. ASSUME NEW p PROVE p \in Working' <=> p \in (Working \ WorkTok(rec[r])) \cup WorkTok(y)
  BY SMTT(30), <1>1, <1>2, <1>5, <1>6, <1>7 DEF WorkTok
<1> QED
  BY <1>8, <1>9, Zenon

\* Connections that stay as they are leave the requests open and locked as they are ...
LEMMA ConnsStay == conn' = conn => Open' = Open /\ Locked' = Locked
BY Zenon DEF Open, Locked

\* ... records, what waits and works ...
LEMMA RecordsStay == rec' = rec => Waiting' = Waiting /\ Working' = Working
BY Zenon DEF Waiting, Working, Tokens

\* ... and the history, what was begun and answered.
LEMMA HistoryStays ==
    /\ forks' = forks => Begun' = Begun
    /\ answers' = answers => Answered' = Answered
BY Zenon DEF Begun, Answered

\* A step of the loop's own bookkeeping is no step of HelpedRequests.
LEMMA QuietSteps ==
    ASSUME UNCHANGED <<conn, rec, requests, forks, answers>>
    PROVE  UNCHANGED H!vars
BY ConnsStay, RecordsStay, HistoryStays, Zenon DEF H!vars

\* Only an open request is locked.
LEMMA LockedIsOpen == Locked \subseteq Open
BY Zenon DEF Locked, Open

\* Connections end, and their requests with them.
LEMMA ConnsEnd ==
    ASSUME TypeOK, RequestsAreDistinct,
           \A d \in Conns : conn'[d] = conn[d] \/ conn'[d].kind # "client"
    PROVE  /\ Open' \subseteq Open /\ Locked' = Locked \cap Open'
           /\ \A n \in Open \ Open' :
                \E d \in Conns : conn[d].kind = "client" /\ conn[d].req = n /\ conn'[d] # conn[d]
<1>1. \A n : n \in Open <=> \E d \in Conns : conn[d].kind = "client" /\ conn[d].req = n
  BY Zenon DEF Open
<1>2. \A n : n \in Open' <=> \E d \in Conns : conn'[d].kind = "client" /\ conn'[d].req = n
  BY Zenon DEF Open
<1>3. \A n : n \in Locked <=> \E d \in Conns : /\ conn[d].kind = "client" /\ conn[d].req = n
                                               /\ conn[d].login /\ conn[d].cred # "verified"
  BY Zenon DEF Locked
<1>4. \A n : n \in Locked' <=> \E d \in Conns : /\ conn'[d].kind = "client" /\ conn'[d].req = n
                                                /\ conn'[d].login /\ conn'[d].cred # "verified"
  BY Zenon DEF Locked
<1>5. \A d, e \in Conns : conn[d].kind = "client" /\ conn[e].req = conn[d].req => d = e
  BY Zenon DEF RequestsAreDistinct
<1>0. \A d \in Conns : conn'[d].kind = "client" =>
            /\ conn[d].kind = "client" /\ conn[d].req = conn'[d].req
            /\ conn[d].login = conn'[d].login /\ conn[d].cred = conn'[d].cred
  BY SMTT(30)
<1>6. Open' \subseteq Open
  BY <1>0, <1>1, <1>2, SMTT(30)
<1>7. ASSUME NEW n PROVE n \in Locked' <=> n \in Locked /\ n \in Open'
  <2>1. ASSUME n \in Locked' PROVE n \in Locked /\ n \in Open'
    BY <1>0, <1>2, <1>3, <1>4, <2>1, SMTT(30)
  <2>2. ASSUME n \in Locked, n \in Open' PROVE n \in Locked'
    <3>1. PICK d \in Conns : /\ conn[d].kind = "client" /\ conn[d].req = n
                            /\ conn[d].login /\ conn[d].cred # "verified"
      BY <1>3, <2>2, Zenon
    <3>2. PICK e \in Conns : conn'[e].kind = "client" /\ conn'[e].req = n
      BY <1>2, <2>2, Zenon
    <3>3. conn'[e] = conn[e]
      BY <3>2, Zenon
    <3>4. d = e
      BY <1>5, <3>1, <3>2, <3>3
    <3> QED
      BY <1>4, <3>1, <3>2, <3>3, <3>4, Zenon
  <2> QED
    BY <2>1, <2>2, Zenon
<1>8. ASSUME NEW n \in Open \ Open'
      PROVE  \E d \in Conns : conn[d].kind = "client" /\ conn[d].req = n /\ conn'[d] # conn[d]
  <2>1. PICK d \in Conns : conn[d].kind = "client" /\ conn[d].req = n
    BY <1>1, Zenon
  <2>2. conn'[d] # conn[d]
    BY <1>2, <2>1, Zenon
  <2> QED
    BY <2>1, <2>2, Zenon
<1> QED
  BY <1>6, <1>7, <1>8, Zenon

\* A request that is not parked has no record.
LEMMA NotParkedNotBusy ==
    ASSUME TypeOK, ConnsInv, RequestsAreDistinct, NEW c \in Conns, conn[c].kind = "client",
           conn[c].park = NULL, NEW n \in Requests, n = conn[c].req
    PROVE  /\ \A r \in Records : rec[r].live => rec[r].req # n
           /\ ~H!Busy(n)
<1>1. conn[c].req # 0
  BY Zenon DEF RequestsAreDistinct
<1>2. ASSUME NEW r \in Records, rec[r].live, rec[r].req = n PROVE FALSE
  <2>1. rec[r].cc = c
    BY <1>1, <1>2, Zenon DEF RequestsAreDistinct
  <2>2. conn[c].park = r
    BY <2>1, Zenon DEF ConnsInv, ResultsReachTheirRequest
  <2> QED
    BY <2>2, AddressAssumption, Zenon
<1>3. \A a, b, d, e : <<a, b>> = <<d, e>> => a = d
  OBVIOUS
<1>4. \A stage : <<n, stage>> \notin Waiting \cup Working
  BY <1>2, <1>3, ZenonT(60) DEF Waiting, Working, Tokens
<1> QED
  BY <1>2, <1>4, ZenonT(60) DEF H!Busy

-----------------------------------------------------------------------------
(* Each action is a step of HelpedRequests, or none                        *)

\* The actions of HelpedRequests are steps of its Next.
LEMMA NextAnswers == ASSUME NEW n \in Requests, H!Answer(n) \/ H!Leave(n) PROVE H!Next
BY Zenon DEF H!Next, H!Requests, Requests

LEMMA NextWorks ==
    ASSUME NEW n \in Requests, NEW s \in Stages,
           H!Wait(n, s) \/ H!Begin(n, s) \/ H!GiveUp(n, s) \/ H!Finish(n, s)
    PROVE  H!Next
BY Zenon DEF H!Next, H!Requests, Requests, H!Stages, Stages

\* A response is written.
LEMMA RequestsAnswer ==
    ASSUME TypeOK, ConnsInv, HistoryInv, UNCHANGED <<requests, forks, rec>>, NEW c \in Conns, NEW v,
           AnswerShape(c, v), conn[c].kind = "client", conn[c].park = NULL, ~conn[c].out,
           answers' = [answers EXCEPT ![conn[c].req] = @ + 1]
    PROVE  H!Next
<1>1. RequestsAreDistinct /\ NotDoneYet
  BY Zenon DEF HistoryInv
<1>2. PICK n \in Requests : n = conn[c].req /\ answers[n] = 0
  <2>1. conn[c].req # 0
    BY <1>1, Zenon DEF RequestsAreDistinct
  <2>2. answers[conn[c].req] = 0
    BY <1>1, Zenon DEF NotDoneYet, ClientIsFresh
  <2> QED
    BY <2>1, <2>2, ReqType, Zenon
<1>3. Answered' = Answered \cup {n} /\ n \notin Answered
  <2>1. answers' = [answers EXCEPT ![n] = @ + 1] /\ answers \in [Requests -> Nat]
    BY <1>2, Zenon DEF TypeOK
  <2>2. \A m \in Requests : answers'[m] > 0 <=> answers[m] > 0 \/ m = n
    BY SMTT(30), <2>1
  <2>3. ~(answers[n] > 0)
    BY SMTT(30), <1>2
  <2> QED
    BY <2>2, <2>3, Zenon DEF Answered
<1>4. ~H!Busy(n)
  BY <1>1, <1>2, NotParkedNotBusy, Zenon
<1>5. OpenTok(conn[c]) = {n}
  BY <1>2, Zenon DEF OpenTok
<1>6. n \in Open
  BY <1>2, Zenon DEF Open
<1>7. conn' = [conn EXCEPT ![c] = v]
  BY Zenon DEF AnswerShape
<1>8. /\ Open' = (Open \ {n}) \cup OpenTok(v)
      /\ Locked' = (Locked \ LockTok(conn[c])) \cup LockTok(v)
  BY <1>1, <1>5, <1>7, ConnMoves, Zenon
<1>9. conn'[c] = v /\ \A d \in Conns : d # c => conn'[d] = conn[d]
  BY <1>7, Zenon DEF TypeOK
<1>10. Open' \in {Open, Open \ {n}} /\ Locked' = Locked \cap Open'
  <2>1. CASE v.kind # "client"
    <3>1. OpenTok(v) = {}
      BY <2>1, Zenon DEF OpenTok
    <3>2. \A d \in Conns : conn'[d] = conn[d] \/ conn'[d].kind # "client"
      BY <1>9, <2>1, Zenon
    <3> QED
      BY <1>1, <1>8, <3>1, <3>2, ConnsEnd, Zenon
  <2>2. CASE v.kind = "client" /\ v.req = conn[c].req
    <3>1. v.login = conn[c].login /\ v.cred = conn[c].cred
      BY <2>2, Zenon DEF AnswerShape
    <3>2. OpenTok(v) = {n} /\ LockTok(v) = LockTok(conn[c])
      BY <1>2, <2>2, <3>1, Zenon DEF OpenTok, LockTok
    <3>3. LockTok(conn[c]) \subseteq Locked
      BY Zenon DEF LockTok, Locked
    <3> QED
      BY <1>6, <1>8, <3>2, <3>3, LockedIsOpen, Zenon
  <2>3. v.kind # "client" \/ (v.kind = "client" /\ v.req = conn[c].req)
    BY DEF AnswerShape
  <2> QED
    BY <2>1, <2>2, <2>3, Zenon
<1>11. Waiting' = Waiting /\ Working' = Working /\ Begun' = Begun
  BY RecordsStay, HistoryStays, Zenon
<1>12. H!Answer(n)
  BY <1>3, <1>4, <1>6, <1>10, <1>11, Zenon DEF H!Answer
<1> QED
  BY <1>12, NextAnswers, Zenon

\* accept_loop()
LEMMA RequestsAccept ==
    ASSUME TypeOK, HistoryInv, NEW c \in Conns, Accept(c)
    PROVE  H!Next
<1>1. RequestsAreDistinct
  BY Zenon DEF HistoryInv
<1>2. UNCHANGED <<rec, forks, answers>> /\ conn[c].kind = "none"
  BY Zenon DEF Accept
<1>3. requests' = requests + 1 /\ requests < MaxRequests
  BY Zenon DEF Accept
<1>4. PICK v \in Conn :
        conn' = [conn EXCEPT ![c] = v] /\ v.kind = "client" /\ v.req = requests + 1
  BY AcceptShape, Zenon
<1>5. OpenTok(conn[c]) = {} /\ LockTok(conn[c]) = {}
  BY <1>2 DEF OpenTok, LockTok
<1>6. OpenTok(v) = {requests + 1} /\ LockTok(v) \in {{}, {requests + 1}}
  BY <1>4, ZenonT(60) DEF OpenTok, LockTok
<1>7. /\ Open' = (Open \ {}) \cup {requests + 1}
      /\ Locked' = (Locked \ {}) \cup LockTok(v)
  BY <1>1, <1>4, <1>5, <1>6, ConnMoves, Zenon
<1>8. Open' = Open \cup {requests + 1} /\ Locked' \in {Locked, Locked \cup {requests + 1}}
  BY <1>6, <1>7, ZenonT(60)
<1>9. UNCHANGED <<Waiting, Working, Begun, Answered>>
  BY <1>2, RecordsStay, HistoryStays, Zenon
<1> QED
  BY <1>3, <1>8, <1>9, Zenon DEF H!Next, H!Arrive

\* client_conn_teardown()
LEMMA RequestsTeardown ==
    ASSUME TypeOK, ConnsInv, HistoryInv, NEW c \in Conns, ClientConnTeardown(c),
           conn[c].kind = "client"
    PROVE  H!Next
<1>1. RequestsAreDistinct /\ UNCHANGED <<requests, forks, answers>>
  BY Zenon DEF HistoryInv, ClientConnTeardown
<1>2. PICK n \in Requests : n = conn[c].req
  BY <1>1, ReqType, Zenon DEF RequestsAreDistinct
<1>3. PICK v \in Conn : conn' = [conn EXCEPT ![c] = v] /\ v.kind # "client"
  <2>1. PICK v \in Conn : conn' = [conn EXCEPT ![c] = v] /\ v.kind \in {"none", "dead"}
    BY TeardownShape, Zenon
  <2>2. v.kind # "client"
    BY <2>1
  <2> QED
    BY <2>1, <2>2, Zenon
<1>4. Open' = Open \ {n} /\ n \in Open
  <2>1. OpenTok(conn[c]) = {n} /\ OpenTok(v) = {}
    BY <1>2, <1>3, Zenon DEF OpenTok
  <2>2. Open' = (Open \ {n}) \cup {}
    BY <1>1, <1>3, <2>1, ConnMoves, Zenon
  <2>3. n \in Open
    BY <1>2, Zenon DEF Open
  <2> QED
    BY <2>2, <2>3, Zenon
<1>5. Locked' = Locked \cap Open'
  <2>1. conn'[c] = v /\ \A d \in Conns : d # c => conn'[d] = conn[d]
    BY <1>3, Zenon DEF TypeOK
  <2>2. \A d \in Conns : conn'[d] = conn[d] \/ conn'[d].kind # "client"
    BY <1>3, <2>1, Zenon
  <2> QED
    BY <1>1, <2>2, ConnsEnd, Zenon
<1>6. Waiting' \in {Waiting, {p \in Waiting : p[1] # n}} /\ Working' = Working
  <2>1. CASE conn[c].park = NULL
    BY <2>1, RecordsStay, Zenon DEF ClientConnTeardown
  <2>2. CASE conn[c].park # NULL
    <3>1. PICK r \in Records : r = conn[c].park
      BY <2>2 DEF TypeOK, Conn
    <3>2. ParkAbandon(r)
      BY <2>2, <3>1, Zenon DEF ClientConnTeardown
    <3>3. rec[r].live /\ rec[r].req = n /\ n # 0
      <4>1. rec[r].live /\ rec[r].cc = c
        BY <3>1, Zenon DEF ConnsInv, ResultsReachTheirRequest
      <4>2. conn[c].req = rec[r].req
        BY <4>1, SMTT(30) DEF ConnsInv, ResultsReachTheirRequest
      <4>3. conn[c].req # 0
        BY <1>1, Zenon DEF RequestsAreDistinct
      <4> QED
        BY <1>2, <4>1, <4>2, <4>3, Zenon
    <3>4. PICK x \in Record :
            /\ rec' = [rec EXCEPT ![r] = x]
            /\ \/ /\ x.live = rec[r].live /\ x.running = rec[r].running
                  /\ x.job = rec[r].job /\ x.req = rec[r].req
               \/ ~rec[r].running /\ x = Freed
      BY <3>2, ParkAbandonShape, Zenon
    <3>5. /\ Waiting' = (Waiting \ WaitTok(rec[r])) \cup WaitTok(x)
          /\ Working' = (Working \ WorkTok(rec[r])) \cup WorkTok(x)
      BY <1>1, <3>4, RecordMoves, Zenon
    <3>6. WaitTok(rec[r]) \subseteq Waiting /\ WorkTok(rec[r]) \subseteq Working
      BY Zenon DEF WaitTok, WorkTok, Waiting, Working, Tokens
    <3>7. CASE x.live = rec[r].live /\ x.running = rec[r].running
               /\ x.job = rec[r].job /\ x.req = rec[r].req
      <4>1. WaitTok(x) = WaitTok(rec[r]) /\ WorkTok(x) = WorkTok(rec[r])
        BY <3>7, Zenon DEF WaitTok, WorkTok
      <4> QED
        BY <3>5, <3>6, <4>1, Zenon
    <3>8. CASE ~rec[r].running /\ x = Freed
      <4>1. WaitTok(x) = {} /\ WorkTok(x) = {}
        BY <3>8 DEF WaitTok, WorkTok, Freed
      <4>2. WorkTok(rec[r]) = {} /\ WaitTok(rec[r]) = {<<n, Stage(rec[r].job)>>}
        BY <3>3, <3>8, Zenon DEF WaitTok, WorkTok
      <4>3. Working' = Working
        BY <3>5, <4>1, <4>2, Zenon
      <4>4. Waiting' = Waiting \ {<<n, Stage(rec[r].job)>>}
        BY <3>5, <4>1, <4>2, Zenon
      <4>5. ASSUME NEW p \in Waiting PROVE p[1] # n <=> p # <<n, Stage(rec[r].job)>>
        <5>1. PICK q \in Records : /\ rec[q].live /\ rec[q].req # 0
                                   /\ p = <<rec[q].req, Stage(rec[q].job)>>
          BY <4>5, Zenon DEF Waiting, Tokens
        <5>2. rec[q].req = n => q = r
          BY <1>1, <3>3, <5>1, Zenon DEF RequestsAreDistinct
        <5>3. p[1] = rec[q].req
          BY <5>1
        <5> QED
          BY <5>1, <5>2, <5>3
      <4>6. Waiting' = {p \in Waiting : p[1] # n}
        BY <4>4, <4>5, Zenon
      <4> QED
        BY <4>3, <4>6, Zenon
    <3> QED
      BY <3>4, <3>7, <3>8, Zenon
  <2> QED
    BY <2>1, <2>2, Zenon
<1>7. UNCHANGED <<requests, Begun, Answered>>
  BY <1>1, HistoryStays, Zenon
<1>8. H!Leave(n)
  BY <1>4, <1>5, <1>6, <1>7, Zenon DEF H!Leave
<1> QED
  BY <1>8, NextAnswers, Zenon

\* What a record and what has been forked become when a child is started for a
\* request: a token of it starts to work.
LEMMA BegunGrows ==
    ASSUME TypeOK, NEW n \in Requests, NEW s \in Stages,
           forks' = [forks EXCEPT ![n][s] = @ + 1]
    PROVE  Begun' = Begun \cup {<<n, s>>}
<1>1. forks \in [Requests -> [Stages -> Nat]]
  BY Zenon DEF TypeOK
<1>2. \A m \in Requests, t \in Stages : forks'[m][t] > 0 <=> forks[m][t] > 0 \/ (m = n /\ t = s)
  BY <1>1, SMTT(30)
<1>3. \A p \in Requests \X Stages :
        p[1] \in Requests /\ p[2] \in Stages /\ (p = <<n, s>> <=> p[1] = n /\ p[2] = s)
  BY SMTT(30)
<1>4. <<n, s>> \in Requests \X Stages
  BY SMTT(30)
<1>5. \A p \in Requests \X Stages : forks'[p[1]][p[2]] > 0 <=> forks[p[1]][p[2]] > 0 \/ p = <<n, s>>
  BY <1>2, <1>3, ZenonT(60)
<1> QED
  BY <1>4, <1>5, ZenonT(60) DEF Begun

\* What was never forked for a request has not begun.
LEMMA FreshIsNotBegun ==
    ASSUME NEW n \in Requests, NEW s \in Stages, forks[n][s] = 0
    PROVE  <<n, s>> \notin Begun
<1>1. <<n, s>>[1] = n /\ <<n, s>>[2] = s /\ ~(0 > 0)
  BY SMTT(30)
<1> QED
  BY <1>1, ZenonT(60) DEF Begun

\* serve_request() parks the request behind the next job it needs.
LEMMA RequestsSubmit ==
    ASSUME TypeOK, ConnsInv, HistoryInv, NEW c \in Conns, NextJob(c) # "none", NEW r \in Records,
           SubmitStarts(r, ParkNew(NextJob(c), c)) \/ SubmitQueues(r, ParkNew(NextJob(c), c)),
           conn' = [conn EXCEPT ![c].park = r], UNCHANGED <<requests, answers>>,
           conn[c].kind = "client", conn[c].park = NULL, ~conn[c].out
    PROVE  H!Next
<1>1. RequestsAreDistinct /\ NotDoneYet
  BY Zenon DEF HistoryInv
<1>2. PICK n \in Requests : n = conn[c].req /\ n # 0 /\ answers[n] = 0
  <2>1. conn[c].req # 0
    BY <1>1, Zenon DEF RequestsAreDistinct
  <2>2. answers[conn[c].req] = 0
    BY <1>1, Zenon DEF NotDoneYet, ClientIsFresh
  <2> QED
    BY <2>1, <2>2, ReqType, Zenon
<1>3. PICK job \in Jobs : job = NextJob(c)
  BY NextJobType, Zenon
<1>4. PICK s \in Stages : s = Stage(job) /\ (s = "check" <=> job = "check")
  BY StageType, Zenon
<1>5. PICK x \in Record :
        /\ x = ParkNew(job, c) /\ x.live /\ ~x.running /\ x.job = job /\ x.req = n
  <2>1. c \in Conns \cup {NULL} /\ c # NULL
    BY AddressAssumption, Zenon
  <2>2. /\ ParkNew(job, c) \in Record /\ ParkNew(job, c).live /\ ~ParkNew(job, c).running
        /\ ParkNew(job, c).job = job
    BY <2>1, ParkNewType, ZenonT(60)
  <2>3. ParkNew(job, c).req = n
    BY <1>2, <2>1 DEF ParkNew
  <2> QED
    BY <2>2, <2>3, Zenon
<1>6. SubmitStarts(r, x) \/ SubmitQueues(r, x)
  BY <1>3, <1>5, Zenon
<1>7. ~rec[r].live
  BY <1>6, Zenon DEF SubmitStarts, SubmitQueues, Unused
<1>8. Open' = Open /\ Locked' = Locked
  <2>1. PICK w \in Conn : w = conn[c]
    BY Zenon DEF TypeOK
  <2>2. PICK v : v = [w EXCEPT !.park = r]
    BY Zenon
  <2>3. v.kind = w.kind /\ v.req = w.req /\ v.login = w.login /\ v.cred = w.cred
    BY <2>2 DEF Conn
  <2>4. conn' = [conn EXCEPT ![c] = v]
    BY <2>1, <2>2, Zenon
  <2>5. OpenTok(v) = OpenTok(conn[c]) /\ LockTok(v) = LockTok(conn[c])
    BY <2>1, <2>3, Zenon DEF OpenTok, LockTok
  <2>6. OpenTok(conn[c]) \subseteq Open /\ LockTok(conn[c]) \subseteq Locked
    BY Zenon DEF OpenTok, LockTok, Open, Locked
  <2>7. /\ Open' = (Open \ OpenTok(conn[c])) \cup OpenTok(v)
        /\ Locked' = (Locked \ LockTok(conn[c])) \cup LockTok(v)
    BY <1>1, <2>4, ConnMoves, Zenon
  <2> QED
    BY <2>5, <2>6, <2>7, Zenon
<1>9. Answered' = Answered /\ n \in Open \ Answered
  <2>1. ~(0 > 0)
    BY SMTT(30)
  <2>2. n \in Open /\ n \notin Answered
    BY <1>2, <2>1, ZenonT(60) DEF Open, Answered
  <2> QED
    BY <2>2, HistoryStays, Zenon
<1>10. ~H!Busy(n)
  BY <1>1, <1>2, NotParkedNotBusy, Zenon
<1>11. forks[n][s] = 0 /\ (s = "work" => n \notin Locked)
  <2>1. \A stage : HasNotAsked(c, stage)
    BY AddressAssumption, Zenon DEF HasNotAsked
  <2>2. ClientIsFresh(c)
    BY <1>1, Zenon DEF NotDoneYet
  <2>3. CASE conn[c].login /\ conn[c].cred = "unchecked"
    <3>1. s = "check"
      BY <1>3, <1>4, <2>3, Zenon DEF NextJob
    <3>2. s # "work"
      BY <3>1
    <3> QED
      BY <1>2, <2>1, <2>2, <2>3, <3>1, <3>2, Zenon DEF ClientIsFresh
  <2>4. CASE ~(conn[c].login /\ conn[c].cred = "unchecked")
    <3>1. /\ conn[c].body = "none" /\ job = conn[c].job
          /\ conn[c].login => conn[c].cred = "verified"
      BY <1>3, <2>4, Zenon DEF NextJob
    <3>2. conn[c].job \in RequestJobs \cup {"none"}
      BY DEF TypeOK, Conn
    <3>3. s = "work"
      BY <1>4, <3>1, <3>2 DEF Stage, RequestJobs
    <3>4. forks[n][s] = 0
      BY <1>2, <2>1, <2>2, <3>1, <3>3, Zenon DEF ClientIsFresh
    <3>5. n \notin Locked
      <4> SUFFICES ASSUME NEW d \in Conns, conn[d].kind = "client", conn[d].req = n,
                          conn[d].login, conn[d].cred # "verified"
                   PROVE  FALSE
        BY Zenon DEF Locked
      <4>1. d = c
        BY <1>1, <1>2, Zenon DEF RequestsAreDistinct
      <4> QED
        BY <3>1, <4>1, Zenon
    <3> QED
      BY <3>4, <3>5, Zenon
  <2> QED
    BY <2>3, <2>4, Zenon
<1>12. H!MayAsk(n, s)
  <2>1. <<n, s>> \notin Begun
    BY <1>11, FreshIsNotBegun, Zenon
  <2> QED
    BY <1>9, <1>10, <1>11, <2>1, Zenon DEF H!MayAsk
<1>13. WaitTok(rec[r]) = {} /\ WorkTok(rec[r]) = {}
  BY <1>7, Zenon DEF WaitTok, WorkTok
<1>14. CASE SubmitQueues(r, x)
  <2>1. rec' = [rec EXCEPT ![r] = x] /\ forks' = forks
    BY <1>14, Zenon DEF SubmitQueues
  <2>2. WaitTok(x) = {<<n, s>>} /\ WorkTok(x) = {}
    BY <1>2, <1>4, <1>5, ZenonT(60) DEF WaitTok, WorkTok
  <2>3. Waiting' = (Waiting \ {}) \cup {<<n, s>>} /\ Working' = (Working \ {}) \cup {}
    BY <1>1, <1>13, <2>1, <2>2, RecordMoves, Zenon
  <2>4. Waiting' = Waiting \cup {<<n, s>>} /\ Working' = Working /\ Begun' = Begun
    BY <2>1, <2>3, HistoryStays, Zenon
  <2>5. H!Wait(n, s)
    BY <1>8, <1>9, <1>12, <2>4, Zenon DEF H!Wait
  <2> QED
    BY <2>5, NextWorks, Zenon
<1>15. CASE SubmitStarts(r, x)
  <2>1. PICK y \in Record : /\ y = [x EXCEPT !.running = TRUE] /\ y.running /\ y.live = x.live
                            /\ y.job = x.job /\ y.req = x.req
    BY Started, Zenon
  <2>2. rec' = [rec EXCEPT ![r] = y] /\ forks' = [forks EXCEPT ![n][s] = @ + 1]
    BY <1>2, <1>4, <1>5, <1>15, <2>1, Zenon DEF SubmitStarts, ParkStart
  <2>3. WaitTok(y) = {} /\ WorkTok(y) = {<<n, s>>}
    BY <1>2, <1>4, <1>5, <2>1, ZenonT(60) DEF WaitTok, WorkTok
  <2>4. Waiting' = (Waiting \ {}) \cup {} /\ Working' = (Working \ {}) \cup {<<n, s>>}
    BY <1>1, <1>13, <2>2, <2>3, RecordMoves, Zenon
  <2>5. <<n, s>> \notin Waiting
    BY <1>10, Zenon DEF H!Busy, H!Stages, Stages
  <2>6. Waiting' = Waiting \ {<<n, s>>} /\ Working' = Working \cup {<<n, s>>}
    BY <2>4, <2>5, Zenon
  <2>7. Begun' = Begun \cup {<<n, s>>}
    BY <2>2, BegunGrows, Zenon
  <2>8. H!Begin(n, s)
    BY <1>8, <1>9, <1>12, <2>6, <2>7, Zenon DEF H!Begin
  <2> QED
    BY <2>8, NextWorks, Zenon
<1> QED
  BY <1>6, <1>14, <1>15, Zenon

\* A record of cixd's own, or one that is not live, stands for no request's work.
LEMMA NoToken ==
    ASSUME NEW x, ~x.live \/ x.req = 0
    PROVE  WaitTok(x) = {} /\ WorkTok(x) = {}
BY Zenon DEF WaitTok, WorkTok

LEMMA FreedIsNoToken == WaitTok(Freed) = {} /\ WorkTok(Freed) = {}
<1>1. ~Freed.live
  BY DEF Freed
<1> QED
  BY <1>1, NoToken, Zenon

\* kmod_submit_daemon_job() and its like: no request is concerned.
LEMMA RequestsDaemonJob ==
    ASSUME TypeOK, HistoryInv, NEW job \in DaemonJobs, DaemonJob(job)
    PROVE  UNCHANGED H!vars
<1>1. RequestsAreDistinct /\ UNCHANGED <<conn, requests, answers>>
  BY Zenon DEF HistoryInv, DaemonJob
<1>2. PICK x : x = ParkNew(job, NULL)
  BY Zenon
<1>3. PICK y : y = [x EXCEPT !.running = TRUE]
  BY Zenon
<1>4. x.req = 0 /\ y.req = 0
  BY <1>2, <1>3 DEF ParkNew
<1>5. PICK r \in Records : SubmitStarts(r, x) \/ SubmitQueues(r, x)
  BY <1>2, Zenon DEF DaemonJob
<1>6. /\ rec' = [rec EXCEPT ![r] = y] \/ rec' = [rec EXCEPT ![r] = x]
      /\ forks' = forks /\ ~rec[r].live
  BY <1>3, <1>4, <1>5, Zenon DEF SubmitStarts, SubmitQueues, ParkStart, Unused
<1>7. /\ WaitTok(rec[r]) = {} /\ WorkTok(rec[r]) = {}
      /\ WaitTok(x) = {} /\ WorkTok(x) = {} /\ WaitTok(y) = {} /\ WorkTok(y) = {}
  BY <1>4, <1>6, NoToken, Zenon
<1>8. PICK z : rec' = [rec EXCEPT ![r] = z] /\ WaitTok(z) = {} /\ WorkTok(z) = {}
  BY <1>6, <1>7, Zenon
<1>9. Waiting' = (Waiting \ {}) \cup {} /\ Working' = (Working \ {}) \cup {}
  BY <1>1, <1>7, <1>8, RecordMoves, Zenon
<1>10. Waiting' = Waiting /\ Working' = Working
  BY <1>9, Zenon
<1> QED
  BY <1>1, <1>6, <1>10, ConnsStay, HistoryStays, Zenon DEF H!vars

\* What is left of a connection whose record is done with: the request is as open
\* as before, and only a check may have verified its credential.
LEMMA ConnReleased ==
    ASSUME TypeOK, RequestsAreDistinct, NEW c \in Conns, NEW v, NEW job, Released(v, conn[c], job),
           conn' = [conn EXCEPT ![c] = v], NEW n, n = conn[c].req, conn[c].kind = "client",
           job = "check" => conn[c].login /\ conn[c].cred = "unchecked"
    PROVE  /\ Open' = Open
           /\ \/ Locked' = Locked
              \/ job = "check" /\ v.cred = "verified" /\ Locked' = Locked \ {n}
<1>1. v.kind = conn[c].kind /\ v.req = conn[c].req /\ v.login = conn[c].login
      /\ (job # "check" => v.cred = conn[c].cred)
  BY Zenon DEF Released
<1>2. OpenTok(v) = OpenTok(conn[c])
  BY <1>1, Zenon DEF OpenTok
<1>3. OpenTok(conn[c]) \subseteq Open /\ LockTok(conn[c]) \subseteq Locked
  BY Zenon DEF OpenTok, LockTok, Open, Locked
<1>4. /\ Open' = (Open \ OpenTok(conn[c])) \cup OpenTok(v)
      /\ Locked' = (Locked \ LockTok(conn[c])) \cup LockTok(v)
  BY ConnMoves, Zenon
<1>5. CASE job # "check"
  <2>1. LockTok(v) = LockTok(conn[c])
    BY <1>1, <1>5, Zenon DEF LockTok
  <2> QED
    BY <1>2, <1>3, <1>4, <2>1, Zenon
<1>6. CASE job = "check"
  <2>1. conn[c].cred # "verified" /\ conn[c].login
    BY <1>6
  <2>2. LockTok(conn[c]) = {n}
    BY <2>1, Zenon DEF LockTok
  <2>3. LockTok(v) = IF v.cred = "verified" THEN {} ELSE {n}
    BY <1>1, <2>1, ZenonT(60) DEF LockTok
  <2>4. CASE v.cred = "verified"
    BY <1>2, <1>3, <1>4, <1>6, <2>2, <2>3, <2>4, Zenon
  <2>5. CASE v.cred # "verified"
    BY <1>2, <1>3, <1>4, <2>2, <2>3, <2>5, Zenon
  <2> QED
    BY <2>4, <2>5, Zenon
<1> QED
  BY <1>5, <1>6, Zenon

\* A record is done with: the request whose work it was, when it was one's, and
\* what becomes of its connection.
LEMMA RecordReleased ==
    ASSUME TypeOK, ConnsInv, RInv, NEW r \in Records, rec[r].live,
           NEW c \in Conns \cup {NULL}, NEW job \in Jobs, rec[r].cc = c, rec[r].job = job,
           IF c = NULL THEN conn' = conn
           ELSE \E v \in Conn : conn' = [conn EXCEPT ![c] = v] /\ Released(v, conn[c], job)
    PROVE  /\ Open' = Open
           /\ \/ Locked' = Locked
              \/ /\ c # NULL /\ job = "check" /\ conn'[c].cred = "verified"
                 /\ rec[r].req # 0 /\ Locked' = Locked \ {rec[r].req}
<1>1. RequestsAreDistinct /\ ChecksAreOpen
  BY Zenon DEF RInv, HistoryInv
<1>2. CASE c = NULL
  BY <1>2, ConnsStay, Zenon
<1>3. CASE c # NULL
  <2>0. /\ \A d \in Conns, s \in Records :
            rec[s].cc = d => conn[d].park = s /\ conn[d].req = rec[s].req
        /\ \A d \in Conns, s \in Records : conn[d].park = s => conn[d].kind = "client"
    BY Zenon DEF ConnsInv, ResultsReachTheirRequest
  <2>1. c \in Conns
    BY <1>3, Zenon
  <2>2. PICK v \in Conn : conn' = [conn EXCEPT ![c] = v] /\ Released(v, conn[c], job)
    BY <1>3, Zenon
  <2>3. conn[c].park = r /\ conn[c].req = rec[r].req
    BY <2>0, <2>1, Zenon
  <2>4. conn[c].kind = "client"
    BY <2>0, <2>1, <2>3, Zenon
  <2>5. conn[c].req # 0
    BY <1>1, <2>1, <2>4, Zenon DEF RequestsAreDistinct
  <2>6. job = "check" => conn[c].login /\ conn[c].cred = "unchecked"
    BY <1>1, <2>1, <2>3, Zenon DEF ChecksAreOpen
  <2>7. PICK n : n = conn[c].req
    BY Zenon
  <2>8. /\ Open' = Open
        /\ \/ Locked' = Locked
           \/ job = "check" /\ v.cred = "verified" /\ Locked' = Locked \ {n}
    BY <1>1, <2>1, <2>2, <2>4, <2>6, <2>7, ConnReleased, ZenonT(60)
  <2>9. conn'[c] = v
    BY <2>1, <2>2, Zenon DEF TypeOK
  <2>10. n = rec[r].req /\ rec[r].req # 0
    BY <2>3, <2>5, <2>7, Zenon
  <2> QED
    BY <1>3, <2>8, <2>9, <2>10, Zenon
<1> QED
  BY <1>2, <1>3, Zenon

\* handle_helper_event() and the done callback.
LEMMA RequestsDone ==
    ASSUME TypeOK, RecordsInv, ConnsInv, RInv, NEW r \in Records, HelperDone(r)
    PROVE  H!Next \/ UNCHANGED H!vars
<1>1. RequestsAreDistinct
  BY Zenon DEF RInv, HistoryInv
<1>2. rec' = [rec EXCEPT ![r] = Freed] /\ UNCHANGED <<requests, forks, answers>>
  BY Zenon DEF HelperDone
<1>3. rec[r].live /\ rec[r].running
  <2>1. r \in batch
    BY Zenon DEF HelperDone, Take
  <2>2. helper[r] \in {"ok", "failed"}
    BY <2>1, Zenon DEF ConnsInv, LoopIsCurrent
  <2>3. helper[r] # "none"
    BY <2>2
  <2> QED
    BY <2>3, Zenon DEF RecordsInv, HelpersKeepRecords
<1>4. PICK c \in Conns \cup {NULL}, job \in Jobs :
        /\ rec[r].cc = c /\ rec[r].job = job
        /\ IF c = NULL THEN conn' = conn
           ELSE \E v \in Conn : conn' = [conn EXCEPT ![c] = v] /\ Released(v, conn[c], job)
  BY DoneShape, Zenon
<1>5. /\ Open' = Open
      /\ \/ Locked' = Locked
         \/ job = "check" /\ rec[r].req # 0 /\ Locked' = Locked \ {rec[r].req}
  BY <1>3, <1>4, RecordReleased, Zenon
<1>6. PICK s \in Stages : s = Stage(rec[r].job) /\ (s = "check" <=> job = "check")
  BY <1>4, StageType, Zenon
<1>7. WaitTok(rec[r]) = {}
  BY <1>3, Zenon DEF WaitTok
<1>8. Waiting' = (Waiting \ {}) \cup {} /\ Working' = (Working \ WorkTok(rec[r])) \cup {}
  BY <1>1, <1>2, <1>7, RecordMoves, FreedIsNoToken, Zenon
<1>9. Begun' = Begun /\ Answered' = Answered
  BY <1>2, HistoryStays, Zenon
<1>10. CASE rec[r].req = 0
  <2>1. WorkTok(rec[r]) = {}
    BY <1>10, NoToken, Zenon
  <2>2. Waiting' = Waiting /\ Working' = Working
    BY <1>8, <2>1, Zenon
  <2> QED
    BY <1>2, <1>5, <1>9, <1>10, <2>2, Zenon DEF H!vars
<1>11. CASE rec[r].req # 0
  <2>1. PICK n \in Requests : n = rec[r].req
    BY <1>11, ReqType, Zenon
  <2>2. WorkTok(rec[r]) = {<<n, s>>}
    BY <1>3, <1>6, <1>11, <2>1, Zenon DEF WorkTok
  <2>3. <<n, s>> \in Working
    BY <1>3, <1>6, <1>11, <2>1, Zenon DEF Working, Tokens
  <2>4. Waiting' = Waiting /\ Working' = Working \ {<<n, s>>}
    BY <1>8, <2>2, Zenon
  <2>5. Locked' = Locked \/ (s = "check" /\ Locked' = Locked \ {n})
    BY <1>5, <1>6, <2>1, Zenon
  <2>6. H!Finish(n, s)
    BY <1>2, <1>5, <1>9, <2>3, <2>4, <2>5, Zenon DEF H!Finish
  <2> QED
    BY <2>6, NextWorks, Zenon
<1> QED
  BY <1>10, <1>11, Zenon

\* One turn of park_start_waiting().
LEMMA RequestsWaiting ==
    ASSUME TypeOK, RecordsInv, ConnsInv, RInv, NEW kind \in Kinds, ParkStartWaiting(kind)
    PROVE  H!Next \/ UNCHANGED H!vars
<1>1. /\ RequestsAreDistinct /\ NotDoneYet
      /\ UNCHANGED <<requests, answers>>
  BY Zenon DEF RInv, HistoryInv, ParkStartWaiting
<1>2. CASE WaitingEnds(kind)
  BY <1>1, <1>2, QuietSteps, Zenon DEF WaitingEnds
<1>3. ASSUME NEW r \in Records, NEW x \in Record, queue[kind] # <<>>, r = Head(queue[kind]),
             x = rec[r], WaitingStarts(kind, r, x) \/ WaitingFails(kind, r, x)
      PROVE  H!Next \/ UNCHANGED H!vars
  <2>1. rec[r].live /\ ~rec[r].running
    BY <1>3, HeadWaits, Zenon DEF Waits
  <2>2. PICK s \in Stages : s = Stage(x.job) /\ (s = "check" <=> x.job = "check")
    BY StageType, Zenon
  <2>3. WorkTok(rec[r]) = {}
    BY <2>1, Zenon DEF WorkTok
  <2>4. x.req # 0 => /\ x.req \in Requests /\ WaitTok(rec[r]) = {<<x.req, s>>}
                     /\ <<x.req, s>> \in Waiting
    <3>1. x.req # 0 => x.req \in Requests
      BY <1>3, ReqType, Zenon
    <3>2. x.req # 0 => WaitTok(rec[r]) = {<<x.req, s>>}
      BY <1>3, <2>1, <2>2, Zenon DEF WaitTok
    <3>3. x.req # 0 => <<x.req, s>> \in Waiting
      BY <1>3, <2>1, <2>2, Zenon DEF Waiting, Tokens
    <3> QED
      BY <3>1, <3>2, <3>3, Zenon
  <2>5. x.req = 0 => WaitTok(rec[r]) = {}
    BY <1>3, NoToken, Zenon
  <2>6. CASE WaitingStarts(kind, r, x)
    <3>1. PICK y \in Record : /\ y = [x EXCEPT !.running = TRUE] /\ y.running /\ y.live = x.live
                              /\ y.job = x.job /\ y.req = x.req
      BY Started, Zenon
    <3>2. /\ rec' = [rec EXCEPT ![r] = y] /\ conn' = conn
          /\ forks' = IF x.req = 0 THEN forks ELSE [forks EXCEPT ![x.req][s] = @ + 1]
      BY <2>2, <2>6, <3>1, Zenon DEF WaitingStarts, ParkStart
    <3>3. WaitTok(y) = {}
      BY <3>1, Zenon DEF WaitTok
    <3>4. /\ Waiting' = (Waiting \ WaitTok(rec[r])) \cup {}
          /\ Working' = (Working \ {}) \cup WorkTok(y)
      BY <1>1, <2>3, <3>2, <3>3, RecordMoves, Zenon
    <3>5. UNCHANGED <<requests, Open, Locked, Answered>>
      BY <1>1, <3>2, ConnsStay, HistoryStays, Zenon
    <3>6. CASE x.req = 0
      <4>1. WorkTok(y) = {}
        BY <3>1, <3>6, NoToken, Zenon
      <4>2. Waiting' = Waiting /\ Working' = Working /\ Begun' = Begun
        BY <2>5, <3>2, <3>4, <3>6, <4>1, HistoryStays, Zenon
      <4> QED
        BY <3>5, <4>2, Zenon DEF H!vars
    <3>7. CASE x.req # 0
      <4>1. PICK n \in Requests : n = x.req
        BY <2>4, <3>7, Zenon
      <4>2. WorkTok(y) = {<<n, s>>}
        BY <1>3, <2>1, <2>2, <3>1, <3>7, <4>1, ZenonT(60) DEF WorkTok
      <4>3. Waiting' = Waiting \ {<<n, s>>} /\ Working' = Working \cup {<<n, s>>}
        BY <2>4, <3>4, <3>7, <4>1, <4>2, Zenon
      <4>4. forks' = [forks EXCEPT ![n][s] = @ + 1]
        BY <3>2, <3>7, <4>1, Zenon
      <4>5. Begun' = Begun \cup {<<n, s>>}
        BY <4>4, BegunGrows, Zenon
      <4>6. forks[n][s] = 0
        <5>1. WaitingIsFresh(r)
          BY <1>1, ZenonT(60) DEF NotDoneYet
        <5> QED
          BY <1>3, <2>1, <2>2, <3>7, <4>1, <5>1 DEF WaitingIsFresh
      <4>7. <<n, s>> \in Waiting \ Begun
        BY <2>4, <3>7, <4>1, <4>6, FreshIsNotBegun, Zenon
      <4>8. H!Begin(n, s)
        BY <3>5, <4>3, <4>5, <4>7, Zenon DEF H!Begin
      <4> QED
        BY <4>8, NextWorks, Zenon
    <3> QED
      BY <3>6, <3>7, Zenon
  <2>7. CASE WaitingFails(kind, r, x)
    <3>1. PICK c \in Conns \cup {NULL}, job \in Jobs :
            /\ x.cc = c /\ x.job = job
            /\ IF c = NULL THEN conn' = conn
               ELSE \E v \in Conn : conn' = [conn EXCEPT ![c] = v] /\ Released(v, conn[c], job)
      BY <2>7, FailsShape, Zenon
    <3>2. rec' = [rec EXCEPT ![r] = Freed] /\ forks' = forks
      BY <2>7, Zenon DEF WaitingFails
    <3>3. c # NULL /\ job = "check" => conn'[c].cred # "verified"
      <4> SUFFICES ASSUME c # NULL, job = "check" PROVE conn'[c].cred # "verified"
        OBVIOUS
      <4>1. conn' = [conn EXCEPT ![c].park = NULL, ![c].cred = "unavailable"]
        BY <2>7, <3>1, Zenon DEF WaitingFails, Unavailable
      <4>2. c \in Conns /\ conn[c] \in Conn /\ conn \in [Conns -> Conn]
        BY Zenon DEF TypeOK
      <4>3. conn'[c] = [[conn[c] EXCEPT !.park = NULL] EXCEPT !.cred = "unavailable"]
        BY <4>1, <4>2, Zenon
      <4> QED
        BY <4>2, <4>3 DEF Conn
    <3>4. Open' = Open /\ Locked' = Locked
      <4>1. rec[r].cc = c /\ rec[r].job = job
        BY <1>3, <3>1, Zenon
      <4>2. /\ Open' = Open
            /\ Locked' = Locked \/ (c # NULL /\ job = "check" /\ conn'[c].cred = "verified")
        BY <2>1, <3>1, <4>1, RecordReleased, Zenon
      <4> QED
        BY <3>3, <4>2, Zenon
    <3>5. /\ Waiting' = (Waiting \ WaitTok(rec[r])) \cup {}
          /\ Working' = (Working \ {}) \cup {}
      BY <1>1, <2>3, <3>2, RecordMoves, FreedIsNoToken, Zenon
    <3>6. UNCHANGED <<requests, Working, Begun, Answered>>
      BY <1>1, <3>2, <3>5, HistoryStays, Zenon
    <3>7. CASE x.req = 0
      <4>1. Waiting' = Waiting
        BY <2>5, <3>5, <3>7, Zenon
      <4> QED
        BY <3>4, <3>6, <4>1, Zenon DEF H!vars
    <3>8. CASE x.req # 0
      <4>1. PICK n \in Requests : n = x.req
        BY <2>4, <3>8, Zenon
      <4>2. Waiting' = Waiting \ {<<n, s>>} /\ <<n, s>> \in Waiting
        BY <2>4, <3>5, <3>8, <4>1, Zenon
      <4>3. H!GiveUp(n, s)
        BY <3>4, <3>6, <4>2, Zenon DEF H!GiveUp
      <4> QED
        BY <4>3, NextWorks, Zenon
    <3> QED
      BY <3>7, <3>8, Zenon
  <2> QED
    BY <1>3, <2>6, <2>7, Zenon
<1> QED
  BY <1>2, <1>3, WaitingOutcomes, Zenon

\* conn_out_sweep() and drain_pending_free()
LEMMA RequestsEndBatch ==
    ASSUME TypeOK, ConnsInv, RInv, EndBatch
    PROVE  H!Next
<1>1. RequestsAreDistinct /\ OutIsAnswered /\ UNCHANGED <<rec, requests, forks, answers>>
  BY Zenon DEF RInv, HistoryInv, EndBatch
<1>2. PICK stuck \in SUBSET {c \in Conns : conn[c].kind = "client" /\ conn[c].out} :
        conn' = [c \in Conns |-> IF c \in stuck \cup pending THEN NoConn ELSE conn[c]]
  BY Zenon DEF EndBatch
<1>3. \A c \in Conns : conn'[c] = IF c \in stuck \cup pending THEN NoConn ELSE conn[c]
  BY <1>2, Zenon
<1>4. NoConn.kind # "client"
  BY DEF NoConn
<1>5. \A d \in Conns : conn'[d] = conn[d] \/ conn'[d].kind # "client"
  BY <1>3, <1>4, Zenon
<1>6. /\ Open' \subseteq Open /\ Locked' = Locked \cap Open'
      /\ \A n \in Open \ Open' :
            \E d \in Conns : conn[d].kind = "client" /\ conn[d].req = n /\ conn'[d] # conn[d]
  BY <1>1, <1>5, ConnsEnd, Zenon
<1>7. ASSUME NEW n \in Open \ Open' PROVE n \in Answered
  <2>1. PICK d \in Conns : conn[d].kind = "client" /\ conn[d].req = n /\ conn'[d] # conn[d]
    BY <1>6, <1>7, Zenon
  <2>2. d \notin pending
    <3>1. d \in pending => conn[d].kind = "dead"
      BY Zenon DEF ConnsInv, LoopIsCurrent
    <3> QED
      BY <2>1, <3>1
  <2>3. conn[d].out
    BY <1>3, <2>1, <2>2, Zenon
  <2>4. answers[n] > 0
    BY <1>1, <2>1, <2>3, Zenon DEF OutIsAnswered
  <2>5. n \in Requests
    BY <1>1, <2>1, ReqType, Zenon DEF RequestsAreDistinct
  <2> QED
    BY <2>4, <2>5, Zenon DEF Answered
<1>8. Open \ Open' \subseteq Answered
  BY <1>7, Zenon
<1>9. UNCHANGED <<requests, Waiting, Working, Begun, Answered>>
  BY <1>1, RecordsStay, HistoryStays, Zenon
<1> QED
  BY <1>6, <1>8, <1>9, Zenon DEF H!Next, H!Drop

-----------------------------------------------------------------------------
(* Every step keeps RInv                                                   *)

\* A connection stays as it was, and its record of the same job; or what is asked
\* of it holds of what it has become.
Untouched(d) ==
    conn'[d] = conn[d] /\ \A r \in Records : conn[d].park = r => rec'[r].job = rec[r].job

Renewed(d) ==
    /\ conn'[d].kind = "client" /\ conn'[d].out => answers'[conn'[d].req] > 0
    /\ \A r \in Records : conn'[d].park = r /\ rec'[r].job = "check"
            => conn'[d].login /\ conn'[d].cred = "unchecked"

\* Enough for RInv: a connection that changed is as RInv asks.
LEMMA AskedKept ==
    ASSUME TypeOK, RInv, \A n \in Requests : answers[n] > 0 => answers'[n] > 0,
           \A d \in Conns : Untouched(d) \/ Renewed(d)
    PROVE  OutIsAnswered' /\ ChecksAreOpen'
<1>1. RequestsAreDistinct /\ OutIsAnswered /\ ChecksAreOpen
  BY Zenon DEF RInv, HistoryInv
<1>2. ASSUME NEW d \in Conns PROVE Renewed(d)
  <2>1. CASE Renewed(d)
    BY <2>1, Zenon
  <2>2. CASE Untouched(d)
    <3>1. ASSUME conn'[d].kind = "client", conn'[d].out PROVE answers'[conn'[d].req] > 0
      <4>1. conn'[d] = conn[d] /\ conn[d].kind = "client" /\ conn[d].out
        BY <2>2, <3>1, Zenon DEF Untouched
      <4>2. conn[d].req \in Requests
        BY <1>1, <4>1, ReqType, Zenon DEF RequestsAreDistinct
      <4>3. answers[conn[d].req] > 0
        BY <1>1, <4>1, Zenon DEF OutIsAnswered
      <4> QED
        BY <4>1, <4>2, <4>3, Zenon
    <3>2. ASSUME NEW r \in Records, conn'[d].park = r, rec'[r].job = "check"
          PROVE  conn'[d].login /\ conn'[d].cred = "unchecked"
      <4>1. conn'[d] = conn[d] /\ conn[d].park = r
        BY <2>2, <3>2, Zenon DEF Untouched
      <4>2. rec[r].job = "check"
        BY <2>2, <3>2, <4>1, Zenon DEF Untouched
      <4> QED
        BY <1>1, <4>1, <4>2, Zenon DEF ChecksAreOpen
    <3> QED
      BY <3>1, <3>2, Zenon DEF Renewed
  <2> QED
    BY <1>2, <2>1, <2>2, Zenon
<1> QED
  BY <1>2, Zenon DEF OutIsAnswered, ChecksAreOpen, Renewed

\* client_conn_teardown() leaves neither output nor a record to wait for.
LEMMA AskedTeardown ==
    ASSUME TypeOK, ConnsInv, RInv, NEW c \in Conns, ClientConnTeardown(c)
    PROVE  OutIsAnswered' /\ ChecksAreOpen'
<1>1. answers' = answers
  BY Zenon DEF ClientConnTeardown
<1>2. PICK v \in Conn : /\ conn' = [conn EXCEPT ![c] = v]
                        /\ v.kind \in {"none", "dead"} /\ v.park = NULL
  BY TeardownShape, Zenon
<1>3. conn'[c] = v /\ \A d \in Conns : d # c => conn'[d] = conn[d]
  BY <1>2, Zenon DEF TypeOK
<1>4. Renewed(c)
  <2>1. conn'[c].kind # "client" /\ \A r \in Records : conn'[c].park # r
    BY <1>2, <1>3, AddressAssumption
  <2> QED
    BY <2>1, Zenon DEF Renewed
<1>5. ASSUME NEW d \in Conns, d # c, NEW r \in Records, conn[d].park = r
      PROVE  rec'[r].job = rec[r].job
  <2>1. CASE conn[c].park = NULL
    BY <2>1, Zenon DEF ClientConnTeardown
  <2>2. CASE conn[c].park # NULL
    <3>1. PICK q \in Records : q = conn[c].park
      BY <2>2 DEF TypeOK, Conn
    <3>2. ParkAbandon(q)
      BY <2>2, <3>1, Zenon DEF ClientConnTeardown
    <3>3. q # r
      <4>1. rec[q].cc = c /\ rec[r].cc = d
        BY <1>5, <3>1, ZenonT(60) DEF ConnsInv, ResultsReachTheirRequest
      <4> QED
        BY <1>5, <4>1, Zenon
    <3>4. PICK x \in Record : rec' = [rec EXCEPT ![q] = x]
      BY <3>2, ParkAbandonShape, Zenon
    <3> QED
      BY <3>3, <3>4, Zenon DEF TypeOK
  <2> QED
    BY <2>1, <2>2, Zenon
<1>6. \A d \in Conns : Untouched(d) \/ Renewed(d)
  BY <1>3, <1>4, <1>5, Zenon DEF Untouched
<1> QED
  BY <1>1, <1>6, AskedKept, Zenon

\* The output left over is that of the answer just counted.
LEMMA AskedAnswer ==
    ASSUME TypeOK, RInv, UNCHANGED rec, NEW c \in Conns, NEW v, AnswerShape(c, v),
           conn[c].kind = "client", conn[c].park = NULL,
           answers' = [answers EXCEPT ![conn[c].req] = @ + 1]
    PROVE  OutIsAnswered' /\ ChecksAreOpen'
<1>1. PICK n \in Requests : n = conn[c].req
  BY ReqType, Zenon DEF RInv, HistoryInv, RequestsAreDistinct
<1>2. answers'[n] > 0 /\ \A m \in Requests : answers[m] > 0 => answers'[m] > 0
  <2>1. answers \in [Requests -> Nat] /\ answers' = [answers EXCEPT ![n] = @ + 1]
    BY <1>1, Zenon DEF TypeOK
  <2> QED
    BY <2>1, SMTT(30)
<1>3. conn' = [conn EXCEPT ![c] = v] /\ v.park = NULL
  BY Zenon DEF AnswerShape
<1>4. v.kind = "client" => v.req = n
  BY <1>1 DEF AnswerShape
<1>5. conn'[c] = v /\ \A d \in Conns : d # c => conn'[d] = conn[d]
  BY <1>3, Zenon DEF TypeOK
<1>6. Renewed(c)
  <2>1. \A r \in Records : conn'[c].park # r
    BY <1>3, <1>5, AddressAssumption, Zenon
  <2> QED
    BY <1>2, <1>4, <1>5, <2>1, Zenon DEF Renewed
<1>7. \A d \in Conns : Untouched(d) \/ Renewed(d)
  BY <1>5, <1>6, Zenon DEF Untouched
<1> QED
  BY <1>2, <1>7, AskedKept, Zenon

\* A record is done with, and no other connection waits for it.
LEMMA AskedRelease ==
    ASSUME TypeOK, ConnsInv, RInv, UNCHANGED answers, NEW r \in Records, rec' = [rec EXCEPT ![r] = Freed],
           NEW c \in Conns \cup {NULL}, NEW job \in Jobs, rec[r].cc = c, rec[r].job = job,
           IF c = NULL THEN conn' = conn
           ELSE \E v \in Conn : conn' = [conn EXCEPT ![c] = v] /\ Released(v, conn[c], job)
    PROVE  OutIsAnswered' /\ ChecksAreOpen'
<1>1. \A d \in Conns : conn[d].park = r => d = c
  BY ZenonT(60) DEF ConnsInv, ResultsReachTheirRequest
<1>2. \A s \in Records : s # r => rec'[s] = rec[s]
  BY Zenon DEF TypeOK
<1>3. ASSUME NEW d \in Conns, d # c PROVE Untouched(d)
  <2>1. conn'[d] = conn[d]
    BY <1>3, Zenon DEF TypeOK
  <2>2. conn[d].park # r
    BY <1>1, <1>3, Zenon
  <2> QED
    BY <1>2, <2>1, <2>2, Zenon DEF Untouched
<1>4. ASSUME c \in Conns PROVE Renewed(c)
  <2>1. PICK v \in Conn : conn' = [conn EXCEPT ![c] = v] /\ Released(v, conn[c], job)
    BY <1>4, AddressAssumption, Zenon
  <2>2. conn'[c] = v /\ v.park = NULL /\ v.kind = conn[c].kind /\ v.out = conn[c].out
        /\ v.req = conn[c].req
    BY <1>4, <2>1, Zenon DEF TypeOK, Released
  <2>3. \A s \in Records : conn'[c].park # s
    BY <2>2, AddressAssumption, Zenon
  <2>4. conn'[c].kind = "client" /\ conn'[c].out => answers'[conn'[c].req] > 0
    BY <1>4, <2>2, Zenon DEF RInv, OutIsAnswered
  <2> QED
    BY <2>3, <2>4, Zenon DEF Renewed
<1>5. \A d \in Conns : Untouched(d) \/ Renewed(d)
  BY <1>3, <1>4, Zenon
<1> QED
  BY <1>5, AskedKept, Zenon

\* A record comes into use that no connection waits for; a request may then wait
\* for it, for a check only without a verdict.
LEMMA AskedRecord ==
    ASSUME TypeOK, ConnsInv, RInv, UNCHANGED answers, NEW r \in Records, NEW y,
           rec' = [rec EXCEPT ![r] = y], ~rec[r].live \/ y.job = rec[r].job,
           \A d \in Conns : conn'[d] = conn[d] \/ Renewed(d)
    PROVE  OutIsAnswered' /\ ChecksAreOpen'
<1>1. rec'[r] = y /\ \A s \in Records : s # r => rec'[s] = rec[s]
  BY Zenon DEF TypeOK
<1>2. \A d \in Conns, s \in Records : conn[d].park = s => rec'[s].job = rec[s].job
  <2>1. \A d \in Conns : conn[d].park = r => rec[r].live
    BY Zenon DEF ConnsInv, ResultsReachTheirRequest
  <2> QED
    BY <1>1, <2>1, Zenon
<1>3. \A d \in Conns : Untouched(d) \/ Renewed(d)
  BY <1>2, Zenon DEF Untouched
<1> QED
  BY <1>3, AskedKept, Zenon

\* serve_request() parks for a check only while the login has no verdict.
LEMMA AskedServe ==
    ASSUME TypeOK, ConnsInv, RInv, NEW c \in Conns, ServeRequest(c)
    PROVE  OutIsAnswered' /\ ChecksAreOpen'
<1>1. conn[c].kind = "client" /\ conn[c].park = NULL /\ ~conn[c].out
  BY AddressAssumption, Zenon DEF ConnsInv, ServedIsOpen, ServeRequest
<1>2. CASE Answer(c) /\ UNCHANGED <<rec, queue, running, helper, forks>>
  <2>1. PICK v : AnswerShape(c, v)
    BY <1>2, AnswerIsAnswer, Zenon
  <2>2. answers' = [answers EXCEPT ![conn[c].req] = @ + 1] /\ UNCHANGED rec
    BY <1>2, Zenon DEF Answer
  <2> QED
    BY <1>1, <2>1, <2>2, AskedAnswer, Zenon
<1>3. ASSUME NextJob(c) # "none", NEW r \in Records,
             SubmitStarts(r, ParkNew(NextJob(c), c)) \/ SubmitQueues(r, ParkNew(NextJob(c), c)),
             conn' = [conn EXCEPT ![c].park = r], answers' = answers
      PROVE  OutIsAnswered' /\ ChecksAreOpen'
  <2>1. PICK job \in Jobs : job = NextJob(c)
    BY <1>3, NextJobType, Zenon
  <2>2. PICK x : x = ParkNew(job, c)
    BY Zenon
  <2>3. PICK z : z = [x EXCEPT !.running = TRUE]
    BY Zenon
  <2>4. x.job = job /\ z.job = job
    BY <2>2, <2>3 DEF ParkNew
  <2>5. SubmitStarts(r, x) \/ SubmitQueues(r, x)
    BY <1>3, <2>1, <2>2, Zenon
  <2>6. PICK y : rec' = [rec EXCEPT ![r] = y] /\ y.job = job
    BY <2>3, <2>4, <2>5, Zenon DEF SubmitStarts, SubmitQueues, ParkStart
  <2>7. ~rec[r].live
    BY <2>5, Zenon DEF SubmitStarts, SubmitQueues, Unused
  <2>8. PICK w \in Conn : w = conn[c]
    BY Zenon DEF TypeOK
  <2>9. PICK v : v = [w EXCEPT !.park = r]
    BY Zenon
  <2>10. v.park = r /\ v.out = w.out /\ v.login = w.login /\ v.cred = w.cred
    BY <2>9 DEF Conn
  <2>11. conn'[c] = v /\ \A d \in Conns : d # c => conn'[d] = conn[d]
    BY <1>3, <2>8, <2>9, Zenon DEF TypeOK
  <2>12. job = "check" => conn[c].login /\ conn[c].cred = "unchecked"
    <3>1. conn[c].job \in RequestJobs \cup {"none"}
      BY DEF TypeOK, Conn
    <3>2. conn[c].job # "check"
      BY <3>1 DEF RequestJobs
    <3> QED
      BY <1>3, <2>1, <3>2, Zenon DEF NextJob
  <2>13. rec'[r].job = job
    BY <2>6, Zenon DEF TypeOK
  <2>14. ~conn'[c].out
    BY <1>1, <2>8, <2>10, <2>11, Zenon
  <2>15. Renewed(c)
    BY <2>8, <2>10, <2>11, <2>12, <2>13, <2>14, Zenon DEF Renewed
  <2>16. \A d \in Conns : conn'[d] = conn[d] \/ Renewed(d)
    BY <2>11, <2>15, Zenon
  <2> QED
    BY <1>3, <2>6, <2>7, <2>16, AskedRecord, Zenon
<1> QED
  BY <1>2, <1>3, Zenon DEF ServeRequest

\* park_start_waiting() starts a job that is parked for already, or releases it.
LEMMA AskedWaiting ==
    ASSUME TypeOK, ConnsInv, RInv, NEW kind \in Kinds, ParkStartWaiting(kind)
    PROVE  OutIsAnswered' /\ ChecksAreOpen'
<1>1. answers' = answers
  BY Zenon DEF ParkStartWaiting
<1>2. CASE WaitingEnds(kind)
  <2>1. \A d \in Conns : Untouched(d)
    BY <1>2, Zenon DEF WaitingEnds, Untouched
  <2> QED
    BY <1>1, <2>1, AskedKept, Zenon
<1>3. ASSUME NEW r \in Records, NEW x \in Record, x = rec[r], WaitingFails(kind, r, x)
      PROVE  OutIsAnswered' /\ ChecksAreOpen'
  <2>1. PICK c \in Conns \cup {NULL}, job \in Jobs :
            /\ x.cc = c /\ x.job = job
            /\ IF c = NULL THEN conn' = conn
               ELSE \E v \in Conn : conn' = [conn EXCEPT ![c] = v] /\ Released(v, conn[c], job)
    BY <1>3, FailsShape, Zenon
  <2>2. rec' = [rec EXCEPT ![r] = Freed] /\ rec[r].cc = c /\ rec[r].job = job
    BY <1>3, <2>1, Zenon DEF WaitingFails
  <2> QED
    BY <1>1, <2>1, <2>2, AskedRelease, Zenon
<1>4. ASSUME NEW r \in Records, NEW x \in Record, x = rec[r], WaitingStarts(kind, r, x)
      PROVE  OutIsAnswered' /\ ChecksAreOpen'
  <2>1. PICK y \in Record : y = [x EXCEPT !.running = TRUE] /\ y.job = x.job
    BY Started, Zenon
  <2>2. rec' = [rec EXCEPT ![r] = y] /\ conn' = conn /\ y.job = rec[r].job
    BY <1>4, <2>1, Zenon DEF WaitingStarts, ParkStart
  <2> QED
    BY <1>1, <2>2, AskedRecord, Zenon
<1> QED
  BY <1>2, <1>3, <1>4, WaitingOutcomes, Zenon

\* cixd's own jobs take unused records.
LEMMA AskedDaemonJob ==
    ASSUME TypeOK, ConnsInv, RInv, NEW job \in DaemonJobs, DaemonJob(job)
    PROVE  OutIsAnswered' /\ ChecksAreOpen'
<1>1. UNCHANGED <<conn, answers>>
  BY Zenon DEF DaemonJob
<1>2. PICK r \in Records : ~rec[r].live /\ \E y : rec' = [rec EXCEPT ![r] = y]
  BY Zenon DEF DaemonJob, SubmitStarts, SubmitQueues, ParkStart, Unused
<1>3. PICK y : rec' = [rec EXCEPT ![r] = y]
  BY <1>2, Zenon
<1> QED
  BY <1>1, <1>2, <1>3, AskedRecord, Zenon

\* A new connection has no output and no record.
LEMMA AskedAccept ==
    ASSUME TypeOK, RInv, NEW c \in Conns, Accept(c)
    PROVE  OutIsAnswered' /\ ChecksAreOpen'
<1>1. UNCHANGED <<rec, answers>>
  BY Zenon DEF Accept
<1>2. PICK v \in Conn : conn' = [conn EXCEPT ![c] = v] /\ v.park = NULL /\ ~v.out
  BY AcceptShape, Zenon
<1>3. conn'[c] = v /\ \A d \in Conns : d # c => conn'[d] = conn[d]
  BY <1>2, Zenon DEF TypeOK
<1>4. Renewed(c)
  <2>1. \A r \in Records : conn'[c].park # r
    BY <1>2, <1>3, AddressAssumption, Zenon
  <2> QED
    BY <1>2, <1>3, <2>1, Zenon DEF Renewed
<1>5. \A d \in Conns : Untouched(d) \/ Renewed(d)
  BY <1>1, <1>3, <1>4, Zenon DEF Untouched
<1> QED
  BY <1>1, <1>5, AskedKept, Zenon

\* drain_pending_free() leaves nothing of the connections it frees.
LEMMA AskedEndBatch ==
    ASSUME TypeOK, RInv, EndBatch
    PROVE  OutIsAnswered' /\ ChecksAreOpen'
<1>1. UNCHANGED <<rec, answers>>
  BY Zenon DEF EndBatch
<1>2. \A c \in Conns : conn'[c] = conn[c] \/ conn'[c] = NoConn
  BY Zenon DEF EndBatch
<1>3. ~NoConn.out /\ \A r \in Records : NoConn.park # r
  BY EmptyConns, AddressAssumption, Zenon
<1>4. \A d \in Conns : conn'[d] = NoConn => Renewed(d)
  BY <1>3, Zenon DEF Renewed
<1>5. \A d \in Conns : Untouched(d) \/ Renewed(d)
  BY <1>1, <1>2, <1>4, Zenon DEF Untouched
<1> QED
  BY <1>1, <1>5, AskedKept, Zenon

-----------------------------------------------------------------------------
(* Every step together                                                     *)

\* Every step keeps RInv and is a step of HelpedRequests, or none.
LEMMA RequestsStep ==
    ASSUME PInv, RInv, [Next]_vars
    PROVE  RInv' /\ [H!Next]_(H!vars)
<1>0. TypeOK /\ RecordsInv /\ ConnsInv /\ HistoryInv
  BY Zenon DEF PInv, RInv
<1> DEFINE Goal == OutIsAnswered' /\ ChecksAreOpen' /\ (H!Next \/ UNCHANGED H!vars)
<1>1. ASSUME UNCHANGED <<conn, rec, requests, forks, answers>> PROVE Goal
  <2>1. \A d \in Conns : Untouched(d)
    BY <1>1, Zenon DEF Untouched
  <2>2. \A n \in Requests : answers[n] > 0 => answers'[n] > 0
    BY <1>1, Zenon
  <2> QED
    BY <1>0, <1>1, <2>1, <2>2, AskedKept, QuietSteps, Zenon
<1>2. ASSUME UNCHANGED vars PROVE Goal
  <2>1. UNCHANGED <<conn, rec, requests, forks, answers>>
    BY <1>2, Zenon DEF vars
  <2> QED
    BY <1>1, <2>1, Zenon
<1>3. ASSUME Poll PROVE Goal
  <2>1. UNCHANGED <<conn, rec, requests, forks, answers>>
    BY <1>3, Zenon DEF Poll
  <2> QED
    BY <1>1, <2>1, Zenon
<1>4. ASSUME EndBatch PROVE Goal
  BY <1>0, <1>4, AskedEndBatch, RequestsEndBatch, Zenon
<1>5. ASSUME Nothing PROVE Goal
  <2>1. UNCHANGED <<conn, rec, requests, forks, answers>>
    BY <1>5, Zenon DEF Nothing
  <2> QED
    BY <1>1, <2>1, Zenon
<1>6. ASSUME NEW c \in Conns, SkipDead(c) \/ ResumeOutput(c) \/ ParkedRead(c) PROVE Goal
  <2>1. Nothing \/ (ClientConnTeardown(c) /\ conn[c].kind = "client")
    BY <1>6, Zenon DEF SkipDead, ResumeOutput, ParkedRead
  <2> QED
    BY <1>0, <1>5, <2>1, AskedTeardown, RequestsTeardown, Zenon
<1>7. ASSUME NEW c \in Conns, ReadRequest(c) PROVE Goal
  <2>1. conn[c].kind = "client" /\ conn[c].park = NULL /\ ~conn[c].out
    BY <1>7, Zenon DEF ReadRequest
  <2>2. CASE Nothing
    BY <1>5, <2>2, Zenon
  <2>3. CASE ClientConnTeardown(c)
    BY <1>0, <2>1, <2>3, AskedTeardown, RequestsTeardown, Zenon
  <2>4. CASE /\ ClientConnFinish(c, conn) /\ UNCHANGED <<requests, forks, rec>>
             /\ answers' = [answers EXCEPT ![conn[c].req] = @ + 1]
    <3>1. PICK v : AnswerShape(c, v)
      BY <1>0, <2>4, FinishIsAnswer, Zenon
    <3>2. H!Next
      BY <1>0, <2>1, <2>4, <3>1, RequestsAnswer, Zenon
    <3>3. OutIsAnswered' /\ ChecksAreOpen'
      BY <1>0, <2>1, <2>4, <3>1, AskedAnswer, Zenon
    <3> QED
      BY <3>2, <3>3, Zenon
  <2>5. CASE UNCHANGED <<conn, rec, requests, forks, answers>>
    BY <1>1, <2>5, Zenon
  <2> QED
    BY <1>7, <2>2, <2>3, <2>4, <2>5, Zenon DEF ReadRequest
<1>8. ASSUME NEW r \in Records, HelperDone(r) PROVE Goal
  <2>1. rec' = [rec EXCEPT ![r] = Freed] /\ UNCHANGED answers
    BY <1>8, Zenon DEF HelperDone
  <2>2. PICK c \in Conns \cup {NULL}, job \in Jobs :
            /\ rec[r].cc = c /\ rec[r].job = job
            /\ IF c = NULL THEN conn' = conn
               ELSE \E v \in Conn : conn' = [conn EXCEPT ![c] = v] /\ Released(v, conn[c], job)
    BY <1>0, <1>8, DoneShape, Zenon
  <2>3. OutIsAnswered' /\ ChecksAreOpen'
    BY <1>0, <2>1, <2>2, AskedRelease, Zenon
  <2> QED
    BY <1>0, <1>8, <2>3, RequestsDone, Zenon
<1>9. ASSUME NEW c \in Conns, ServeRequest(c) PROVE Goal
  <2>1. conn[c].kind = "client" /\ conn[c].park = NULL /\ ~conn[c].out /\ requests' = requests
    BY <1>0, <1>9, AddressAssumption, Zenon DEF ConnsInv, ServedIsOpen, ServeRequest
  <2>2. OutIsAnswered' /\ ChecksAreOpen'
    BY <1>0, <1>9, AskedServe, Zenon
  <2>3. CASE Answer(c) /\ UNCHANGED <<rec, queue, running, helper, forks>>
    <3>1. PICK v : AnswerShape(c, v)
      BY <1>0, <2>3, AnswerIsAnswer, Zenon
    <3>2. answers' = [answers EXCEPT ![conn[c].req] = @ + 1] /\ UNCHANGED <<requests, forks, rec>>
      BY <2>1, <2>3, Zenon DEF Answer
    <3> QED
      BY <1>0, <2>1, <2>2, <3>1, <3>2, RequestsAnswer, Zenon
  <2>4. ASSUME NextJob(c) # "none", NEW r \in Records,
               SubmitStarts(r, ParkNew(NextJob(c), c)) \/ SubmitQueues(r, ParkNew(NextJob(c), c)),
               conn' = [conn EXCEPT ![c].park = r], answers' = answers
        PROVE  H!Next
    BY <1>0, <2>1, <2>4, RequestsSubmit, Zenon
  <2> QED
    BY <1>9, <2>2, <2>3, <2>4, Zenon DEF ServeRequest
<1>10. ASSUME NEW kind \in Kinds, ParkStartWaiting(kind) PROVE Goal
  BY <1>0, <1>10, AskedWaiting, RequestsWaiting, Zenon
<1>11. ASSUME NEW c \in Conns, Accept(c) PROVE Goal
  BY <1>0, <1>11, AskedAccept, RequestsAccept, Zenon
<1>12. ASSUME NEW job \in DaemonJobs, DaemonJob(job) PROVE Goal
  BY <1>0, <1>12, AskedDaemonJob, RequestsDaemonJob, Zenon
<1>13. ASSUME NEW r \in Records, HelperExits(r) PROVE Goal
  <2>1. UNCHANGED <<conn, rec, requests, forks, answers>>
    BY <1>13, Zenon DEF HelperExits
  <2> QED
    BY <1>1, <2>1, Zenon
<1> HIDE DEF Goal
<1>14. Goal
  BY <1>2, <1>3, <1>4, <1>6, <1>7, <1>8, <1>9, <1>10, <1>11, <1>12, <1>13, Zenon
     DEF Next, Event, Handler
<1>15. HistoryInv'
  BY <1>0, HistoryStep, Zenon
<1> QED
  BY <1>14, <1>15, Zenon DEF Goal, RInv

\* cixd starts with no request seen.
LEMMA RequestsInit == Init => RInv /\ H!Init
<1> SUFFICES ASSUME Init PROVE RInv /\ H!Init
  OBVIOUS
<1>1. /\ \A c \in Conns : conn[c] = NoConn
      /\ \A r \in Records : rec[r] = Freed
      /\ requests = 0
      /\ \A n \in Requests : answers[n] = 0 /\ \A stage \in Stages : forks[n][stage] = 0
  BY Zenon DEF Init
<1>2. NoConn.kind # "client" /\ ~NoConn.out /\ \A r \in Records : NoConn.park # r
  <2>1. NoConn.kind # "client"
    BY DEF NoConn
  <2> QED
    BY <2>1, EmptyConns, AddressAssumption, Zenon
<1>3. ~Freed.live /\ Freed.req = 0
  BY DEF Freed
<1>4. ~(0 > 0)
  BY SMTT(30)
<1>5. RInv
  BY <1>1, <1>2, HistoryInit, Zenon DEF RInv, OutIsAnswered, ChecksAreOpen
<1>6. Open = {} /\ Locked = {}
  BY <1>1, <1>2, Zenon DEF Open, Locked
<1>7. Waiting = {} /\ Working = {}
  BY <1>1, <1>3, Zenon DEF Waiting, Working, Tokens
<1>8. Answered = {}
  BY <1>1, <1>4, Zenon DEF Answered
<1>9. Begun = {}
  <2>1. \A p \in Requests \X Stages : p[1] \in Requests /\ p[2] \in Stages
    BY SMTT(30)
  <2> QED
    BY <1>1, <1>4, <2>1, Zenon DEF Begun
<1> QED
  BY <1>1, <1>5, <1>6, <1>7, <1>8, <1>9, Zenon DEF H!Init
=============================================================================
