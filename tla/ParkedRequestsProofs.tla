----------------------- MODULE ParkedRequestsProofs -------------------------
(***************************************************************************)
(* The safety of the parked requests, for every number of connections,     *)
(* records, places and requests, and that they implement HelpedRequests.   *)
(***************************************************************************)
EXTENDS ParkedRequestsRecords, ParkedRequestsConns, ParkedRequestsHistory

LEMMA PInit == Init => PInv
<1> SUFFICES ASSUME Init PROVE PInv
  OBVIOUS
<1>1. /\ \A c \in Conns : conn[c] = NoConn
      /\ \A r \in Records : rec[r] = Freed /\ helper[r] = "none"
      /\ \A k \in Kinds : queue[k] = <<>> /\ running[k] = 0
      /\ batch = {} /\ pending = {} /\ ~sweep_pending
  BY Zenon DEF Init
<1>2. todo.serve = NULL /\ todo.drain = NULL
  BY DEF Init
<1>3. ~Freed.live /\ ~Freed.running /\ Freed.cc = NULL
  BY DEF Freed
<1>4. \A c \in Conns : NULL # c
  BY AddressAssumption, Zenon
<1>5. \A r \in Records : NULL # r
  BY AddressAssumption, Zenon
<1>6. TypeOK
  <2>1. conn \in [Conns -> Conn] /\ rec \in [Records -> Record]
    BY ConnType, FreedType, Zenon DEF Init
  <2>2. queue \in [Kinds -> Seq(Records)] /\ running \in [Kinds -> Nat]
    BY DEF Init
  <2>3. helper \in [Records -> {"none", "working", "killed", "ok", "failed"}]
    BY DEF Init
  <2>4. todo \in [serve : Conns \cup {NULL}, drain : Kinds \cup {NULL}]
    BY DEF Init
  <2>5. requests \in 0 .. MaxRequests /\ answers \in [Requests -> Nat]
    BY SMTT(30), LimitsAssumption DEF Init
  <2>6. forks \in [Requests -> [Stages -> Nat]]
    BY DEF Init
  <2>7. /\ sweep_pending \in BOOLEAN /\ phase \in {"wait", "batch"}
        /\ batch \subseteq Conns \cup Records /\ pending \subseteq Conns
    BY Zenon DEF Init
  <2> QED
    BY <2>1, <2>2, <2>3, <2>4, <2>5, <2>6, <2>7, ZenonT(60) DEF TypeOK
<1>7. HelpersKeepRecords /\ RunningIsLive /\ OneSweep /\ SweepIsPending
  BY <1>1, <1>3, ZenonT(60) DEF HelpersKeepRecords, RunningIsLive, OneSweep, SweepIsPending, Sweeps
<1>8. WaitingOrDraining
  BY <1>1, Zenon DEF WaitingOrDraining
<1>9. QueuesHoldTheWaiting
  <2>1. Distinct(<<>>) /\ Elems(<<>>) = {}
    BY DEF Distinct, Elems
  <2> QED
    BY <1>1, <1>3, <2>1, ZenonT(60) DEF QueuesHoldTheWaiting, Waits
<1>10. PlacesAreCounted
  <2>1. \A k \in Kinds : Occupied(k) = {}
    BY <1>1, <1>3, Zenon DEF Occupied
  <2>2. Cardinality({}) = 0
    BY FS_EmptySet, Zenon
  <2>3. \A k \in Kinds : 0 <= RunningMax[k]
    BY LimitsAssumption
  <2> QED
    BY <1>1, <2>1, <2>2, <2>3, ZenonT(60) DEF PlacesAreCounted
<1>11. ConnsInv
  <2>1. ResultsReachTheirRequest
    BY <1>1, <1>3, <1>4, <1>5, EmptyConns, ZenonT(60) DEF ResultsReachTheirRequest
  <2>2. ServedIsOpen
    BY <1>1, <1>2, EmptyConns, ZenonT(60) DEF ServedIsOpen
  <2>3. LoopIsCurrent
    BY <1>1, Zenon DEF LoopIsCurrent
  <2> QED
    BY <2>1, <2>2, <2>3, ZenonT(60) DEF ConnsInv
<1> QED
  BY <1>6, <1>7, <1>8, <1>9, <1>10, <1>11, ZenonT(60) DEF PInv, RecordsInv

LEMMA PStep == PInv /\ [Next]_vars => PInv'
<1> SUFFICES ASSUME PInv, [Next]_vars PROVE PInv'
  OBVIOUS
<1>1. TypeOK /\ PlacesAreCounted
  BY Zenon DEF PInv, RecordsInv
<1>2. \A r \in Records : rec[r].running => running[KindOf[rec[r].job]] # 0
  BY <1>1, PlaceIsTaken, ZenonT(60)
<1> QED
  BY <1>1, <1>2, TypesKept, RecordsKept, ConnsKept, ZenonT(60) DEF PInv

LEMMA Inductive == Spec => []PInv
BY PInit, PStep, PTL DEF Spec

-----------------------------------------------------------------------------
(* What holds of every loop                                                *)

\* Every handler leaves the connections, the records, the queues and the counters
\* well formed: a done callback never takes a place that was not taken.
THEOREM TypeCorrect == Spec => []TypeOK
<1>1. PInv => TypeOK
  BY ZenonT(60) DEF PInv
<1> QED
  BY <1>1, Inductive, PTL

\* A helper's result reaches the request it was made for or nobody, however
\* addresses are used again.
THEOREM ResultsReach == Spec => []ResultsReachTheirRequest
<1>1. PInv => ResultsReachTheirRequest
  BY ZenonT(60) DEF PInv, ConnsInv
<1> QED
  BY <1>1, Inductive, PTL

\* A child keeps its record until its exit is handled, also when the client leaves.
THEOREM HelpersKeep == Spec => []HelpersKeepRecords
<1>1. PInv => HelpersKeepRecords
  BY ZenonT(60) DEF PInv, RecordsInv
<1> QED
  BY <1>1, Inductive, PTL

\* kmodscan's pending flag and the record of a sweep come and go together.
THEOREM SweepsPend == Spec => []SweepIsPending
<1>1. PInv => SweepIsPending
  BY Zenon DEF PInv, RecordsInv
<1> QED
  BY <1>1, Inductive, PTL

\* park_start_waiting() leaves nobody behind: who waits between two handlers waits
\* for running_max others.
THEOREM WaitingWaitsForPlaces == Spec => []WaitingIsForAPlace
<1>1. ASSUME PInv PROVE WaitingIsForAPlace
  <2> SUFFICES ASSUME Idle, NEW k \in Kinds, queue[k] # <<>> PROVE running[k] = RunningMax[k]
    BY Zenon DEF WaitingIsForAPlace
  <2>1. todo.drain # k
    BY AddressAssumption, ZenonT(60) DEF Idle
  <2> QED
    BY <1>1, <2>1, ZenonT(60) DEF PInv, RecordsInv, WaitingOrDraining
<1> QED
  BY <1>1, Inductive, PTL

\* handover_quiescent() may look at the children alone: without one, between two
\* handlers, there is no record and no parked request.
THEOREM QuiescenceIsEnough == Spec => []QuiescentIsIdle
<1>1. ASSUME PInv PROVE QuiescentIsIdle
  <2> SUFFICES ASSUME Idle, \A r \in Records : helper[r] = "none"
               PROVE  /\ \A r \in Records : ~rec[r].live
                      /\ \A c \in Conns : conn[c].park = NULL
    BY Zenon DEF QuiescentIsIdle
  <2>1. \A r \in Records : ~rec[r].running
    BY <1>1, Zenon DEF PInv, RecordsInv, HelpersKeepRecords, RunningIsLive
  <2>2. \A r \in Records : ~rec[r].live
    <3> SUFFICES ASSUME NEW r \in Records, rec[r].live PROVE FALSE
      OBVIOUS
    <3>1. PICK k \in Kinds : k = KindOf[rec[r].job]
      BY SMTT(30), <1>1, KindType DEF PInv, TypeOK, Record
    <3>2. r \in Elems(queue[k])
      BY <1>1, <2>1, <3>1, ZenonT(60) DEF PInv, RecordsInv, QueuesHoldTheWaiting, Waits
    <3>3. queue[k] \in Seq(Records)
      BY <1>1, ZenonT(60) DEF PInv, TypeOK
    <3>4. queue[k] # <<>>
      BY <3>2, <3>3, EmptyElems, ZenonT(60)
    <3>5. todo.drain # k
      BY AddressAssumption, ZenonT(60) DEF Idle
    <3>6. running[k] = RunningMax[k] /\ running[k] = Cardinality(Occupied(k))
      BY <1>1, <3>4, <3>5, ZenonT(60) DEF PInv, RecordsInv, WaitingOrDraining, PlacesAreCounted
    <3>7. Occupied(k) = {}
      BY <2>1, Zenon DEF Occupied
    <3>8. running[k] = 0
      BY <3>6, <3>7, FS_EmptySet, ZenonT(60)
    <3> QED
      BY <3>6, <3>8, LimitsAssumption, ZenonT(60)
  <2>3. \A c \in Conns : conn[c].park \in Records \cup {NULL}
    BY SMTT(30), <1>1 DEF PInv, TypeOK, Conn
  <2>4. \A c \in Conns : conn[c].park = NULL
    BY <1>1, <2>2, <2>3, ZenonT(60) DEF PInv, ConnsInv, ResultsReachTheirRequest
  <2> QED
    BY <2>2, <2>4, Zenon
<1> QED
  BY <1>1, Inductive, PTL

-----------------------------------------------------------------------------
(* Events                                                                  *)

\* A connection that is open has room in g_pending_free, when there are no more
\* connections than one epoll_wait() has events.
LEMMA OpenHasRoom ==
    ASSUME TypeOK, ConnsInv, Cardinality(Conns) <= MAX_EVENTS, NEW c \in Conns,
           conn[c].kind = "client"
    PROVE  Cardinality(pending) < MAX_EVENTS
<1>1. pending \in SUBSET Conns /\ c \notin pending
  BY DEF TypeOK, ConnsInv, LoopIsCurrent
<1>2. PICK P \in SUBSET Conns : P = pending /\ P # Conns
  BY <1>1, Zenon
<1>3. IsFiniteSet(Conns)
  BY SMTT(30), AddressAssumption
<1>4. Cardinality(P) <= Cardinality(Conns) /\ Cardinality(P) # Cardinality(Conns) /\ IsFiniteSet(P)
  BY <1>2, <1>3, FS_Subset, ZenonT(60)
<1>5. Cardinality(P) \in Nat /\ Cardinality(Conns) \in Nat
  BY <1>3, <1>4, FS_CardinalityType, ZenonT(60)
<1> QED
  BY SMTT(30), <1>2, <1>4, <1>5, LimitsAssumption

\* drain_pending_free() is late enough: no event of a batch meets a connection that
\* was freed, while no more connections are open than one epoll_wait() has events.
THEOREM EventsKeep ==
    ASSUME Cardinality(Conns) <= MAX_EVENTS
    PROVE  Spec => []EventsKeepConns
<1>1. Init => EventsKeepConns
  BY Zenon DEF Init, EventsKeepConns
<1>2. PInv /\ EventsKeepConns /\ [Next]_vars => EventsKeepConns'
  <2> SUFFICES ASSUME PInv, EventsKeepConns, [Next]_vars PROVE EventsKeepConns'
    BY Zenon
  <2>1. \A c \in Conns : conn[c].kind = "client" => Cardinality(pending) < MAX_EVENTS
    BY OpenHasRoom, Zenon DEF PInv
  <2> QED
    BY <2>1, EventsStep, ZenonT(60)
<1> QED
  BY <1>1, <1>2, Inductive, PTL DEF Spec

-----------------------------------------------------------------------------
(* What is done for a request                                              *)

\* serve_request() may serve a request any number of times: its credential is
\* checked once, its work is started once and it is answered once.
THEOREM WorkOnce == Spec => []WorkIsDoneOnce
<1>1. PInv /\ HistoryInv /\ [Next]_vars => HistoryInv'
  BY HistoryStep, Zenon
<1>2. HistoryInv => WorkIsDoneOnce
  BY Zenon DEF HistoryInv
<1> QED
  BY <1>1, <1>2, HistoryInit, Inductive, PTL DEF Spec

-----------------------------------------------------------------------------
(* cixd implements HelpedRequests                                          *)

\* main()'s loop, serve_request() and the park_* functions serve requests as
\* HelpedRequests promises: every step of theirs is a step of it or changes nothing
\* it sees.  A request has one helper at a time; its work begins once, and only when
\* its credential is verified; it is answered once, when nothing works for it; and
\* only its client, or an answer nobody takes, ends it.
THEOREM RequestsAreImplemented == Spec => ImplementsRequests
<1>1. PInv /\ RInv /\ [Next]_vars => RInv' /\ [H!Next]_(H!vars)
  BY RequestsStep, Zenon
<1> QED
  BY <1>1, RequestsInit, Inductive, PTL DEF Spec, ImplementsRequests, H!Spec
=============================================================================
