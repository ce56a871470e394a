----------------------- MODULE ParkedRequestsRecords ------------------------
(***************************************************************************)
(* Every step of ParkedRequests keeps what is true of the records, their   *)
(* queues, their places and their children.                                *)
(***************************************************************************)
EXTENDS ParkedRequestsSteps, FiniteSetTheorems

\* Appending a new record.
LEMMA AppendElems ==
    ASSUME NEW S, NEW q \in Seq(S), NEW r \in S, Distinct(q), r \notin Elems(q)
    PROVE  /\ Append(q, r) \in Seq(S)
           /\ Distinct(Append(q, r))
           /\ Elems(Append(q, r)) = Elems(q) \cup {r}
<1> DEFINE a == Append(q, r)
<1>1. /\ a \in Seq(S) /\ Len(q) \in Nat /\ Len(a) = Len(q) + 1
      /\ \A i \in 1 .. Len(q) : a[i] = q[i]
      /\ a[Len(q) + 1] = r
  OBVIOUS
<1> HIDE DEF a
<1>2. \A i \in 1 .. Len(q) : q[i] # r
  BY Zenon DEF Elems
<1>3. \A i \in 1 .. Len(a) : i \in 1 .. Len(q) \/ i = Len(q) + 1
  BY <1>1
<1>4. Distinct(a)
  BY <1>1, <1>2, <1>3 DEF Distinct
<1>5. Len(q) + 1 \in 1 .. Len(a) /\ \A i \in 1 .. Len(q) : i \in 1 .. Len(a)
  BY <1>1
<1>6. Elems(a) = Elems(q) \cup {r}
  BY <1>1, <1>3, <1>5, Zenon DEF Elems
<1> QED
  BY <1>1, <1>4, <1>6, Zenon DEF a

\* Leaving one out.
LEMMA WithoutElems ==
    ASSUME NEW S, NEW q \in Seq(S), NEW r \in Elems(q), Distinct(q)
    PROVE  /\ Without(q, r) \in Seq(S)
           /\ Distinct(Without(q, r))
           /\ Elems(Without(q, r)) = Elems(q) \ {r}
<1>1. Len(q) \in Nat /\ \A i \in 1 .. Len(q) : q[i] \in S
  OBVIOUS
<1>2. PICK p \in 1 .. Len(q) : q[p] = r
  BY Zenon DEF Elems
<1>3. \A i \in 1 .. Len(q) : q[i] = r <=> i = p
  BY <1>2, Zenon DEF Distinct
<1> DEFINE n == Len(q) - 1
           Shift(i) == IF p <= i THEN i + 1 ELSE i
           w == [i \in 1 .. n |-> q[Shift(i)]]
<1>4. n \in Nat
  BY <1>1, <1>2
<1>5. \A i \in 1 .. n : (\E j \in 1 .. i : q[j] = r) <=> p <= i
  <2> TAKE i \in 1 .. n
  <2>1. \A j \in 1 .. i : j \in 1 .. Len(q)
    BY <1>1
  <2>2. p <= i => p \in 1 .. i
    BY <1>1, <1>2
  <2>3. \A j \in 1 .. i : q[j] = r => p <= i
    BY <1>2, <1>3, <2>1
  <2> QED
    BY <1>2, <2>2, <2>3, Zenon
<1>6. Without(q, r) = [i \in 1 .. n |-> IF \E j \in 1 .. i : q[j] = r THEN q[i + 1] ELSE q[i]]
  BY <1>2, Zenon DEF Without
<1>7. \A i \in 1 .. n : (IF \E j \in 1 .. i : q[j] = r THEN q[i + 1] ELSE q[i]) = q[Shift(i)]
  BY <1>5, Zenon
<1>8. Without(q, r) = w
  BY <1>6, <1>7, Zenon
<1>9. \A i \in 1 .. n : Shift(i) \in 1 .. Len(q) /\ Shift(i) # p
  BY <1>1, <1>2
<1>10. \A i, j \in 1 .. n : Shift(i) = Shift(j) => i = j
  BY <1>1, <1>2
<1>11. \A i \in 1 .. Len(q) : i # p => \E j \in 1 .. n : Shift(j) = i
  <2> TAKE i \in 1 .. Len(q)
  <2>1. CASE i < p
    <3>1. i \in 1 .. n /\ Shift(i) = i
      BY SMTT(30), <1>1, <1>2, <2>1
    <3> QED
      BY <3>1, Zenon
  <2>2. CASE i > p
    <3>1. i - 1 \in 1 .. n /\ Shift(i - 1) = i
      BY SMTT(30), <1>1, <1>2, <2>2
    <3> QED
      BY <3>1, Zenon
  <2> QED
    BY SMTT(30), <1>1, <1>2, <2>1, <2>2
<1> HIDE DEF n, Shift
<1>12. w \in Seq(S) /\ Len(w) = n /\ \A i \in 1 .. n : w[i] = q[Shift(i)]
  BY <1>1, <1>4, <1>9
<1> HIDE DEF w
<1>13. Distinct(w)
  <2> SUFFICES ASSUME NEW i \in 1 .. n, NEW j \in 1 .. n, w[i] = w[j] PROVE i = j
    BY <1>12 DEF Distinct
  <2>1. q[Shift(i)] = q[Shift(j)]
    BY <1>12, Zenon
  <2>2. Shift(i) = Shift(j)
    BY <1>9, <2>1, Zenon DEF Distinct
  <2> QED
    BY <1>10, <2>2, Zenon
<1>14. Elems(w) = Elems(q) \ {r}
  <2>1. ASSUME NEW x \in Elems(w) PROVE x \in Elems(q) /\ x # r
    BY <1>3, <1>9, <1>12, ZenonT(60) DEF Elems
  <2>2. ASSUME NEW x \in Elems(q), x # r PROVE x \in Elems(w)
    <3>1. PICK i \in 1 .. Len(q) : x = q[i]
      BY Zenon DEF Elems
    <3>2. PICK j \in 1 .. n : Shift(j) = i
      BY <1>2, <1>11, <2>2, <3>1, Zenon
    <3> QED
      BY <1>12, <3>1, <3>2, Zenon DEF Elems
  <2> QED
    BY <2>1, <2>2, Zenon
<1> QED
  BY <1>8, <1>12, <1>13, <1>14, Zenon

-----------------------------------------------------------------------------
(* Places                                                                  *)

LEMMA OccupiedIsFinite ==
    \A k \in Kinds : IsFiniteSet(Occupied(k)) /\ Cardinality(Occupied(k)) \in Nat
<1> TAKE k \in Kinds
<1>1. Occupied(k) \subseteq Records
  BY Zenon DEF Occupied
<1> QED
  BY <1>1, AddressAssumption, FS_Subset, FS_CardinalityType, Zenon

\* park_start(): the counter and the records agree again.
LEMMA PlaceTaken ==
    ASSUME TypeOK, PlacesAreCounted,
           NEW r \in Records, NEW x \in Record, ~rec[r].running, x.running,
           Room(KindOf[x.job]),
           rec' = [rec EXCEPT ![r] = x],
           running' = [running EXCEPT ![KindOf[x.job]] = @ + 1]
    PROVE  PlacesAreCounted'
<1> DEFINE kind == KindOf[x.job]
<1>1. kind \in Kinds
  BY KindType DEF Record
<1>2. rec'[r] = x /\ \A s \in Records : s # r => rec'[s] = rec[s]
  BY DEF TypeOK
<1>3. /\ running'[kind] = running[kind] + 1
      /\ \A k \in Kinds : k # kind => running'[k] = running[k]
  <2>1. running = [k \in Kinds |-> running[k]]
    BY Zenon DEF TypeOK
  <2> QED
    BY <1>1, <2>1, Zenon
<1>4. running[kind] \in Nat /\ RunningMax[kind] \in Nat /\ running[kind] < RunningMax[kind]
  BY <1>1, LimitsAssumption, Zenon DEF TypeOK, Room
<1> HIDE DEF kind
<1>5. ASSUME NEW k \in Kinds PROVE running'[k] = Cardinality(Occupied(k)') /\ running'[k] <= RunningMax[k]
  <2>1. CASE k = kind
    <3>1. Occupied(k)' = Occupied(k) \cup {r} /\ r \notin Occupied(k)
      BY <1>2, <2>1, Zenon DEF Occupied, kind
    <3>2. Cardinality(Occupied(k)') = Cardinality(Occupied(k)) + 1
      BY <3>1, OccupiedIsFinite, FS_AddElement, Zenon
    <3> QED
      BY SMTT(30), <1>3, <1>4, <2>1, <3>2 DEF PlacesAreCounted
  <2>2. CASE k # kind
    <3>1. \A s \in Records : (rec'[s].running /\ KindOf[rec'[s].job] = k)
                               <=> (rec[s].running /\ KindOf[rec[s].job] = k)
      BY <1>2, <2>2, Zenon DEF kind
    <3>2. Occupied(k)' = Occupied(k)
      BY <3>1, ZenonT(60) DEF Occupied
    <3> QED
      BY <1>3, <2>2, <3>2, Zenon DEF PlacesAreCounted
  <2> QED
    BY <2>1, <2>2, ZenonT(60)
<1> QED
  BY <1>5, Zenon DEF PlacesAreCounted

\* park_finished(), and the record is freed.
LEMMA PlaceGiven ==
    ASSUME TypeOK, PlacesAreCounted,
           NEW r \in Records, rec[r].running,
           rec' = [rec EXCEPT ![r] = Freed],
           running' = [running EXCEPT ![KindOf[rec[r].job]] = @ - 1]
    PROVE  PlacesAreCounted' /\ running[KindOf[rec[r].job]] \in Nat \ {0}
<1>1. PICK kind \in Kinds : kind = KindOf[rec[r].job]
  BY SMTT(30), KindType DEF Record, TypeOK
<1>2. ~rec'[r].running /\ \A s \in Records : s # r => rec'[s] = rec[s]
  BY DEF TypeOK, Freed
<1>3. /\ running'[kind] = running[kind] - 1
      /\ \A k \in Kinds : k # kind => running'[k] = running[k]
  <2>1. running = [k \in Kinds |-> running[k]]
    BY Zenon DEF TypeOK
  <2> QED
    BY <1>1, <2>1, Zenon
<1>4. RunningMax[kind] \in Nat /\ running[kind] \in Nat
  BY <1>1, LimitsAssumption, Zenon DEF TypeOK
<1>5. r \in Occupied(kind)
  BY <1>1, Zenon DEF Occupied
<1>6. running[kind] = Cardinality(Occupied(kind)) /\ running[kind] <= RunningMax[kind]
  BY <1>1, Zenon DEF PlacesAreCounted
<1>7. Occupied(kind)' = Occupied(kind) \ {r}
  <2>1. \A s \in Records : (rec'[s].running /\ KindOf[rec'[s].job] = kind)
                             <=> (rec[s].running /\ KindOf[rec[s].job] = kind /\ s # r)
    BY <1>2, Zenon
  <2> QED
    BY <2>1, Zenon DEF Occupied
<1>8. Cardinality(Occupied(kind)') = Cardinality(Occupied(kind)) - 1
  <2>1. IsFiniteSet(Occupied(kind))
    BY OccupiedIsFinite, Zenon
  <2>2. Cardinality(Occupied(kind) \ {r})
            = IF r \in Occupied(kind) THEN Cardinality(Occupied(kind)) - 1 ELSE Cardinality(Occupied(kind))
    BY <2>1, FS_RemoveElement, Zenon
  <2> QED
    BY <1>5, <1>7, <2>2, Zenon
<1>9. running[kind] # 0
  BY <1>1, <1>5, <1>6, OccupiedIsFinite, FS_EmptySet, Zenon
<1>10. ASSUME NEW k \in Kinds PROVE running'[k] = Cardinality(Occupied(k)') /\ running'[k] <= RunningMax[k]
  <2>1. CASE k = kind
    BY SMTT(30), <1>3, <1>4, <1>6, <1>8, <2>1
  <2>2. CASE k # kind
    <3>1. \A s \in Records : (rec'[s].running /\ KindOf[rec'[s].job] = k)
                               <=> (rec[s].running /\ KindOf[rec[s].job] = k)
      BY <1>1, <1>2, <2>2, Zenon
    <3>2. Occupied(k)' = Occupied(k)
      BY <3>1, Zenon DEF Occupied
    <3> QED
      BY <1>3, <2>2, <3>2, Zenon DEF PlacesAreCounted
  <2> QED
    BY <2>1, <2>2, ZenonT(60)
<1> QED
  BY SMTT(30), <1>1, <1>4, <1>9, <1>10 DEF PlacesAreCounted

\* What neither starts nor finishes leaves the places alone.
LEMMA PlacesSame ==
    ASSUME PlacesAreCounted, running' = running,
           \A s \in Records : /\ rec'[s].running <=> rec[s].running
                              /\ rec[s].running => rec'[s].job = rec[s].job
    PROVE  PlacesAreCounted'
<1>1. \A k \in Kinds : Occupied(k)' = Occupied(k)
  BY Zenon DEF Occupied
<1> QED
  BY <1>1, Zenon DEF PlacesAreCounted

LEMMA PlaceIsTaken ==
    ASSUME TypeOK, PlacesAreCounted, NEW r \in Records, rec[r].running
    PROVE  running[KindOf[rec[r].job]] # 0
<1>1. PICK kind \in Kinds : kind = KindOf[rec[r].job]
  BY KindType DEF TypeOK, Record
<1>2. r \in Occupied(kind)
  BY <1>1, Zenon DEF Occupied
<1>3. Occupied(kind) # {} /\ IsFiniteSet(Occupied(kind))
  BY <1>2, OccupiedIsFinite, Zenon
<1>4. Cardinality(Occupied(kind)) # 0
  BY <1>3, FS_EmptySet, Zenon
<1> QED
  BY <1>1, <1>4, Zenon DEF PlacesAreCounted

-----------------------------------------------------------------------------
(* The queues hold the waiting                                             *)

LEMMA QueueSame ==
    ASSUME QueuesHoldTheWaiting, queue' = queue,
           \A s \in Records, k \in Kinds : Waits(s, k)' <=> Waits(s, k)
    PROVE  QueuesHoldTheWaiting'
<1> SUFFICES ASSUME NEW k \in Kinds
             PROVE  /\ Distinct(queue[k])'
                    /\ \A s \in Records : s \in Elems(queue[k])' <=> Waits(s, k)'
  BY Zenon DEF QueuesHoldTheWaiting
<1>1. Distinct(queue[k])' <=> Distinct(queue[k])
  BY Zenon DEF Distinct
<1>2. Elems(queue[k])' = Elems(queue[k])
  BY Zenon DEF Elems
<1> QED
  BY <1>1, <1>2, Zenon DEF QueuesHoldTheWaiting

\* One queue is replaced, and holds who waits.
LEMMA QueueReplaced ==
    ASSUME TypeOK, QueuesHoldTheWaiting, NEW kind \in Kinds, NEW q \in Seq(Records),
           queue' = [queue EXCEPT ![kind] = q],
           Distinct(q), \A s \in Records : s \in Elems(q) <=> Waits(s, kind)',
           \A s \in Records, k \in Kinds : k # kind => (Waits(s, k)' <=> Waits(s, k))
    PROVE  QueuesHoldTheWaiting'
<1> SUFFICES ASSUME NEW k \in Kinds
             PROVE  /\ Distinct(queue[k])'
                    /\ \A s \in Records : s \in Elems(queue[k])' <=> Waits(s, k)'
  BY Zenon DEF QueuesHoldTheWaiting
<1>1. CASE k = kind
  <2>1. queue'[k] = q
    BY <1>1 DEF TypeOK
  <2>2. Distinct(queue[k])'
    BY <2>1, SMT DEF Distinct
  <2>3. Elems(queue[k])' = Elems(q)
    BY <2>1, Zenon DEF Elems
  <2>4. \A s \in Records : Waits(s, k)' <=> Waits(s, kind)'
    BY <1>1, Zenon DEF Waits
  <2> QED
    BY <2>2, <2>3, <2>4, Zenon
<1>2. CASE k # kind
  <2>1. queue'[k] = queue[k]
    BY <1>2 DEF TypeOK
  <2>2. Distinct(queue[k])' <=> Distinct(queue[k])
    BY <2>1, Zenon DEF Distinct
  <2>3. Elems(queue[k])' = Elems(queue[k])
    BY <2>1, Zenon DEF Elems
  <2> QED
    BY <1>2, <2>2, <2>3, ZenonT(60) DEF QueuesHoldTheWaiting
<1> QED
  BY <1>1, <1>2, Zenon

\* A record that nobody had joins its queue.
LEMMA QueueGrows ==
    ASSUME TypeOK, QueuesHoldTheWaiting,
           NEW r \in Records, NEW x \in Record, ~rec[r].live, x.live, ~x.running,
           rec' = [rec EXCEPT ![r] = x],
           queue' = [queue EXCEPT ![KindOf[x.job]] = Append(@, r)]
    PROVE  QueuesHoldTheWaiting'
<1>1. PICK kind \in Kinds : kind = KindOf[x.job]
  BY SMTT(30), KindType DEF Record
<1>2. rec'[r] = x /\ \A s \in Records : s # r => rec'[s] = rec[s]
  BY DEF TypeOK
<1>3. queue[kind] \in Seq(Records) /\ Distinct(queue[kind])
      /\ \A s \in Records : s \in Elems(queue[kind]) <=> Waits(s, kind)
  BY Zenon DEF TypeOK, QueuesHoldTheWaiting
<1>4. r \notin Elems(queue[kind])
  BY <1>3, Zenon DEF Waits
<1>5. PICK q \in Seq(Records) :
        q = Append(queue[kind], r) /\ Distinct(q) /\ Elems(q) = Elems(queue[kind]) \cup {r}
  BY <1>3, <1>4, AppendElems, ZenonT(60)
<1>6. \A s \in Records : s \in Elems(q) <=> Waits(s, kind)'
  BY <1>1, <1>2, <1>3, <1>5, ZenonT(60) DEF Waits
<1>7. \A s \in Records, k \in Kinds : k # kind => (Waits(s, k)' <=> Waits(s, k))
  BY <1>1, <1>2, Zenon DEF Waits
<1>8. queue' = [queue EXCEPT ![kind] = q]
  BY <1>1, <1>5, Zenon
<1> QED
  BY <1>5, <1>6, <1>7, <1>8, QueueReplaced, ZenonT(60)

\* A record that waited leaves its queue.
LEMMA QueueShrinks ==
    ASSUME TypeOK, QueuesHoldTheWaiting,
           NEW r \in Records, NEW x \in Record, NEW kind \in Kinds, NEW q \in Seq(Records),
           Waits(r, kind), x.running \/ ~x.live,
           rec' = [rec EXCEPT ![r] = x],
           queue' = [queue EXCEPT ![kind] = q],
           Distinct(q), Elems(q) = Elems(queue[kind]) \ {r}
    PROVE  QueuesHoldTheWaiting'
<1>1. rec'[r] = x /\ \A s \in Records : s # r => rec'[s] = rec[s]
  BY DEF TypeOK
<1>2. \A s \in Records : s \in Elems(queue[kind]) <=> Waits(s, kind)
  BY Zenon DEF QueuesHoldTheWaiting
<1>3. \A s \in Records : s \in Elems(q) <=> Waits(s, kind)'
  BY <1>1, <1>2, ZenonT(60) DEF Waits
<1>4. \A s \in Records, k \in Kinds : k # kind => (Waits(s, k)' <=> Waits(s, k))
  BY <1>1, ZenonT(60) DEF Waits
<1> QED
  BY <1>3, <1>4, QueueReplaced, Zenon

-----------------------------------------------------------------------------
(* What is true of the records                                             *)

\* Steps that leave the records alone.
LEMMA RecordsQuiet ==
    ASSUME RecordsInv,
           UNCHANGED <<rec, queue, running, sweep_pending>>, todo'.drain = todo.drain,
           \A r \in Records : helper'[r] = "none" <=> helper[r] = "none"
    PROVE  RecordsInv'
<1>1. \A s \in Records, k \in Kinds : Waits(s, k)' <=> Waits(s, k)
  BY Zenon DEF RecordsInv, Waits
<1>2. QueuesHoldTheWaiting'
  BY <1>1, QueueSame, Zenon DEF RecordsInv
<1>3. PlacesAreCounted'
  BY PlacesSame, Zenon DEF RecordsInv
<1>4. HelpersKeepRecords' /\ RunningIsLive'
  BY Zenon DEF RecordsInv, HelpersKeepRecords, RunningIsLive
<1>5. WaitingOrDraining'
  BY Zenon DEF RecordsInv, WaitingOrDraining
<1>6. OneSweep' /\ SweepIsPending'
  BY Zenon DEF RecordsInv, OneSweep, SweepIsPending, Sweeps
<1> QED
  BY <1>2, <1>3, <1>4, <1>5, <1>6, Zenon DEF RecordsInv

\* What is said of sweeps, when one record changes.
LEMMA SweepsKept ==
    ASSUME TypeOK, OneSweep, SweepIsPending,
           NEW r \in Records, NEW x \in Record, rec' = [rec EXCEPT ![r] = x],
           \/ /\ x.live /\ rec[r].live /\ x.job = rec[r].job
              /\ x.cc = rec[r].cc \/ x.cc = NULL
              /\ sweep_pending' = sweep_pending
           \/ /\ ~x.live /\ sweep_pending' = (sweep_pending /\ rec[r].job # "sweep") /\ rec[r].live
           \/ /\ x.live /\ ~rec[r].live
              /\ sweep_pending' = (sweep_pending \/ x.job = "sweep")
              /\ x.job = "sweep" => ~sweep_pending /\ x.cc = NULL
    PROVE  OneSweep' /\ SweepIsPending'
<1>1. rec'[r] = x /\ \A s \in Records : s # r => rec'[s] = rec[s]
  BY DEF TypeOK
<1>2. \A s \in Records : s # r => (Sweeps(s)' <=> Sweeps(s))
  BY <1>1, Zenon DEF Sweeps
<1>3. Sweeps(r)' <=> x.live /\ x.job = "sweep"
  BY <1>1, Zenon DEF Sweeps
<1>4. Sweeps(r) <=> rec[r].live /\ rec[r].job = "sweep"
  BY Zenon DEF Sweeps
<1>5. sweep_pending <=> \E s \in Records : Sweeps(s)
  BY Zenon DEF SweepIsPending, Sweeps
<1>6. sweep_pending' <=> \E s \in Records : Sweeps(s)'
  <2>1. CASE x.live /\ rec[r].live /\ x.job = rec[r].job /\ sweep_pending' = sweep_pending
    BY <1>2, <1>3, <1>4, <1>5, <2>1, ZenonT(60)
  <2>2. CASE ~x.live /\ rec[r].live /\ sweep_pending' = (sweep_pending /\ rec[r].job # "sweep")
    <3>1. CASE rec[r].job = "sweep"
      BY <1>2, <1>3, <1>4, <2>2, <3>1, ZenonT(60) DEF OneSweep
    <3>2. CASE rec[r].job # "sweep"
      BY <1>2, <1>3, <1>4, <1>5, <2>2, <3>2, ZenonT(60)
    <3> QED
      BY <3>1, <3>2, Zenon
  <2>3. CASE x.live /\ ~rec[r].live /\ sweep_pending' = (sweep_pending \/ x.job = "sweep")
    BY <1>2, <1>3, <1>4, <1>5, <2>3, ZenonT(60)
  <2> QED
    BY <2>1, <2>2, <2>3, Zenon
<1>7. SweepIsPending'
  BY <1>6, Zenon DEF SweepIsPending, Sweeps
<1>8. \A s, t \in Records : Sweeps(s)' /\ Sweeps(t)' => s = t
  BY <1>2, <1>3, <1>4, <1>5, ZenonT(60) DEF OneSweep
<1>9. \A s \in Records : Sweeps(s)' => rec'[s].cc = NULL
  BY <1>1, <1>2, <1>3, <1>4, Zenon DEF OneSweep
<1> QED
  BY <1>7, <1>8, <1>9, ZenonT(60) DEF OneSweep

\* park_submit() of a new record x.
LEMMA RecordsSubmit ==
    ASSUME TypeOK, RecordsInv, NEW r \in Records, NEW x \in Record,
           SubmitStarts(r, x) \/ SubmitQueues(r, x), x.live, ~x.running,
           todo'.drain = todo.drain,
           sweep_pending' = (sweep_pending \/ x.job = "sweep"),
           x.job = "sweep" => ~sweep_pending /\ x.cc = NULL
    PROVE  RecordsInv'
<1>1. PICK kind \in Kinds : kind = KindOf[x.job]
  BY KindType DEF Record
<1>2. ~rec[r].live /\ ~rec[r].running /\ helper[r] = "none"
  BY Zenon DEF SubmitStarts, SubmitQueues, Unused, RecordsInv, RunningIsLive, HelpersKeepRecords
<1>3. CASE SubmitStarts(r, x)
  <2>1. PICK y \in Record :
            /\ y = [x EXCEPT !.running = TRUE]
            /\ y.running /\ y.live = x.live /\ y.job = x.job /\ y.cc = x.cc /\ y.req = x.req
    BY Started, Zenon
  <2>2. /\ rec' = [rec EXCEPT ![r] = y] /\ queue' = queue
        /\ running' = [running EXCEPT ![kind] = @ + 1]
        /\ helper' = [helper EXCEPT ![r] = "working"]
        /\ Room(kind)
    BY <1>1, <1>3, <2>1, Zenon DEF SubmitStarts, ParkStart
  <2>3. rec'[r] = y /\ \A s \in Records : s # r => rec'[s] = rec[s]
    BY <2>2, Zenon DEF TypeOK
  <2>4. helper'[r] = "working" /\ \A s \in Records : s # r => helper'[s] = helper[s]
    BY <2>2, Zenon DEF TypeOK
  <2>5. QueuesHoldTheWaiting'
    <3>1. \A s \in Records, k \in Kinds : Waits(s, k)' <=> Waits(s, k)
      BY <1>2, <2>1, <2>3, Zenon DEF Waits
    <3> QED
      BY <2>2, <3>1, QueueSame, Zenon DEF RecordsInv
  <2>6. PlacesAreCounted'
    <3>1. KindOf[y.job] = kind
      BY <1>1, <2>1, Zenon
    <3> QED
      BY <1>2, <2>1, <2>2, <3>1, PlaceTaken, ZenonT(60) DEF RecordsInv
  <2>7. HelpersKeepRecords' /\ RunningIsLive'
    <3>1. rec'[r].live /\ rec'[r].running /\ helper'[r] # "none"
      BY SMTT(30), <2>1, <2>3, <2>4
    <3>2. \A s \in Records : s # r =>
            /\ helper'[s] # "none" <=> rec'[s].live /\ rec'[s].running
            /\ rec'[s].running => rec'[s].live
      BY <2>3, <2>4, Zenon DEF RecordsInv, HelpersKeepRecords, RunningIsLive
    <3> QED
      BY <3>1, <3>2, Zenon DEF HelpersKeepRecords, RunningIsLive
  <2>8. WaitingOrDraining'
    <3>1. \A k \in Kinds : k # kind => running'[k] = running[k]
      BY <2>2, Zenon DEF TypeOK
    <3>2. running[kind] # RunningMax[kind]
      BY SMTT(30), <2>2, LimitsAssumption DEF Room, TypeOK
    <3> QED
      BY <2>2, <3>1, <3>2, Zenon DEF RecordsInv, WaitingOrDraining
  <2>9. OneSweep' /\ SweepIsPending'
    BY <1>2, <2>1, <2>2, SweepsKept, ZenonT(60) DEF RecordsInv
  <2> QED
    BY <2>5, <2>6, <2>7, <2>8, <2>9, ZenonT(60) DEF RecordsInv
<1>4. CASE SubmitQueues(r, x)
  <2>1. /\ rec' = [rec EXCEPT ![r] = x] /\ running' = running /\ helper' = helper
        /\ queue' = [queue EXCEPT ![KindOf[x.job]] = Append(@, r)]
        /\ queue' = [queue EXCEPT ![kind] = Append(@, r)]
        /\ ~Room(kind)
    BY <1>1, <1>4, Zenon DEF SubmitQueues
  <2>2. rec'[r] = x /\ \A s \in Records : s # r => rec'[s] = rec[s]
    BY <2>1, Zenon DEF TypeOK
  <2>3. QueuesHoldTheWaiting'
    BY <1>2, <2>1, QueueGrows, Zenon DEF RecordsInv
  <2>4. PlacesAreCounted'
    BY <1>2, <2>1, <2>2, PlacesSame, ZenonT(60) DEF RecordsInv
  <2>5. HelpersKeepRecords' /\ RunningIsLive'
    <3>1. rec'[r].live /\ ~rec'[r].running /\ helper'[r] = "none"
      BY <1>2, <2>1, <2>2, Zenon
    <3>2. \A s \in Records : s # r =>
            /\ helper'[s] # "none" <=> rec'[s].live /\ rec'[s].running
            /\ rec'[s].running => rec'[s].live
      BY <2>1, <2>2, Zenon DEF RecordsInv, HelpersKeepRecords, RunningIsLive
    <3> QED
      BY <3>1, <3>2, Zenon DEF HelpersKeepRecords, RunningIsLive
  <2>6. WaitingOrDraining'
    <3>1. \A k \in Kinds : k # kind => queue'[k] = queue[k]
      BY <2>1, Zenon DEF TypeOK
    <3>2. running[kind] <= RunningMax[kind]
      BY Zenon DEF RecordsInv, PlacesAreCounted
    <3>0. running[kind] \in Nat /\ RunningMax[kind] \in Nat
      BY SMTT(30), LimitsAssumption DEF TypeOK
    <3>3. running[kind] = RunningMax[kind]
      BY SMTT(30), <2>1, <3>0, <3>2 DEF Room
    <3> QED
      BY <2>1, <3>1, <3>3, Zenon DEF RecordsInv, WaitingOrDraining
  <2>7. OneSweep' /\ SweepIsPending'
    BY <1>2, <2>1, SweepsKept, Zenon DEF RecordsInv
  <2> QED
    BY <2>3, <2>4, <2>5, <2>6, <2>7, ZenonT(60) DEF RecordsInv
<1> QED
  BY <1>3, <1>4, Zenon

\* park_abandon() of a record somebody waits for.
LEMMA RecordsAbandon ==
    ASSUME TypeOK, RecordsInv, NEW r \in Records, ParkAbandon(r),
           rec[r].live, rec[r].cc # NULL,
           UNCHANGED <<running, sweep_pending, todo>>
    PROVE  RecordsInv'
<1>1. PICK x \in Record :
            /\ rec' = [rec EXCEPT ![r] = x] /\ x.cc = NULL
            /\ \/ /\ x.live = rec[r].live /\ x.running = rec[r].running
                  /\ x.job = rec[r].job /\ x.req = rec[r].req
                  /\ queue' = queue
               \/ /\ ~rec[r].running /\ x = Freed
                  /\ queue' = [queue EXCEPT ![KindOf[rec[r].job]] = Without(@, r)]
  BY ParkAbandonShape, Zenon
<1>2. rec'[r] = x /\ \A s \in Records : s # r => rec'[s] = rec[s]
  BY <1>1, Zenon DEF TypeOK
<1>3. \A s \in Records : helper'[s] = helper[s] \/ (helper[s] = "working" /\ helper'[s] = "killed")
  BY ParkAbandonShape, Zenon
<1>4. \A s \in Records : helper'[s] = "none" <=> helper[s] = "none"
  BY <1>3
<1>5. rec[r].job # "sweep"
  BY Zenon DEF RecordsInv, OneSweep, Sweeps
<1>6. CASE /\ x.live = rec[r].live /\ x.running = rec[r].running /\ x.job = rec[r].job
           /\ queue' = queue
  <2>1. \A s \in Records, k \in Kinds : Waits(s, k)' <=> Waits(s, k)
    BY <1>2, <1>6, Zenon DEF Waits
  <2>2. QueuesHoldTheWaiting'
    BY <1>6, <2>1, QueueSame, Zenon DEF RecordsInv
  <2>3. PlacesAreCounted'
    BY <1>2, <1>6, PlacesSame, Zenon DEF RecordsInv
  <2>4. HelpersKeepRecords' /\ RunningIsLive'
    BY <1>2, <1>4, <1>6, Zenon DEF RecordsInv, HelpersKeepRecords, RunningIsLive
  <2>5. WaitingOrDraining'
    BY <1>6, Zenon DEF RecordsInv, WaitingOrDraining
  <2>6. OneSweep' /\ SweepIsPending'
    BY <1>1, <1>6, SweepsKept, Zenon DEF RecordsInv
  <2> QED
    BY <2>2, <2>3, <2>4, <2>5, <2>6, ZenonT(60) DEF RecordsInv
<1>7. CASE /\ ~rec[r].running /\ x = Freed
           /\ queue' = [queue EXCEPT ![KindOf[rec[r].job]] = Without(@, r)]
  <2>1. PICK kind \in Kinds : kind = KindOf[rec[r].job]
    BY SMTT(30), KindType DEF TypeOK, Record
  <2>2. Waits(r, kind) /\ ~x.live /\ ~x.running
    BY SMTT(30), <1>7, <2>1 DEF Waits, Freed
  <2>3. queue[kind] \in Seq(Records) /\ Distinct(queue[kind]) /\ r \in Elems(queue[kind])
    BY <2>2, Zenon DEF TypeOK, RecordsInv, QueuesHoldTheWaiting
  <2>4. PICK q \in Seq(Records) :
            q = Without(queue[kind], r) /\ Distinct(q) /\ Elems(q) = Elems(queue[kind]) \ {r}
    BY <2>3, WithoutElems, Zenon
  <2>5. queue' = [queue EXCEPT ![kind] = q]
    BY <1>7, <2>1, <2>4, Zenon
  <2>6. QueuesHoldTheWaiting'
    BY <1>1, <2>2, <2>4, <2>5, QueueShrinks, ZenonT(60) DEF RecordsInv
  <2>7. PlacesAreCounted'
    BY <1>2, <1>7, <2>2, PlacesSame, ZenonT(60) DEF RecordsInv
  <2>8. HelpersKeepRecords' /\ RunningIsLive'
    BY <1>2, <1>4, <1>7, <2>2, ZenonT(60) DEF RecordsInv, HelpersKeepRecords, RunningIsLive
  <2>9. WaitingOrDraining'
    <3>1. \A k \in Kinds : queue'[k] # <<>> => queue[k] # <<>>
      <4> TAKE k \in Kinds
      <4>1. CASE k = kind
        BY <2>3, <4>1, EmptyElems, ZenonT(60)
      <4>2. CASE k # kind
        BY <2>5, <4>2, Zenon DEF TypeOK
      <4> QED
        BY <4>1, <4>2, Zenon
    <3> QED
      BY <3>1, Zenon DEF RecordsInv, WaitingOrDraining
  <2>10. OneSweep' /\ SweepIsPending'
    <3>1. sweep_pending' = (sweep_pending /\ rec[r].job # "sweep")
      BY <1>5, Zenon DEF TypeOK
    <3> QED
      BY <1>1, <2>2, <3>1, SweepsKept, ZenonT(60) DEF RecordsInv
  <2> QED
    BY <2>6, <2>7, <2>8, <2>9, <2>10, ZenonT(60) DEF RecordsInv
<1> QED
  BY <1>1, <1>6, <1>7, Zenon

\* A turn of park_start_waiting() starts a record.
LEMMA RecordsWaitingStarts ==
    ASSUME TypeOK, RecordsInv, NEW kind \in Kinds, NEW r \in Records, NEW x \in Record,
           todo.drain = kind, Room(kind), queue[kind] # <<>>,
           queue' = [queue EXCEPT ![kind] = Tail(@)],
           r = Head(queue[kind]), x = rec[r], WaitingStarts(kind, r, x)
    PROVE  RecordsInv'
<1>1. Waits(r, kind)
  BY HeadWaits, Zenon
<1>2. x.live /\ ~x.running /\ KindOf[x.job] = kind
  BY <1>1, Zenon DEF Waits
<1>3. PICK q \in Seq(Records) :
        q = Tail(queue[kind]) /\ Distinct(q) /\ Elems(q) = Elems(queue[kind]) \ {r}
  BY HeadWaits, Zenon
<1>4. PICK y \in Record :
        /\ y = [x EXCEPT !.running = TRUE]
        /\ y.running /\ y.live = x.live /\ y.job = x.job /\ y.cc = x.cc /\ y.req = x.req
  BY Started, Zenon
<1>5. /\ rec' = [rec EXCEPT ![r] = y] /\ queue' = [queue EXCEPT ![kind] = q]
      /\ running' = [running EXCEPT ![kind] = @ + 1]
      /\ helper' = [helper EXCEPT ![r] = "working"]
      /\ todo' = todo /\ sweep_pending' = sweep_pending
  BY <1>2, <1>3, <1>4, Zenon DEF WaitingStarts, ParkStart
<1>6. rec'[r] = y /\ \A s \in Records : s # r => rec'[s] = rec[s]
  BY <1>5, Zenon DEF TypeOK
<1>7. helper'[r] = "working" /\ \A s \in Records : s # r => helper'[s] = helper[s]
  BY <1>5, Zenon DEF TypeOK
<1>8. QueuesHoldTheWaiting'
  BY <1>1, <1>3, <1>4, <1>5, QueueShrinks, ZenonT(60) DEF RecordsInv
<1>9. PlacesAreCounted'
  <2>1. KindOf[y.job] = kind /\ ~rec[r].running
    BY <1>2, <1>4, Zenon
  <2> QED
    BY <1>4, <1>5, <2>1, PlaceTaken, Zenon DEF RecordsInv
<1>10. HelpersKeepRecords' /\ RunningIsLive'
  <2>1. rec'[r].live /\ rec'[r].running /\ helper'[r] # "none"
    BY SMTT(30), <1>2, <1>4, <1>6, <1>7
  <2>2. \A s \in Records : s # r =>
            /\ helper'[s] # "none" <=> rec'[s].live /\ rec'[s].running
            /\ rec'[s].running => rec'[s].live
    BY <1>6, <1>7, Zenon DEF RecordsInv, HelpersKeepRecords, RunningIsLive
  <2> QED
    BY <2>1, <2>2, ZenonT(60) DEF HelpersKeepRecords, RunningIsLive
<1>11. WaitingOrDraining'
  <2>1. \A k \in Kinds : k # kind => running'[k] = running[k] /\ queue'[k] = queue[k]
    BY <1>5, Zenon DEF TypeOK
  <2> QED
    BY <1>5, <2>1, Zenon DEF RecordsInv, WaitingOrDraining
<1>12. OneSweep' /\ SweepIsPending'
  <2>1. y.live /\ rec[r].live /\ y.job = rec[r].job /\ y.cc = rec[r].cc
    BY <1>2, <1>4, Zenon
  <2> QED
    BY <1>5, <2>1, SweepsKept, Zenon DEF RecordsInv
<1> QED
  BY <1>8, <1>9, <1>10, <1>11, <1>12, ZenonT(60) DEF RecordsInv

\* A turn of park_start_waiting() that has no child to give.
LEMMA RecordsWaitingFails ==
    ASSUME TypeOK, RecordsInv, NEW kind \in Kinds, NEW r \in Records, NEW x \in Record,
           todo.drain = kind, queue[kind] # <<>>,
           queue' = [queue EXCEPT ![kind] = Tail(@)],
           r = Head(queue[kind]), x = rec[r], WaitingFails(kind, r, x)
    PROVE  RecordsInv'
<1>1. Waits(r, kind)
  BY HeadWaits, Zenon
<1>2. x.live /\ ~x.running
  BY <1>1, Zenon DEF Waits
<1>3. PICK q \in Seq(Records) :
        q = Tail(queue[kind]) /\ Distinct(q) /\ Elems(q) = Elems(queue[kind]) \ {r}
  BY HeadWaits, Zenon
<1>4. /\ rec' = [rec EXCEPT ![r] = Freed] /\ queue' = [queue EXCEPT ![kind] = q]
      /\ running' = running /\ helper' = helper
      /\ sweep_pending' = (sweep_pending /\ rec[r].job # "sweep")
  BY <1>3, Zenon DEF WaitingFails
<1>5. todo'.drain = kind
  BY DEF WaitingFails, TypeOK
<1>6. rec'[r] = Freed /\ \A s \in Records : s # r => rec'[s] = rec[s]
  BY <1>4, Zenon DEF TypeOK
<1>7. ~Freed.live /\ ~Freed.running
  BY DEF Freed
<1>8. QueuesHoldTheWaiting'
  BY <1>1, <1>3, <1>4, <1>7, FreedType, QueueShrinks, Zenon DEF RecordsInv
<1>9. PlacesAreCounted'
  BY <1>2, <1>4, <1>6, <1>7, PlacesSame, ZenonT(60) DEF RecordsInv
<1>10. HelpersKeepRecords' /\ RunningIsLive'
  <2>1. helper[r] = "none"
    BY <1>2, Zenon DEF RecordsInv, HelpersKeepRecords
  <2>2. ~rec'[r].live /\ ~rec'[r].running /\ helper'[r] = "none"
    BY <1>4, <1>6, <1>7, <2>1, Zenon
  <2>3. \A s \in Records : s # r =>
            /\ helper'[s] # "none" <=> rec'[s].live /\ rec'[s].running
            /\ rec'[s].running => rec'[s].live
    BY <1>4, <1>6, Zenon DEF RecordsInv, HelpersKeepRecords, RunningIsLive
  <2> QED
    BY <2>2, <2>3, Zenon DEF HelpersKeepRecords, RunningIsLive
<1>11. WaitingOrDraining'
  <2>1. \A k \in Kinds : k # kind => running'[k] = running[k] /\ queue'[k] = queue[k]
    BY <1>4, Zenon DEF TypeOK
  <2> QED
    BY <1>5, <2>1, Zenon DEF RecordsInv, WaitingOrDraining
<1>12. OneSweep' /\ SweepIsPending'
  BY <1>2, <1>4, <1>7, FreedType, SweepsKept, Zenon DEF RecordsInv
<1> QED
  BY <1>8, <1>9, <1>10, <1>11, <1>12, ZenonT(60) DEF RecordsInv

\* The loop of park_start_waiting() ends: nobody waits, or no place is free.
LEMMA RecordsWaitingEnds ==
    ASSUME TypeOK, RecordsInv, NEW kind \in Kinds, todo.drain = kind, WaitingEnds(kind)
    PROVE  RecordsInv'
<1>1. UNCHANGED <<rec, queue, running, helper, sweep_pending>>
  BY Zenon DEF WaitingEnds
<1>2. \A s \in Records, k \in Kinds : Waits(s, k)' <=> Waits(s, k)
  BY <1>1, Zenon DEF Waits
<1>3. QueuesHoldTheWaiting'
  BY <1>1, <1>2, QueueSame, Zenon DEF RecordsInv
<1>4. PlacesAreCounted'
  BY <1>1, PlacesSame, Zenon DEF RecordsInv
<1>5. WaitingOrDraining'
  <2>1. running[kind] \in Nat /\ RunningMax[kind] \in Nat
    BY LimitsAssumption DEF TypeOK
  <2>2. running[kind] <= RunningMax[kind]
    BY Zenon DEF RecordsInv, PlacesAreCounted
  <2>3. queue[kind] # <<>> => running[kind] = RunningMax[kind]
    BY SMTT(30), <2>1, <2>2 DEF WaitingEnds, Room
  <2> QED
    BY <1>1, <2>3, Zenon DEF RecordsInv, WaitingOrDraining
<1>6. HelpersKeepRecords' /\ RunningIsLive' /\ OneSweep' /\ SweepIsPending'
  BY <1>1, Zenon DEF RecordsInv, HelpersKeepRecords, RunningIsLive, OneSweep, SweepIsPending, Sweeps
<1> QED
  BY <1>3, <1>4, <1>5, <1>6, Zenon DEF RecordsInv

\* The done callback, up to where it serves the request again.
LEMMA RecordsDone ==
    ASSUME TypeOK, RecordsInv, LoopIsCurrent, NEW r \in Records, HelperDone(r)
    PROVE  RecordsInv'
<1>1. helper[r] \in {"ok", "failed"}
  BY Zenon DEF HelperDone, Take, LoopIsCurrent
<1>2. rec[r].live /\ rec[r].running
  BY <1>1, Zenon DEF RecordsInv, HelpersKeepRecords
<1>3. PICK kind \in Kinds : kind = KindOf[rec[r].job]
  BY KindType DEF TypeOK, Record
<1>4. /\ rec' = [rec EXCEPT ![r] = Freed] /\ queue' = queue
      /\ running' = [running EXCEPT ![KindOf[rec[r].job]] = @ - 1]
      /\ helper' = [helper EXCEPT ![r] = "none"]
      /\ sweep_pending' = (sweep_pending /\ rec[r].job # "sweep")
  BY <1>2, Zenon DEF HelperDone, ParkFinished, SweepOver
<1>5. todo'.drain = kind /\ todo.drain = NULL
  BY <1>3 DEF HelperDone, CallbackEnds, Take, Idle
<1>6. rec'[r] = Freed /\ \A s \in Records : s # r => rec'[s] = rec[s]
  BY <1>4, Zenon DEF TypeOK
<1>7. ~Freed.live /\ ~Freed.running
  BY DEF Freed
<1>8. QueuesHoldTheWaiting'
  <2>1. \A s \in Records, k \in Kinds : Waits(s, k)' <=> Waits(s, k)
    BY <1>2, <1>6, <1>7, Zenon DEF Waits
  <2> QED
    BY <1>4, <2>1, QueueSame, Zenon DEF RecordsInv
<1>9. PlacesAreCounted'
  BY <1>2, <1>4, PlaceGiven, Zenon DEF RecordsInv
<1>10. HelpersKeepRecords' /\ RunningIsLive'
  <2>1. ~rec'[r].live /\ ~rec'[r].running /\ helper'[r] = "none"
    BY <1>4, <1>6, <1>7, Zenon DEF TypeOK
  <2>2. \A s \in Records : s # r => helper'[s] = helper[s]
    BY <1>4, Zenon DEF TypeOK
  <2>3. \A s \in Records : s # r =>
            /\ helper'[s] # "none" <=> rec'[s].live /\ rec'[s].running
            /\ rec'[s].running => rec'[s].live
    BY <1>6, <2>2, Zenon DEF RecordsInv, HelpersKeepRecords, RunningIsLive
  <2> QED
    BY <2>1, <2>3, Zenon DEF HelpersKeepRecords, RunningIsLive
<1>11. WaitingOrDraining'
  <2>1. \A k \in Kinds : k # kind => running'[k] = running[k]
    BY <1>3, <1>4, Zenon DEF TypeOK
  <2>2. \A k \in Kinds : k # NULL
    BY AddressAssumption, Zenon
  <2>3. \A k \in Kinds : queue[k] # <<>> => running[k] = RunningMax[k]
    BY <1>5, <2>2, Zenon DEF RecordsInv, WaitingOrDraining
  <2> QED
    BY <1>4, <1>5, <2>1, <2>3, Zenon DEF WaitingOrDraining
<1>12. OneSweep' /\ SweepIsPending'
  BY <1>2, <1>4, <1>7, FreedType, SweepsKept, Zenon DEF RecordsInv
<1> QED
  BY <1>8, <1>9, <1>10, <1>11, <1>12, ZenonT(60) DEF RecordsInv

LEMMA RecordsKept == PInv /\ [Next]_vars => RecordsInv'
<1> SUFFICES ASSUME PInv, [Next]_vars PROVE RecordsInv'
  OBVIOUS
<1>0. TypeOK /\ RecordsInv /\ ConnsInv
  BY Zenon DEF PInv
<1>1. ASSUME UNCHANGED <<rec, queue, running, sweep_pending, helper>>, todo'.drain = todo.drain
      PROVE  RecordsInv'
  BY <1>0, <1>1, RecordsQuiet, Zenon
<1>2. ASSUME NEW c \in Conns, ClientConnTeardown(c) PROVE RecordsInv'
  <2>1. UNCHANGED <<running, sweep_pending, todo>>
    BY <1>2, Zenon DEF ClientConnTeardown
  <2>2. CASE conn[c].park = NULL
    BY <1>1, <1>2, <2>1, <2>2, Zenon DEF ClientConnTeardown
  <2>3. CASE conn[c].park # NULL
    <3>1. PICK r \in Records : r = conn[c].park
      BY SMTT(30), <1>0, <2>3 DEF TypeOK, Conn
    <3>2. rec[r].live /\ rec[r].cc = c
      BY <1>0, <2>3, <3>1, Zenon DEF ConnsInv, ResultsReachTheirRequest
    <3>3. rec[r].cc # NULL
      BY <3>2, AddressAssumption, Zenon
    <3>4. ParkAbandon(r)
      BY <1>2, <2>3, <3>1, Zenon DEF ClientConnTeardown
    <3> QED
      BY <1>0, <2>1, <3>2, <3>3, <3>4, RecordsAbandon, ZenonT(60)
  <2> QED
    BY <2>2, <2>3, Zenon
<1>3. CASE UNCHANGED vars \/ Poll \/ EndBatch
  BY <1>1, <1>3, Zenon DEF vars, Poll, EndBatch
<1>4. ASSUME NEW c \in Conns, SkipDead(c) \/ ResumeOutput(c) \/ ParkedRead(c) PROVE RecordsInv'
  <2>1. CASE Nothing
    BY <1>1, <2>1, Zenon DEF Nothing
  <2> QED
    BY <1>2, <1>4, <2>1, Zenon DEF SkipDead, ResumeOutput, ParkedRead
<1>5. ASSUME NEW c \in Conns, ReadRequest(c) PROVE RecordsInv'
  <2>1. CASE Nothing
    BY <1>1, <2>1, Zenon DEF Nothing
  <2>2. CASE UNCHANGED <<rec, queue, running, helper, sweep_pending, todo>>
    BY <1>1, <2>2, Zenon
  <2>3. CASE /\ UNCHANGED <<rec, queue, running, helper, sweep_pending>>
             /\ todo' = [todo EXCEPT !.serve = c]
    <3>1. todo'.drain = todo.drain
      BY SMTT(30), <1>0, <2>3 DEF TypeOK
    <3> QED
      BY <1>1, <2>3, <3>1, Zenon
  <2> QED
    BY <1>2, <1>5, <2>1, <2>2, <2>3, ZenonT(60) DEF ReadRequest
<1>6. ASSUME NEW r \in Records, HelperDone(r) PROVE RecordsInv'
  BY <1>0, <1>6, RecordsDone, Zenon DEF ConnsInv
<1>7. ASSUME NEW c \in Conns, ServeRequest(c) PROVE RecordsInv'
  <2>1. todo'.drain = todo.drain /\ sweep_pending' = sweep_pending
    BY SMTT(30), <1>0, <1>7 DEF ServeRequest, TypeOK
  <2>2. CASE UNCHANGED <<rec, queue, running, helper, forks>>
    BY <1>1, <2>1, <2>2, Zenon
  <2>3. ASSUME NextJob(c) # "none", NEW r \in Records,
               SubmitStarts(r, ParkNew(NextJob(c), c)) \/ SubmitQueues(r, ParkNew(NextJob(c), c))
        PROVE  RecordsInv'
    <3>1. PICK job \in Jobs : job = NextJob(c) /\ job # "sweep"
      BY <1>0, <2>3, NextJobType, Zenon
    <3>2. PICK x \in Record : x = ParkNew(job, c) /\ x.live /\ ~x.running /\ x.job = job
      <4>1. c \in Conns \cup {NULL}
        BY Zenon
      <4>2. /\ ParkNew(job, c) \in Record /\ ParkNew(job, c).live /\ ~ParkNew(job, c).running
            /\ ParkNew(job, c).job = job
        BY <1>0, <4>1, ParkNewType, Zenon
      <4> QED
        BY <4>2, Zenon
    <3>3. SubmitStarts(r, x) \/ SubmitQueues(r, x)
      BY <2>3, <3>1, <3>2, ZenonT(60)
    <3>4. sweep_pending' = (sweep_pending \/ x.job = "sweep")
      <4>1. sweep_pending \in BOOLEAN /\ x.job # "sweep"
        BY <1>0, <3>1, <3>2, ZenonT(60) DEF TypeOK
      <4> QED
        BY <2>1, <4>1, Zenon
    <3> QED
      BY <1>0, <2>1, <3>1, <3>2, <3>3, <3>4, RecordsSubmit, ZenonT(60)
  <2> QED
    BY <1>7, <2>2, <2>3, Zenon DEF ServeRequest
<1>8. ASSUME NEW k \in Kinds, ParkStartWaiting(k) PROVE RecordsInv'
  <2>1. todo.drain = k
    BY <1>8, Zenon DEF ParkStartWaiting
  <2> QED
    BY ZenonT(60), <1>0, <1>8, <2>1, WaitingOutcomes, RecordsWaitingStarts, RecordsWaitingFails,
       RecordsWaitingEnds, Zenon
<1>9. ASSUME NEW c \in Conns, Accept(c) PROVE RecordsInv'
  BY <1>1, <1>9, Zenon DEF Accept
<1>10. ASSUME NEW job \in DaemonJobs, DaemonJob(job) PROVE RecordsInv'
  <2>1. job \in Jobs
    BY JobsAreJobs, Zenon
  <2>2. PICK x \in Record : x = ParkNew(job, NULL) /\ x.live /\ ~x.running /\ x.job = job /\ x.cc = NULL
    BY <1>0, <2>1, ParkNewType, ZenonT(60)
  <2>3. PICK r \in Records : SubmitStarts(r, x) \/ SubmitQueues(r, x)
    BY <1>10, <2>2, Zenon DEF DaemonJob
  <2>4. /\ sweep_pending' = (sweep_pending \/ x.job = "sweep") /\ todo' = todo
        /\ x.job = "sweep" => ~sweep_pending
    BY <1>10, <2>2, Zenon DEF DaemonJob, Redundant
  <2> QED
    BY <1>0, <2>2, <2>3, <2>4, RecordsSubmit, ZenonT(60)
<1>11. ASSUME NEW r \in Records, HelperExits(r) PROVE RecordsInv'
  <2>1. \A s \in Records : helper'[s] = "none" <=> helper[s] = "none"
    BY <1>0, <1>11 DEF HelperExits, TypeOK
  <2> QED
    BY <1>0, <1>11, <2>1, RecordsQuiet, ZenonT(60) DEF HelperExits
<1> QED
  BY <1>3, <1>4, <1>5, <1>6, <1>7, <1>8, <1>9, <1>10, <1>11, ZenonT(60) DEF Next, Event, Handler
=============================================================================
