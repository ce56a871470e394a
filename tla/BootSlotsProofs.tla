-------------------------- MODULE BootSlotsProofs --------------------------
(***************************************************************************)
(* Proofs of the safety of the A/B slots, and that they implement ABSlots, *)
(* for every number of tries and attempts, every set of images, and when   *)
(* the loader's and the confirmation's renames may fail.                   *)
(***************************************************************************)
EXTENDS BootSlotsProps, TLAPS

USE TriesAssumption, AttemptsAssumption, VersionAssumption, ImagesAssumption, FaultsAssumption

\* Other() is the other slot.
LEMMA OtherSlot ==
    ASSUME NEW s \in Slots
    PROVE  Other(s) \in Slots /\ Other(s) # s /\ Other(Other(s)) = s
BY DEF Slots, Other

\* A rename under OneEntry: the entry changes its counter and nothing else does.
LEMMA Renaming ==
    ASSUME entries \subseteq Entry, OneEntry,
           NEW e \in entries, NEW l \in NoCounter .. ROOT_UPDATE_TRIES
    PROVE  /\ Renamed(e, l) = (entries \ {e}) \cup {[e EXCEPT !.left = l]}
           /\ Renamed(e, l) \subseteq Entry
           /\ [e EXCEPT !.left = l].slot = e.slot
           /\ [e EXCEPT !.left = l].linux = e.linux
           /\ [e EXCEPT !.left = l].left = l
<1> DEFINE r == [e EXCEPT !.left = l]
<1>1. r \in Entry /\ r.slot = e.slot /\ r.linux = e.linux /\ r.left = l
  BY DEF Entry, NoCounter
<1>2. \A x \in EntriesOf(e.slot) : x = e
  BY DEF EntriesOf, OneEntry
<1>3. {e} \cup {x \in EntriesOf(e.slot) : x.left = l} = {e}
  BY <1>2
<1>4. Renamed(e, l) = (entries \ {e}) \cup {r}
  BY <1>3, Zenon DEF Renamed
<1> QED
  BY <1>1, <1>4

\* What a write of one kind may do.
LEMMA OutcomeType ==
    ASSUME TypeOK, NEW kind, NEW ok \in Outcome(kind), CountFault(ok)
    PROVE  /\ ok \in BOOLEAN
           /\ faults' \in 0 .. MaxFaults
           /\ kind \notin Faults => ok = TRUE
<1>1. faults \in 0 .. MaxFaults /\ MaxFaults \in Nat
  BY DEF TypeOK, FaultsAssumption
<1>2. \/ ok = TRUE
      \/ ok = FALSE /\ kind \in Faults /\ faults < MaxFaults
  BY Zenon DEF Outcome
<1>3. CASE ok = TRUE
  BY <1>1, <1>3 DEF CountFault
<1>4. CASE ok = FALSE /\ kind \in Faults /\ faults < MaxFaults
  <2>1. faults' = faults + 1
    BY <1>4, Zenon DEF CountFault
  <2>2. faults < MaxFaults
    BY <1>4, Zenon
  <2>3. faults + 1 \in 0 .. MaxFaults
    BY <1>1, <2>2
  <2> QED
    BY <1>4, <2>1, <2>3, Zenon
<1> QED
  BY <1>2, <1>3, <1>4, Zenon

\* confirm_boot() renames a counted entry of the slot, or does nothing.
LEMMA Confirming ==
    ASSUME NEW s, NEW ok, entries' \in ConfirmBoot(s, ok)
    PROVE  \/ entries' = entries
           \/ \E e \in entries : e.slot = s /\ entries' = Renamed(e, NoCounter)
BY DEF ConfirmBoot, Counted, EntriesOf

-----------------------------------------------------------------------------
(* Types                                                                   *)

LEMMA RenamedType ==
    ASSUME entries \subseteq Entry, NEW e \in entries, NEW l \in NoCounter .. ROOT_UPDATE_TRIES
    PROVE  Renamed(e, l) \subseteq Entry
BY DEF Renamed, EntriesOf, Entry, NoCounter

LEMMA ConfirmType ==
    ASSUME TypeOK, NEW s, NEW ok, entries' \in ConfirmBoot(s, ok)
    PROVE  entries' \subseteq Entry
<1>1. NoCounter \in NoCounter .. ROOT_UPDATE_TRIES
  BY DEF NoCounter, TriesAssumption
<1> QED
  BY <1>1, Confirming, RenamedType DEF TypeOK

LEMMA HealthyType == Healthy \in Cixd
<1>1. NoTimer \in NoTimer .. BOOT_CONFIRM_MAX_ATTEMPTS - 1
  BY DEF NoTimer, AttemptsAssumption
<1> QED
  BY <1>1 DEF Healthy, Cixd

LEMMA MaybeConfirmType ==
    ASSUME TypeOK, NEW s, NEW c \in Cixd, MaybeConfirmBoot(s, c)
    PROVE  cixd' \in Cixd /\ entries' \subseteq Entry /\ faults' \in 0 .. MaxFaults
<1>1. CASE c.unattached \/ c.unbound
  <2>1. {0, NoTimer} \subseteq NoTimer .. BOOT_CONFIRM_MAX_ATTEMPTS - 1
    BY DEF NoTimer, AttemptsAssumption
  <2>2. PICK n \in {0, NoTimer} : cixd' = [c EXCEPT !.attempts = n]
    BY <1>1, Zenon DEF MaybeConfirmBoot
  <2>3. cixd' \in Cixd
    BY <2>1, <2>2 DEF Cixd
  <2> QED
    BY <1>1, <2>3, Zenon DEF MaybeConfirmBoot, TypeOK
<1>2. CASE ~(c.unattached \/ c.unbound)
  <2>1. PICK ok \in Outcome("confirm") : entries' \in ConfirmBoot(s, ok) /\ CountFault(ok)
    BY <1>2, Zenon DEF MaybeConfirmBoot
  <2> QED
    BY <1>2, <2>1, ConfirmType, OutcomeType, Zenon DEF MaybeConfirmBoot
<1> QED
  BY <1>1, <1>2

\* Every step keeps the types.
\* What StartSwitched hands to maybe_confirm_boot().
LEMMA SwitchedCixd ==
    ASSUME TypeOK, StartSwitched
    PROVE  \E c \in Cixd : MaybeConfirmBoot(running, c) /\ c.switched = cixd.switched
<1>1. PICK attached \in {cixd.attached, config = "linked"}, unbound \in BOOLEAN :
        MaybeConfirmBoot(running, [cixd EXCEPT !.attached = attached, !.unbound = unbound])
  BY Zenon DEF StartSwitched
<1> DEFINE c == [cixd EXCEPT !.attached = attached, !.unbound = unbound]
<1>2. cixd.attached \in BOOLEAN
  BY DEF TypeOK, Cixd
<1>3. attached \in BOOLEAN
  BY <1>2, Zenon
<1>4. c \in Cixd /\ c.switched = cixd.switched
  BY Zenon, <1>3 DEF TypeOK, Cixd
<1> QED
  BY <1>1, <1>4, Zenon

LEMMA TypeStep ==
    ASSUME TypeOK, [Next]_vars
    PROVE  TypeOK'
<1>1. CASE BootEntry
  <2>1. PICK e \in Chosen, ok \in Outcome("decrement") :
          entries' = DecrementTries(e, ok) /\ CountFault(ok) /\ running' = e.slot
    BY <1>1, Zenon DEF BootEntry
  <2>2. e \in entries
    BY Zenon DEF Chosen, PickEntry, Newest, FindEntryById
  <2>3. e.slot \in Slots /\ e.left \in NoCounter .. ROOT_UPDATE_TRIES
    BY <2>2 DEF TypeOK, Entry
  <2>4. entries' \subseteq Entry
    <3>1. CASE e.left > 0 /\ ok
      <4>1. e.left - 1 \in NoCounter .. ROOT_UPDATE_TRIES
        BY <2>3, <3>1 DEF NoCounter, TriesAssumption
      <4> QED
        BY <2>1, <2>2, <3>1, <4>1, RenamedType, Zenon DEF TypeOK, DecrementTries
    <3>2. CASE ~(e.left > 0 /\ ok)
      BY <2>1, <3>2, Zenon DEF TypeOK, DecrementTries
    <3> QED
      BY <3>1, <3>2
  <2>5. faults' \in 0 .. MaxFaults
    BY Zenon, <2>1, OutcomeType
  <2> QED
    BY <1>1, <2>1, <2>3, <2>4, <2>5, Zenon DEF TypeOK, BootEntry
<1>3. CASE Start
  <2>1. PICK c \in NetworkOf(root[running]) : MaybeConfirmBoot(running, c)
    BY <1>3, Zenon DEF Start
  <2>2. c \in Cixd
    BY Zenon DEF NetworkOf
  <2>3. config' \in {"fresh", "unlinked", "linked"}
    BY <1>3, Zenon DEF Start
  <2> QED
    BY <1>3, <2>1, <2>2, <2>3, MaybeConfirmType, Zenon DEF TypeOK, Start
<1>4. CASE Panic \/ ConfirmTimerGivesUp \/ Reboot \/ PowerCut \/ SwitchFails
  BY <1>4, HealthyType, Zenon
     DEF TypeOK, Panic, ConfirmTimerGivesUp, Reboot, PowerCut, SwitchFails, Down, esp
<1>5. CASE Park
  BY <1>5, Zenon DEF TypeOK, Park, esp
<1>6. CASE ConfirmTimerAttaches
  <2>1. PICK ok \in Outcome("confirm") : entries' \in ConfirmBoot(running, ok) /\ CountFault(ok)
    BY <1>6, Zenon DEF ConfirmTimerAttaches
  <2>2. cixd' \in Cixd
    <3>1. NoTimer \in NoTimer .. BOOT_CONFIRM_MAX_ATTEMPTS - 1
      BY DEF NoTimer, AttemptsAssumption
    <3> QED
      BY Zenon, <1>6, <3>1 DEF TypeOK, ConfirmTimerAttaches, Cixd
  <2> QED
    BY <1>6, <2>1, <2>2, ConfirmType, OutcomeType, Zenon DEF TypeOK, ConfirmTimerAttaches
<1>7. CASE ConfirmTimerRetries
  <2>1. cixd.attempts + 1 \in NoTimer .. BOOT_CONFIRM_MAX_ATTEMPTS - 1
    BY <1>7 DEF TypeOK, Cixd, ConfirmTimerRetries, LastAttempt, NoTimer, AttemptsAssumption
  <2>2. cixd' \in Cixd
    BY <1>7, <2>1 DEF TypeOK, Cixd, ConfirmTimerRetries
  <2> QED
    BY <1>7, <2>2, Zenon DEF TypeOK, ConfirmTimerRetries, esp
<1>8. CASE AttachUplink \/ SetManagementAddress
  <2>1. cixd' \in Cixd
    BY ZenonT(60), <1>8 DEF TypeOK, Cixd, AttachUplink, SetManagementAddress
  <2> QED
    BY <1>8, <2>1, Zenon DEF TypeOK, AttachUplink, SetManagementAddress, esp
<1>9. ASSUME NEW s \in Slots, BootNextSet(s)
      PROVE  TypeOK'
  BY <1>9, Zenon DEF TypeOK, BootNextSet
<1>10. CASE BootNextClear
  BY <1>10, Zenon DEF TypeOK, BootNextClear
<1>11. ASSUME NEW pattern \in (SUBSET Slots) \ {{}}, LoaderSet(pattern)
       PROVE  TypeOK'
  BY <1>11, Zenon DEF TypeOK, LoaderSet
<1>12. ASSUME NEW e \in entries, EntryDelete(e)
       PROVE  TypeOK'
  BY <1>12, Zenon DEF TypeOK, EntryDelete
<1>13. CASE UpdateStart
  <2>1. PICK ok \in Outcome("unlink") : entries' \in UpdateRemoves(ok) /\ CountFault(ok)
    BY <1>13, Zenon DEF UpdateStart
  <2>2. entries' \subseteq Entry
    BY <2>1, Zenon DEF UpdateRemoves, TypeOK
  <2> QED
    BY <1>13, <2>1, <2>2, OutcomeType, Zenon DEF TypeOK, UpdateStart
<1>14. CASE UpdateWrite
  <2>1. root' \in [Slots -> Images \cup {"torn"}] /\ served' \subseteq Slots
    BY Zenon, <1>14 DEF TypeOK, UpdateWrite
  <2> QED
    BY <1>14, <2>1, Zenon DEF TypeOK, UpdateWrite, esp
<1>15. CASE UpdateFail
  BY <1>15, Zenon DEF TypeOK, UpdateFail, esp
<1>16. CASE UpdateStage
  <2>1. root' \in [Slots -> Images \cup {"torn"}]
    <3>1. PICK image \in Images : root' = [root EXCEPT ![Other(running)] = image]
      BY <1>16, Zenon DEF UpdateStage
    <3> QED
      BY Zenon, <3>1 DEF TypeOK
  <2>2. PICK v \in 1 .. MaxVersion, ok \in Outcome("entry") :
          /\ entries' \in IF ok THEN {Staged(v, TRUE)}
                          ELSE {entries, Staged(v, FALSE), Staged(v, TRUE)}
          /\ roll' \in IF ok THEN {roll, TRUE} ELSE {roll}
          /\ CountFault(ok)
    BY <1>16, Zenon DEF UpdateStage
  <2>3. ASSUME NEW linux \in BOOLEAN
        PROVE  Staged(v, linux) \subseteq Entry
    <3>1. ROOT_UPDATE_TRIES \in NoCounter .. ROOT_UPDATE_TRIES
      BY DEF NoCounter, TriesAssumption
    <3>2. [slot |-> Other(running), left |-> ROOT_UPDATE_TRIES, version |-> v, linux |-> linux]
            \in Entry
      BY <3>1, OtherSlot DEF TypeOK, Entry
    <3> QED
      BY <3>2, Zenon DEF TypeOK, Staged
  <2>4. entries' \subseteq Entry /\ roll' \in BOOLEAN
    BY <2>2, <2>3, Zenon DEF TypeOK
  <2> QED
    BY <1>16, <2>1, <2>2, <2>4, OutcomeType, Zenon DEF TypeOK, UpdateStage
<1>17. ASSUME MayHold(Other(running))
       PROVE  Held(Other(running)) \subseteq Entry
  <2>1. 0 \in NoCounter .. ROOT_UPDATE_TRIES
    BY DEF NoCounter, TriesAssumption
  <2> QED
    <3>1. \A e \in EntriesOf(Other(running)) : Renamed(e, 0) \subseteq Entry
      BY <2>1, RenamedType DEF TypeOK, EntriesOf
    <3> QED
      BY <3>1, Zenon DEF Held
<1>18. CASE Switch
  <2>1. cixd' \in Cixd
    <3>1. NoTimer \in NoTimer .. BOOT_CONFIRM_MAX_ATTEMPTS - 1
      BY DEF NoTimer, AttemptsAssumption
    <3> QED
      BY Zenon, <1>18, <3>1 DEF TypeOK, Switch, Cixd
  <2> QED
    BY <1>18, <1>17, <2>1, OtherSlot, Zenon DEF TypeOK, Switch
<1>19. CASE SwitchAborts
  BY <1>19, <1>17, HealthyType, Zenon DEF TypeOK, SwitchAborts, Down
<1>20. CASE StartSwitched
  <2>1. cixd' \in Cixd /\ entries' \subseteq Entry /\ faults' \in 0 .. MaxFaults
    BY <1>20, SwitchedCixd, MaybeConfirmType, Zenon
  <2> QED
    BY <1>20, <2>1, Zenon DEF TypeOK, StartSwitched
<1>21. CASE UNCHANGED vars
  BY <1>21, Zenon DEF TypeOK, vars, esp
<1> QED
  BY Zenon, <1>1, <1>3, <1>4, <1>5, <1>6, <1>7, <1>8, <1>9, <1>10, <1>11, <1>12, <1>13, <1>14,
     <1>15, <1>16, <1>18, <1>19, <1>20, <1>21, Zenon DEF Next, ConfirmTimer

LEMMA TypeInit == Init => TypeOK
<1> SUFFICES ASSUME Init PROVE TypeOK
  OBVIOUS
<1>1. entries \subseteq Entry
  BY DEF Init, Entry, Slots, NoCounter, TriesAssumption
<1>2. root \in [Slots -> Images \cup {"torn"}]
  BY DEF Init
<1>3. faults \in 0 .. MaxFaults
  BY DEF Init, FaultsAssumption
<1>4. default \in (SUBSET Slots) \ {{}} /\ "a" \in Slots
  BY DEF Init, Slots
<1>5. oneshot = "none" /\ config = "fresh" /\ machine = "reset" /\ running = "a" /\ cixd = Healthy
  BY Zenon DEF Init
<1>6. update = "idle" /\ roll = FALSE /\ served = {}
  BY Zenon DEF Init
<1> QED
  BY <1>1, <1>2, <1>3, <1>4, <1>5, <1>6, HealthyType, Zenon DEF TypeOK

\* The loader entries, the machine and what cixd knows of its boot keep their
\* types; the confirm timer never counts past its last attempt.
THEOREM TypeCorrect == Spec => []TypeOK
BY TypeInit, TypeStep, PTL DEF Spec

-----------------------------------------------------------------------------
(* The invariant                                                           *)

\* After a rename every entry is an old one, or the renamed one under its new
\* counter, and every slot has an entry that had one.
LEMMA RenameStep ==
    ASSUME TypeOK, OneEntry,
           NEW e \in entries, NEW l \in NoCounter .. ROOT_UPDATE_TRIES,
           entries' = Renamed(e, l)
    PROVE  /\ OneEntry'
           /\ \A x \in entries' :
                (x \in entries /\ x.slot # e.slot) \/ (x.slot = e.slot /\ x.left = l)
           /\ \A y \in entries : \E x \in entries' : x.slot = y.slot
           /\ \A x \in entries' : \E y \in entries : x.slot = y.slot
<1> DEFINE r == [e EXCEPT !.left = l]
<1>1. /\ entries' = (entries \ {e}) \cup {r}
      /\ r.slot = e.slot /\ r.linux = e.linux /\ r.left = l
  BY Renaming, Zenon DEF TypeOK
<1> HIDE DEF r
<1>2. \A x \in entries : x.slot = e.slot => x = e
  BY Zenon DEF OneEntry
<1>3. \A x, y \in entries' : x.slot = y.slot => x = y
  BY <1>1, <1>2, Zenon DEF OneEntry
<1>4. \A x \in entries' : x.linux
  BY <1>1, Zenon DEF OneEntry
<1>5. \A x \in entries' :
        (x \in entries /\ x.slot # e.slot) \/ (x.slot = e.slot /\ x.left = l)
  BY <1>1, <1>2, Zenon
<1>6. \A y \in entries : \E x \in entries' : x.slot = y.slot
  <2> TAKE y \in entries
  <2>1. CASE y = e
    BY <1>1, <2>1, Zenon
  <2>2. CASE y # e
    BY <1>1, <2>2, Zenon
  <2> QED
    BY <2>1, <2>2
<1>7. \A x \in entries' : \E y \in entries : x.slot = y.slot
  BY <1>1, Zenon
<1> QED
  BY <1>3, <1>4, <1>5, <1>6, <1>7, Zenon DEF OneEntry

\* What cix-boot chooses is an entry that names a kernel.
LEMMA ChosenIsEntry == Chosen \subseteq {e \in entries : e.linux}
BY Zenon DEF Chosen, PickEntry, Newest, FindEntryById

\* The steps that leave the entries alone.
LEMMA QuietStep ==
    ASSUME TypeOK, BInv,
           \/ Panic \/ Park \/ ConfirmTimerRetries \/ ConfirmTimerGivesUp
           \/ AttachUplink \/ SetManagementAddress \/ BootNextClear \/ Reboot \/ PowerCut
           \/ UpdateFail \/ SwitchFails \/ UNCHANGED vars
           \/ \E s \in Slots : BootNextSet(s)
           \/ \E pattern \in (SUBSET Slots) \ {{}} : LoaderSet(pattern)
    PROVE  BInv'
<1>1. entries' = entries /\ root' = root /\ running' = running /\ served' = served
  BY Zenon DEF Panic, Park, ConfirmTimerRetries, ConfirmTimerGivesUp, AttachUplink,
     SetManagementAddress, BootNextClear, Reboot, PowerCut, UpdateFail, SwitchFails, BootNextSet,
     LoaderSet, vars, esp
<1>2. OneEntry' /\ TornIsVacant' /\ ConfirmedHasServed'
  BY <1>1, Zenon DEF BInv, OneEntry, TornIsVacant, ConfirmedHasServed
<1>3. \/ /\ machine' \in {"reset", "parked"}
         /\ update' = "idle" \/ (update' = update /\ machine # "up")
      \/ machine' = machine /\ update' \in {update, "idle"} /\ cixd'.switched = cixd.switched
  <2>1. CASE ConfirmTimerRetries \/ AttachUplink \/ SetManagementAddress
    BY <2>1 DEF ConfirmTimerRetries, AttachUplink, SetManagementAddress, TypeOK, Cixd
  <2>2. CASE Panic \/ ConfirmTimerGivesUp \/ Reboot \/ PowerCut \/ SwitchFails
    BY <2>2, Zenon DEF Panic, ConfirmTimerGivesUp, Reboot, PowerCut, SwitchFails, Down
  <2>3. CASE Park
    BY <2>3 DEF Park
  <2>4. CASE BootNextClear \/ UpdateFail \/ UNCHANGED vars
    BY <2>4, Zenon DEF BootNextClear, UpdateFail, vars
  <2>5. CASE \E s \in Slots : BootNextSet(s)
    BY <2>5, Zenon DEF BootNextSet
  <2>6. CASE \E pattern \in (SUBSET Slots) \ {{}} : LoaderSet(pattern)
    BY <2>6, Zenon DEF LoaderSet
  <2> QED
    BY <2>1, <2>2, <2>3, <2>4, <2>5, <2>6, Zenon
<1>4. ControlHasEntry' /\ NoTornBoot' /\ UpHasServed'
  BY <1>1, <1>3 DEF BInv, ControlHasEntry, NoTornBoot, UpHasServed, EntriesOf
<1>5. UpdateIsHidden'
  BY <1>1, <1>3 DEF BInv, UpdateIsHidden, EntriesOf
<1>6. SwitchedIsHeld'
  BY Zenon, <1>1, <1>3 DEF BInv, SwitchedIsHeld, EntriesOf
<1> QED
  BY <1>2, <1>4, <1>5, <1>6, Zenon DEF BInv

\* The entries are kept, or one entry of the slot t gets the counter l.
KeptOrRenamed(t, l) ==
    entries' = entries \/ \E e \in entries : e.slot = t /\ entries' = Renamed(e, l)

LEMMA KeptOrRenamedStep ==
    ASSUME TypeOK, OneEntry, TornIsVacant, root' = root,
           NEW t, NEW l \in NoCounter .. ROOT_UPDATE_TRIES, KeptOrRenamed(t, l)
    PROVE  /\ OneEntry' /\ TornIsVacant'
           /\ \A x \in entries' : x \in entries \/ (x.slot = t /\ x.left = l)
           /\ \A s : EntriesOf(s) = {} <=> EntriesOf(s)' = {}
<1>1. CASE entries' = entries
  <2>1. \A s : EntriesOf(s)' = EntriesOf(s)
    BY <1>1, Zenon DEF EntriesOf
  <2> QED
    BY <1>1, <2>1, Zenon DEF OneEntry, TornIsVacant
<1>2. CASE \E e \in entries : e.slot = t /\ entries' = Renamed(e, l)
  <2>1. PICK e \in entries : e.slot = t /\ entries' = Renamed(e, l)
    BY <1>2, Zenon
  <2>2. /\ OneEntry'
        /\ \A x \in entries' :
             (x \in entries /\ x.slot # e.slot) \/ (x.slot = e.slot /\ x.left = l)
        /\ \A y \in entries : \E x \in entries' : x.slot = y.slot
        /\ \A x \in entries' : \E y \in entries : x.slot = y.slot
    BY <2>1, RenameStep, Zenon
  <2>3. TornIsVacant'
    BY <2>2, Zenon DEF TornIsVacant
  <2>4. \A s : EntriesOf(s) = {} <=> EntriesOf(s)' = {}
    <3>1. \A s : EntriesOf(s) = {} <=> ~\E x \in entries : x.slot = s
      BY DEF EntriesOf
    <3>2. \A s : EntriesOf(s)' = {} <=> ~\E x \in entries' : x.slot = s
      BY DEF EntriesOf
    <3> QED
      BY <2>2, <3>1, <3>2, ZenonT(60)
  <2> QED
    BY <2>1, <2>2, <2>3, <2>4, Zenon
<1> QED
  BY <1>1, <1>2, Zenon DEF KeptOrRenamed

\* maybe_confirm_boot() keeps the entries or confirms one of the slot, and only
\* sets the timer in what it was given.
LEMMA MaybeConfirmEffect ==
    ASSUME TypeOK, NEW s, NEW c \in Cixd, MaybeConfirmBoot(s, c)
    PROVE  KeptOrRenamed(s, NoCounter) /\ cixd'.switched = c.switched
<1>1. CASE c.unattached \/ c.unbound
  <2>1. entries' = entries
    BY <1>1, Zenon DEF MaybeConfirmBoot
  <2>2. PICK n : cixd' = [c EXCEPT !.attempts = n]
    BY <1>1, Zenon DEF MaybeConfirmBoot
  <2>3. cixd'.switched = c.switched
    BY <2>2 DEF Cixd
  <2> QED
    BY <2>1, <2>3, Zenon DEF KeptOrRenamed
<1>2. CASE ~(c.unattached \/ c.unbound)
  <2>1. cixd' = c /\ \E ok \in Outcome("confirm") : entries' \in ConfirmBoot(s, ok)
    BY <1>2, Zenon DEF MaybeConfirmBoot
  <2> QED
    BY <2>1, Confirming, Zenon DEF KeptOrRenamed
<1> QED
  BY <1>1, <1>2

LEMMA BootEntryStep ==
    ASSUME TypeOK, BInv, BootEntry
    PROVE  BInv'
<1>1. PICK e \in Chosen, ok \in Outcome("decrement") :
        entries' = DecrementTries(e, ok) /\ running' = e.slot
  BY Zenon DEF BootEntry
<1>2. e \in entries
  BY ChosenIsEntry
<1>3. PICK l \in 0 .. ROOT_UPDATE_TRIES : KeptOrRenamed(e.slot, l)
  <2>1. CASE e.left > 0 /\ ok
    <3>1. e.left - 1 \in 0 .. ROOT_UPDATE_TRIES
      BY <1>2, <2>1 DEF TypeOK, Entry, NoCounter, TriesAssumption
    <3> QED
      BY <1>1, <1>2, <2>1, <3>1, Zenon DEF KeptOrRenamed, DecrementTries
  <2>2. CASE ~(e.left > 0 /\ ok)
    <3>1. 0 \in 0 .. ROOT_UPDATE_TRIES
      BY DEF TriesAssumption
    <3> QED
      BY <1>1, <2>2, <3>1, Zenon DEF KeptOrRenamed, DecrementTries
  <2> QED
    BY <2>1, <2>2
<1>4. l \in NoCounter .. ROOT_UPDATE_TRIES /\ l # NoCounter
  BY DEF NoCounter, TriesAssumption
<1>5. /\ root' = root /\ served' = served /\ update' = update
      /\ machine = "reset" /\ machine' = "kernel"
  BY Zenon DEF BootEntry
<1>6. /\ OneEntry' /\ TornIsVacant'
      /\ \A x \in entries' : x \in entries \/ (x.slot = e.slot /\ x.left = l)
      /\ \A s : EntriesOf(s) = {} <=> EntriesOf(s)' = {}
  BY <1>3, <1>4, <1>5, KeptOrRenamedStep, Zenon DEF BInv
<1>7. ConfirmedHasServed'
  BY <1>4, <1>5, <1>6, Zenon DEF BInv, ConfirmedHasServed
<1>8. EntriesOf(e.slot) # {}
  BY <1>2 DEF EntriesOf
<1>9. EntriesOf(running)' # {}
  BY <1>1, <1>6, <1>8 DEF EntriesOf
<1>10. ControlHasEntry' /\ NoTornBoot'
  BY <1>1, <1>2, <1>5, <1>9, Zenon DEF BInv, ControlHasEntry, NoTornBoot, TornIsVacant
<1>11. UpdateIsHidden' /\ UpHasServed' /\ SwitchedIsHeld'
  BY <1>5 DEF BInv, UpdateIsHidden, UpHasServed, SwitchedIsHeld
<1> QED
  BY <1>6, <1>7, <1>10, <1>11, Zenon DEF BInv

\* The steps in which a cixd comes up, or finds its uplink, and may confirm.
LEMMA ConfirmStep ==
    ASSUME TypeOK, BInv, KeptOrRenamed(running, NoCounter),
           machine \in {"kernel", "exec", "up"}, machine' = "up",
           root' = root, running' = running, update' = update, served' = served \cup {running},
           machine = "kernel" => ~cixd'.switched,
           machine # "kernel" => cixd'.switched = cixd.switched
    PROVE  BInv'
<1>1. NoCounter \in NoCounter .. ROOT_UPDATE_TRIES
  BY DEF NoCounter, TriesAssumption
<1>2. /\ OneEntry' /\ TornIsVacant'
      /\ \A x \in entries' : x \in entries \/ (x.slot = running /\ x.left = NoCounter)
      /\ \A s : EntriesOf(s) = {} <=> EntriesOf(s)' = {}
  BY <1>1, KeptOrRenamedStep, Zenon DEF BInv
<1>3. ConfirmedHasServed' /\ UpHasServed'
  BY <1>2, Zenon DEF BInv, ConfirmedHasServed, UpHasServed
<1>4. EntriesOf(running)' # {}
  BY <1>2 DEF BInv, ControlHasEntry, EntriesOf
<1>5. ControlHasEntry' /\ NoTornBoot'
  BY <1>4, Zenon DEF BInv, ControlHasEntry, NoTornBoot
<1>6. UpdateIsHidden'
  <2>1. update # "idle" => EntriesOf(Other(running)) = {}
    BY Zenon DEF BInv, UpdateIsHidden
  <2>2. update # "idle" => EntriesOf(Other(running))' = {}
    BY <1>2, <2>1 DEF EntriesOf
  <2> QED
    BY <2>2, Zenon DEF UpdateIsHidden
<1>7. SwitchedIsHeld'
  <2> SUFFICES ASSUME cixd'.switched, NEW x \in entries', x.slot = running
               PROVE  x.left \in {NoCounter, 0}
    BY Zenon DEF SwitchedIsHeld, EntriesOf
  <2>1. machine \in {"exec", "up"} /\ cixd.switched
    OBVIOUS
  <2>2. \A y \in entries : y.slot = running => y.left \in {NoCounter, 0}
    BY <2>1 DEF BInv, SwitchedIsHeld, EntriesOf
  <2> QED
    BY <1>2, <2>2, Zenon
<1> QED
  BY <1>2, <1>3, <1>5, <1>6, <1>7, Zenon DEF BInv

LEMMA StartStep ==
    ASSUME TypeOK, BInv, Start \/ StartSwitched \/ ConfirmTimerAttaches
    PROVE  BInv'
<1>1. CASE Start
  <2>1. PICK c \in NetworkOf(root[running]) : MaybeConfirmBoot(running, c)
    BY <1>1, Zenon DEF Start
  <2>2. c \in Cixd /\ ~c.switched
    BY Zenon DEF NetworkOf
  <2>3. KeptOrRenamed(running, NoCounter) /\ cixd'.switched = c.switched
    BY <2>1, <2>2, MaybeConfirmEffect, Zenon
  <2> QED
    BY <1>1, <2>2, <2>3, ConfirmStep DEF Start
<1>2. CASE StartSwitched
  <2>1. KeptOrRenamed(running, NoCounter) /\ cixd'.switched = cixd.switched
    BY <1>2, SwitchedCixd, MaybeConfirmEffect, Zenon
  <2> QED
    BY Zenon, <1>2, <2>1, ConfirmStep DEF StartSwitched
<1>3. CASE ConfirmTimerAttaches
  <2>1. KeptOrRenamed(running, NoCounter)
    BY <1>3, Confirming, Zenon DEF ConfirmTimerAttaches, KeptOrRenamed
  <2>2. cixd'.switched = cixd.switched
    BY <1>3 DEF ConfirmTimerAttaches, TypeOK, Cixd
  <2>3. served' = served \cup {running}
    BY <1>3 DEF ConfirmTimerAttaches, BInv, UpHasServed
  <2> QED
    BY <1>3, <2>1, <2>2, <2>3, ConfirmStep DEF ConfirmTimerAttaches
<1> QED
  BY <1>1, <1>2, <1>3

\* Entries of the other slot are removed, or none is.
LEMMA RemoveStep ==
    ASSUME TypeOK, BInv, entries' \subseteq entries, EntriesOf(running)' = EntriesOf(running),
           machine = "up", machine' = "up",
           update' = update \/ EntriesOf(Other(running))' = {},
           root' = root, running' = running, served' = served, cixd' = cixd
    PROVE  BInv'
<1>1. OneEntry' /\ TornIsVacant' /\ ConfirmedHasServed' /\ UpHasServed'
  BY Zenon DEF BInv, OneEntry, TornIsVacant, ConfirmedHasServed, UpHasServed
<1>2. ControlHasEntry' /\ NoTornBoot' /\ SwitchedIsHeld'
  BY Zenon DEF BInv, ControlHasEntry, NoTornBoot, SwitchedIsHeld
<1>3. UpdateIsHidden'
  BY DEF BInv, UpdateIsHidden, EntriesOf
<1> QED
  BY <1>1, <1>2, <1>3, Zenon DEF BInv

LEMMA EntryDeleteStep ==
    ASSUME TypeOK, BInv, NEW e \in entries, EntryDelete(e)
    PROVE  BInv' /\ e.slot = Other(running) /\ EntriesOf(e.slot) = {e}
<1>1. EntriesOf(e.slot) = {e}
  BY DEF BInv, OneEntry, EntriesOf
<1>2. e.slot # running
  BY <1>1, Zenon DEF EntryDelete, MayDelete
<1>3. e.slot = Other(running)
  BY <1>2 DEF TypeOK, Entry, Slots, Other
<1>4. EntriesOf(running)' = EntriesOf(running)
  BY <1>2 DEF EntryDelete, EntriesOf
<1>5. BInv'
  BY <1>4, RemoveStep, Zenon DEF EntryDelete
<1> QED
  BY <1>1, <1>3, <1>5

LEMMA UpdateStartStep ==
    ASSUME TypeOK, BInv, WritesLand, UpdateStart
    PROVE  BInv' /\ entries' = entries \ EntriesOf(Other(running))
<1>1. PICK ok \in Outcome("unlink") : entries' \in UpdateRemoves(ok) /\ CountFault(ok)
  BY Zenon DEF UpdateStart
<1>2. ok = TRUE
  BY Zenon, <1>1, OutcomeType DEF WritesLand
<1>3. entries' = entries \ EntriesOf(Other(running))
  BY <1>1, <1>2, Zenon DEF UpdateRemoves
<1>4. running \in Slots /\ Other(running) # running /\ running' = running
  BY OtherSlot, Zenon DEF TypeOK, UpdateStart
<1>5. EntriesOf(running)' = EntriesOf(running) /\ EntriesOf(Other(running))' = {}
  BY <1>3, <1>4 DEF EntriesOf
<1>6. BInv'
  BY <1>3, <1>5, RemoveStep, Zenon DEF UpdateStart
<1> QED
  BY <1>3, <1>6

LEMMA UpdateWriteStep ==
    ASSUME TypeOK, BInv, UpdateWrite
    PROVE  BInv'
<1>1. /\ entries' = entries /\ running' = running /\ cixd' = cixd
      /\ machine = "up" /\ machine' = "up"
      /\ running \in Slots /\ Other(running) \in Slots /\ Other(running) # running
  BY OtherSlot, Zenon DEF TypeOK, UpdateWrite, esp
<1>2. EntriesOf(Other(running)) = {}
  BY DEF UpdateWrite, BInv, UpdateIsHidden
<1>3. \A e \in entries : e.slot # Other(running) /\ e.slot \in Slots
  BY <1>2 DEF EntriesOf, TypeOK, Entry
<1>4. \A t \in Slots : t # Other(running) => root'[t] = root[t] /\ (t \in served => t \in served')
  BY DEF UpdateWrite, TypeOK
<1>5. OneEntry' /\ TornIsVacant' /\ ConfirmedHasServed'
  BY <1>1, <1>3, <1>4, Zenon DEF BInv, OneEntry, TornIsVacant, ConfirmedHasServed
<1>6. NoTornBoot' /\ UpHasServed'
  BY <1>1, <1>4 DEF BInv, NoTornBoot, UpHasServed
<1>7. ControlHasEntry' /\ UpdateIsHidden' /\ SwitchedIsHeld'
  BY <1>1, <1>2 DEF BInv, ControlHasEntry, UpdateIsHidden, SwitchedIsHeld, EntriesOf
<1> QED
  BY <1>5, <1>6, <1>7, Zenon DEF BInv

LEMMA UpdateStageStep ==
    ASSUME TypeOK, BInv, WritesLand, UpdateStage
    PROVE  /\ BInv'
           /\ EntriesOf(Other(running)) = {}
           /\ \E e : /\ e.slot = Other(running) /\ e.left = ROOT_UPDATE_TRIES
                     /\ entries' = entries \cup {e}
<1>1. /\ running' = running /\ cixd' = cixd /\ served' = served
      /\ machine = "up" /\ machine' = "up" /\ update' = "idle"
      /\ running \in Slots /\ Other(running) \in Slots /\ Other(running) # running
  BY OtherSlot, Zenon DEF TypeOK, UpdateStage
<1>2. EntriesOf(Other(running)) = {}
  BY DEF UpdateStage, BInv, UpdateIsHidden
<1>3. PICK v \in 1 .. MaxVersion, ok \in Outcome("entry") :
        /\ entries' \in IF ok THEN {Staged(v, TRUE)}
                        ELSE {entries, Staged(v, FALSE), Staged(v, TRUE)}
        /\ CountFault(ok)
  BY Zenon DEF UpdateStage
<1>4. ok = TRUE
  BY Zenon, <1>3, OutcomeType DEF WritesLand
<1> DEFINE n == [slot |-> Other(running), left |-> ROOT_UPDATE_TRIES, version |-> v, linux |-> TRUE]
<1>5. entries' = entries \cup {n}
  BY <1>2, <1>3, <1>4 DEF Staged
<1>6. n.slot = Other(running) /\ n.left = ROOT_UPDATE_TRIES /\ n.linux
  OBVIOUS
<1> HIDE DEF n
<1>7. \A e \in entries : e.slot # Other(running) /\ e.slot \in Slots
  BY <1>2 DEF EntriesOf, TypeOK, Entry
<1>8. PICK image \in Images : root' = [root EXCEPT ![Other(running)] = image]
  BY Zenon DEF UpdateStage
<1>9. /\ root'[Other(running)] # "torn"
      /\ \A t \in Slots : t # Other(running) => root'[t] = root[t]
  BY <1>1, <1>8 DEF TypeOK, ImagesAssumption
<1>10. OneEntry'
  BY <1>5, <1>6, <1>7, Zenon DEF BInv, OneEntry
<1>11. TornIsVacant'
  BY <1>5, <1>6, <1>7, <1>9, Zenon DEF BInv, TornIsVacant
<1>12. ConfirmedHasServed'
  <2>1. ROOT_UPDATE_TRIES # NoCounter
    BY DEF NoCounter, TriesAssumption
  <2> QED
    BY <1>1, <1>5, <1>6, <2>1, Zenon DEF BInv, ConfirmedHasServed
<1>13. EntriesOf(running)' = EntriesOf(running)
  BY <1>1, <1>5, <1>6 DEF EntriesOf
<1>14. UpdateIsHidden' /\ ControlHasEntry' /\ NoTornBoot' /\ UpHasServed' /\ SwitchedIsHeld'
  BY <1>1, <1>9, <1>13, Zenon
     DEF BInv, UpdateIsHidden, ControlHasEntry, NoTornBoot, UpHasServed, SwitchedIsHeld
<1> QED
  BY <1>2, <1>5, <1>6, <1>10, <1>11, <1>12, <1>14, Zenon DEF BInv

\* A hold renames the one entry of the slot that is switched into.
LEMMA HeldRenames ==
    ASSUME TypeOK, BInv, MayHold(Other(running)), entries' = Held(Other(running))
    PROVE  /\ KeptOrRenamed(Other(running), 0)
           /\ EntriesOf(Other(running)) # {}
           /\ \E e \in entries : EntriesOf(Other(running)) = {e} /\ e.left > 0
                                   /\ entries' = Renamed(e, 0)
<1>1. PICK e \in entries : EntriesOf(Other(running)) = {e} /\ e.left > 0
  BY Zenon DEF MayHold
<1>2. entries' = Renamed(e, 0)
  BY <1>1 DEF Held
<1>3. e.slot = Other(running)
  BY <1>1 DEF EntriesOf
<1> QED
  BY <1>1, <1>2, <1>3, Zenon DEF KeptOrRenamed

LEMMA SwitchStep ==
    ASSUME TypeOK, BInv, Switch \/ SwitchAborts
    PROVE  BInv'
<1>1. /\ MayHold(Other(running)) /\ entries' = Held(Other(running)) /\ root' = root
      /\ served' = served /\ update' = "idle"
      /\ running \in Slots /\ Other(running) \in Slots /\ Other(running) # running
  BY OtherSlot, Zenon DEF TypeOK, Switch, SwitchAborts, Down
<1>2. 0 \in NoCounter .. ROOT_UPDATE_TRIES /\ 0 # NoCounter
  BY DEF NoCounter, TriesAssumption
<1>3. PICK e \in entries :
        EntriesOf(Other(running)) = {e} /\ e.left > 0 /\ entries' = Renamed(e, 0)
  BY <1>1, HeldRenames, Zenon
<1>4. e.slot = Other(running)
  BY <1>3 DEF EntriesOf
<1>5. /\ OneEntry' /\ TornIsVacant'
      /\ \A x \in entries' : x \in entries \/ (x.slot = Other(running) /\ x.left = 0)
      /\ \A s : EntriesOf(s) = {} <=> EntriesOf(s)' = {}
  BY <1>1, <1>2, <1>3, HeldRenames, KeptOrRenamedStep, Zenon DEF BInv
<1>6. ConfirmedHasServed'
  BY <1>1, <1>2, <1>5, Zenon DEF BInv, ConfirmedHasServed
<1>7. \A x \in entries' : x.slot = Other(running) => x.left = 0
  <2>1. \A x \in entries' : (x \in entries /\ x.slot # e.slot) \/ (x.slot = e.slot /\ x.left = 0)
    BY <1>2, <1>3, RenameStep DEF BInv
  <2> QED
    BY <1>4, <2>1, Zenon
<1>8. CASE SwitchAborts
  <2>1. machine' \notin {"kernel", "exec", "up"}
    BY <1>8 DEF SwitchAborts, Down
  <2>2. UpdateIsHidden' /\ ControlHasEntry' /\ NoTornBoot' /\ UpHasServed' /\ SwitchedIsHeld'
    BY <1>1, <2>1, Zenon DEF UpdateIsHidden, ControlHasEntry, NoTornBoot, UpHasServed, SwitchedIsHeld
  <2> QED
    BY <1>5, <1>6, <2>2, Zenon DEF BInv
<1>9. CASE Switch
  <2>1. running' = Other(running) /\ machine' = "exec"
    BY <1>9, Zenon DEF Switch
  <2>2. EntriesOf(running)' # {}
    BY <1>3, <1>5, <2>1 DEF EntriesOf
  <2>3. SwitchedIsHeld'
    BY <1>7, <2>1 DEF SwitchedIsHeld, EntriesOf
  <2>4. NoTornBoot'
    BY <1>1, <1>3, <1>4, <2>1, Zenon DEF BInv, TornIsVacant, NoTornBoot
  <2> QED
    BY <1>1, <1>5, <1>6, <2>1, <2>2, <2>3, <2>4 DEF BInv, UpdateIsHidden, ControlHasEntry, UpHasServed
<1> QED
  BY <1>8, <1>9

LEMMA InvInit == Init => BInv
<1> SUFFICES ASSUME Init PROVE BInv
  OBVIOUS
<1>1. PICK v : entries = {[slot |-> "a", left |-> ROOT_UPDATE_TRIES, version |-> v, linux |-> TRUE]}
  BY Zenon DEF Init
<1>2. \A e \in entries : e.slot = "a" /\ e.left = ROOT_UPDATE_TRIES /\ e.linux
  BY <1>1
<1>3. PICK image \in Images : root = [s \in Slots |-> IF s = "a" THEN image ELSE "torn"]
  BY Zenon DEF Init
<1>4. root["a"] # "torn"
  BY <1>3 DEF Slots, ImagesAssumption
<1>5. OneEntry
  BY <1>1, <1>2, Zenon DEF OneEntry
<1>6. TornIsVacant
  BY <1>2, <1>4, Zenon DEF TornIsVacant
<1>7. ConfirmedHasServed
  BY <1>2 DEF ConfirmedHasServed, NoCounter, TriesAssumption
<1>8. UpdateIsHidden /\ ControlHasEntry /\ NoTornBoot /\ UpHasServed /\ SwitchedIsHeld
  BY DEF Init, UpdateIsHidden, ControlHasEntry, NoTornBoot, UpHasServed, SwitchedIsHeld
<1> QED
  BY <1>5, <1>6, <1>7, <1>8, Zenon DEF BInv

LEMMA InvStep ==
    ASSUME TypeOK, BInv, WritesLand, [Next]_vars
    PROVE  BInv'
<1>1. ASSUME NEW e \in entries, EntryDelete(e)
      PROVE  BInv'
  BY <1>1, EntryDeleteStep
<1> QED
  BY Zenon, <1>1, BootEntryStep, StartStep, UpdateStartStep, UpdateWriteStep, UpdateStageStep,
     SwitchStep, QuietStep, Zenon DEF Next, ConfirmTimer

\* The inductive invariant, when unlink() and the entry's write succeed.
LEMMA Inductive ==
    ASSUME WritesLand
    PROVE  Spec => [](TypeOK /\ BInv)
<1>1. Init => TypeOK /\ BInv
  BY TypeInit, InvInit
<1>2. TypeOK /\ BInv /\ [Next]_vars => (TypeOK /\ BInv)'
  BY TypeStep, InvStep
<1> QED
  BY <1>1, <1>2, PTL DEF Spec

\* No half-written slot is ever handed control.
THEOREM WholeSlotsBoot ==
    ASSUME WritesLand
    PROVE  Spec => []NoTornBoot
<1>1. BInv => NoTornBoot
  BY DEF BInv
<1> QED
  BY <1>1, Inductive, PTL

\* No entry without a counter vouches for an image that has not come up.
THEOREM ConfirmationIsEarned ==
    ASSUME WritesLand
    PROVE  Spec => []ConfirmedHasServed
<1>1. BInv => ConfirmedHasServed
  BY DEF BInv
<1> QED
  BY <1>1, Inductive, PTL

\* The running slot keeps an entry that names a kernel.
THEOREM RunningSlotStaysBootable ==
    ASSUME WritesLand
    PROVE  Spec => []RunningSlotBootable
<1>1. BInv => RunningSlotBootable
  BY DEF BInv, ControlHasEntry, OneEntry, RunningSlotBootable, EntriesOf
<1> QED
  BY <1>1, Inductive, PTL

\* A reset before a switched-into slot is confirmed boots the slot that ran.
THEOREM SwitchesAreReversible ==
    ASSUME WritesLand
    PROVE  Spec => []SwitchIsReversible
<1>1. ASSUME TypeOK, BInv
      PROVE  SwitchIsReversible
  <2> DEFINE o == Other(running)
             matching == {e \in entries : e.slot \in default}
             fresh == {e \in matching : e.linux /\ e.left # 0}
  <2> SUFFICES ASSUME machine \in {"exec", "up"}, cixd.switched, ~Confirmed(running),
                      oneshot = "none", o \in default,
                      \E e \in EntriesOf(o) : e.linux /\ e.left # 0
               PROVE  Chosen \subseteq EntriesOf(o)
    BY Zenon DEF SwitchIsReversible
  <2>1. \A e \in EntriesOf(running) : e.left = 0
    BY <1>1 DEF BInv, SwitchedIsHeld, Confirmed
  <2>2. \A e \in entries : e.left # 0 => e \in EntriesOf(o)
    BY <1>1, <2>1 DEF TypeOK, Entry, EntriesOf, Slots, Other
  <2>3. fresh # {} /\ {e \in entries : e.linux /\ e.left # 0} # {}
    BY DEF EntriesOf
  <2>4. FindEntryById(oneshot) = {}
    BY <1>1 DEF FindEntryById, TypeOK, Entry, Slots
  <2>5. PickEntry(matching) = Newest(fresh)
    BY <2>3, Zenon DEF PickEntry
  <2>6. PickEntry(entries) = Newest({e \in entries : e.linux /\ e.left # 0})
    BY <2>3, Zenon DEF PickEntry
  <2>7. Chosen = Newest(fresh) \/ Chosen = Newest({e \in entries : e.linux /\ e.left # 0})
    BY <2>4, <2>5, <2>6, Zenon DEF Chosen
  <2> QED
    BY <2>2, <2>7, Zenon DEF Newest
<1> QED
  BY <1>1, Inductive, PTL

-----------------------------------------------------------------------------
(* The A/B promise is kept                                                 *)

StatusOf == [s \in Slots |-> Status(s)]
WholeOf == [s \in Slots |-> root[s] # "torn"]

\* A slot's status depends on its own entries only.
LEMMA StatusSame ==
    ASSUME NEW s, EntriesOf(s)' = {} <=> EntriesOf(s) = {}, Confirmed(s)' <=> Confirmed(s)
    PROVE  Status(s)' = Status(s)
BY Zenon DEF Status

\* Renaming one counter to another changes no status, ...
LEMMA CounterKeepsStatus ==
    ASSUME TypeOK, OneEntry,
           NEW e \in entries, NEW l \in NoCounter .. ROOT_UPDATE_TRIES, entries' = Renamed(e, l),
           e.left # NoCounter, l # NoCounter
    PROVE  StatusOf' = StatusOf
<1>1. /\ entries' = (entries \ {e}) \cup {[e EXCEPT !.left = l]}
      /\ [e EXCEPT !.left = l].slot = e.slot /\ [e EXCEPT !.left = l].left = l
  BY Renaming, Zenon DEF TypeOK
<1>2. \A s \in Slots : EntriesOf(s)' = {} <=> EntriesOf(s) = {}
  BY Zenon, <1>1 DEF EntriesOf
<1>3. \A s \in Slots : Confirmed(s)' <=> Confirmed(s)
  BY Zenon, <1>1 DEF EntriesOf, Confirmed
<1> QED
  BY <1>2, <1>3, StatusSame, Zenon DEF StatusOf

\* ... taking it away proves the slot, ...
LEMMA ConfirmProves ==
    ASSUME TypeOK, OneEntry, NEW e \in entries, entries' = Renamed(e, NoCounter)
    PROVE  StatusOf' = [StatusOf EXCEPT ![e.slot] = "proven"]
<1>1. NoCounter \in NoCounter .. ROOT_UPDATE_TRIES
  BY DEF NoCounter, TriesAssumption
<1> DEFINE r == [e EXCEPT !.left = NoCounter]
<1>2. entries' = (entries \ {e}) \cup {r} /\ r.slot = e.slot /\ r.left = NoCounter
  BY <1>1, Renaming, Zenon DEF TypeOK
<1> HIDE DEF r
<1>3. ASSUME NEW s \in Slots, s # e.slot
      PROVE  Status(s)' = Status(s)
  <2>1. EntriesOf(s)' = EntriesOf(s)
    BY <1>2, <1>3 DEF EntriesOf
  <2> QED
    BY <2>1, Zenon DEF Status, Confirmed
<1>4. Status(e.slot)' = "proven"
  <2>1. r \in EntriesOf(e.slot)'
    BY <1>2 DEF EntriesOf
  <2> QED
    BY <1>2, <2>1 DEF Status, Confirmed
<1>5. e.slot \in Slots
  BY DEF TypeOK, Entry
<1> QED
  BY Zenon, <1>3, <1>4, <1>5 DEF StatusOf

\* ... and a slot whose entries go is vacant.
LEMMA RemovalVacates ==
    ASSUME NEW o \in Slots, entries' = entries \ EntriesOf(o)
    PROVE  StatusOf' = [StatusOf EXCEPT ![o] = "vacant"]
<1>1. ASSUME NEW s \in Slots, s # o
      PROVE  Status(s)' = Status(s)
  <2>1. EntriesOf(s)' = EntriesOf(s)
    BY <1>1 DEF EntriesOf
  <2> QED
    BY <2>1, Zenon DEF Status, Confirmed
<1>2. Status(o)' = "vacant"
  <2>1. EntriesOf(o)' = {}
    BY DEF EntriesOf
  <2> QED
    BY <2>1 DEF Status, Confirmed
<1> QED
  BY Zenon, <1>1, <1>2 DEF StatusOf

\* A new entry with a counter puts a vacant slot on trial.
LEMMA OfferTries ==
    ASSUME NEW o \in Slots, EntriesOf(o) = {},
           NEW e, e.slot = o, e.left = ROOT_UPDATE_TRIES, entries' = entries \cup {e}
    PROVE  StatusOf' = [StatusOf EXCEPT ![o] = "trial"]
<1>1. ASSUME NEW s \in Slots, s # o
      PROVE  Status(s)' = Status(s)
  <2>1. EntriesOf(s)' = EntriesOf(s)
    BY <1>1 DEF EntriesOf
  <2> QED
    BY <2>1, Zenon DEF Status, Confirmed
<1>2. Status(o)' = "trial"
  <2>1. EntriesOf(o)' = {e}
    BY DEF EntriesOf
  <2>2. e.left # NoCounter
    BY DEF NoCounter, TriesAssumption
  <2> QED
    BY <2>1, <2>2 DEF Status, Confirmed
<1> QED
  BY Zenon, <1>1, <1>2 DEF StatusOf

\* What has control is not vacant, and what has an entry is whole.
LEMMA ABState ==
    ASSUME TypeOK, BInv
    PROVE  /\ \A s \in Slots : EntriesOf(s) # {} => StatusOf[s] # "vacant" /\ WholeOf[s]
           /\ machine \in {"kernel", "exec", "up"} => StatusOf[running] # "vacant"
<1>1. ASSUME NEW s \in Slots, EntriesOf(s) # {}
      PROVE  StatusOf[s] # "vacant" /\ WholeOf[s]
  BY Zenon, <1>1 DEF StatusOf, WholeOf, Status, BInv, TornIsVacant, EntriesOf
<1>2. running \in Slots
  BY DEF TypeOK
<1> QED
  BY <1>1, <1>2, Zenon DEF BInv, ControlHasEntry

LEMMA ABQuiet ==
    ASSUME entries' = entries, root' = root, running' = running,
           machine' = "up" => machine = "up"
    PROVE  AB!Stop \/ UNCHANGED AB!abvars
<1>1. StatusOf' = StatusOf /\ WholeOf' = WholeOf
  BY Zenon DEF StatusOf, WholeOf, Status, EntriesOf, Confirmed
<1>2. (machine = "up")' = FALSE \/ (machine = "up")' = (machine = "up")
  BY Zenon
<1> QED
  BY <1>1, <1>2, Zenon DEF AB!Stop, AB!abvars, StatusOf, WholeOf

LEMMA ABBootEntry ==
    ASSUME TypeOK, BInv, BootEntry
    PROVE  \E s \in Slots : AB!Boot(s)
<1>1. PICK e \in Chosen, ok \in Outcome("decrement") :
        entries' = DecrementTries(e, ok) /\ running' = e.slot
  BY Zenon DEF BootEntry
<1>2. e \in entries /\ e.slot \in Slots /\ EntriesOf(e.slot) # {}
  BY ChosenIsEntry DEF TypeOK, Entry, EntriesOf
<1>3. StatusOf' = StatusOf
  <2>1. CASE e.left > 0 /\ ok
    <3>1. /\ e.left - 1 \in NoCounter .. ROOT_UPDATE_TRIES
          /\ e.left - 1 # NoCounter /\ e.left # NoCounter
      BY <1>2, <2>1 DEF TypeOK, Entry, NoCounter, TriesAssumption
    <3> QED
      BY <1>1, <1>2, <2>1, <3>1, CounterKeepsStatus, Zenon DEF DecrementTries, BInv
  <2>2. CASE ~(e.left > 0 /\ ok)
    <3>1. entries' = entries
      BY <1>1, <2>2, Zenon DEF DecrementTries
    <3> QED
      BY <3>1, Zenon DEF StatusOf, Status, EntriesOf, Confirmed
  <2> QED
    BY <2>1, <2>2
<1>4. WholeOf' = WholeOf /\ (machine = "up")' = FALSE
  BY DEF BootEntry, WholeOf
<1>5. StatusOf[e.slot] # "vacant" /\ WholeOf[e.slot]
  BY <1>2, ABState, Zenon
<1> QED
  BY <1>1, <1>2, <1>3, <1>4, <1>5, Zenon DEF AB!Boot, StatusOf, WholeOf

\* A confirmation that succeeds proves the slot, and one that fails nothing.
LEMMA ConfirmStatus ==
    ASSUME TypeOK, BInv, KeptOrRenamed(running, NoCounter)
    PROVE  StatusOf' \in {StatusOf, [StatusOf EXCEPT ![running] = "proven"]}
<1>1. CASE entries' = entries
  BY <1>1, Zenon DEF StatusOf, Status, EntriesOf, Confirmed
<1>2. CASE \E e \in entries : e.slot = running /\ entries' = Renamed(e, NoCounter)
  <2>1. PICK e \in entries : e.slot = running /\ entries' = Renamed(e, NoCounter)
    BY <1>2, Zenon
  <2>2. StatusOf' = [StatusOf EXCEPT ![e.slot] = "proven"]
    BY <2>1, ConfirmProves, Zenon DEF BInv
  <2> QED
    BY <2>1, <2>2, Zenon
<1> QED
  BY <1>1, <1>2, Zenon DEF KeptOrRenamed

LEMMA ABConfirm ==
    ASSUME TypeOK, BInv, KeptOrRenamed(running, NoCounter),
           machine \in {"kernel", "exec", "up"}, machine' = "up",
           root' = root, running' = running
    PROVE  AB!Serve \/ AB!Prove \/ UNCHANGED AB!abvars
<1>1. StatusOf' \in {StatusOf, [StatusOf EXCEPT ![running] = "proven"]}
  BY ConfirmStatus
<1>2. WholeOf' = WholeOf /\ StatusOf[running] # "vacant" /\ (machine = "up")' = TRUE
  BY ABState, Zenon DEF WholeOf
<1>3. CASE machine = "up"
  BY <1>1, <1>2, <1>3, Zenon DEF AB!Prove, AB!abvars, StatusOf, WholeOf
<1>4. CASE machine # "up"
  BY <1>1, <1>2, <1>4, Zenon DEF AB!Serve, StatusOf, WholeOf
<1> QED
  BY <1>3, <1>4

LEMMA ABStart ==
    ASSUME TypeOK, BInv, Start \/ StartSwitched \/ ConfirmTimerAttaches
    PROVE  AB!Serve \/ AB!Prove \/ UNCHANGED AB!abvars
<1>1. CASE Start
  <2>1. PICK c \in NetworkOf(root[running]) : MaybeConfirmBoot(running, c)
    BY <1>1, Zenon DEF Start
  <2>2. c \in Cixd
    BY Zenon DEF NetworkOf
  <2>3. KeptOrRenamed(running, NoCounter)
    BY <2>1, <2>2, MaybeConfirmEffect, Zenon
  <2> QED
    BY <1>1, <2>3, ABConfirm, Zenon DEF Start
<1>2. CASE StartSwitched
  <2>1. KeptOrRenamed(running, NoCounter)
    BY <1>2, SwitchedCixd, MaybeConfirmEffect, Zenon
  <2> QED
    BY <1>2, <2>1, ABConfirm, Zenon DEF StartSwitched
<1>3. CASE ConfirmTimerAttaches
  <2>1. KeptOrRenamed(running, NoCounter)
    BY <1>3, Confirming, Zenon DEF ConfirmTimerAttaches, KeptOrRenamed
  <2> QED
    BY <1>3, <2>1, ABConfirm, Zenon DEF ConfirmTimerAttaches
<1> QED
  BY <1>1, <1>2, <1>3

LEMMA ABWithdraw ==
    ASSUME TypeOK, machine = "up", machine' = "up", root' = root, running' = running,
           entries' = entries \ EntriesOf(Other(running))
    PROVE  \E s \in Slots : AB!Withdraw(s)
<1>1. Other(running) \in Slots /\ Other(running) # running
  BY OtherSlot DEF TypeOK
<1>2. \A o \in Slots : entries' = entries \ EntriesOf(o)
                          => StatusOf' = [StatusOf EXCEPT ![o] = "vacant"]
  BY RemovalVacates
<1>3. StatusOf' = [StatusOf EXCEPT ![Other(running)] = "vacant"]
  BY <1>1, <1>2, Zenon
<1>4. WholeOf' = WholeOf /\ (machine = "up")' = (machine = "up")
  BY Zenon DEF WholeOf
<1> QED
  BY <1>1, <1>3, <1>4, Zenon DEF AB!Withdraw, StatusOf, WholeOf

LEMMA ABUpdate ==
    ASSUME TypeOK, BInv, WritesLand,
           UpdateWrite \/ UpdateStage \/ UpdateStart \/ \E e \in entries : EntryDelete(e)
    PROVE  \E s \in Slots : AB!Withdraw(s) \/ AB!Overwrite(s) \/ AB!Offer(s)
<1>1. Other(running) \in Slots /\ Other(running) # running
  BY OtherSlot DEF TypeOK
<1>2. CASE UpdateStart
  BY <1>2, UpdateStartStep, ABWithdraw, Zenon DEF UpdateStart
<1>3. CASE \E e \in entries : EntryDelete(e)
  <2>1. PICK e \in entries : EntryDelete(e)
    BY <1>3, Zenon
  <2>2. EntriesOf(Other(running)) = {e}
    BY <2>1, EntryDeleteStep
  <2> QED
    BY <2>1, <2>2, ABWithdraw, Zenon DEF EntryDelete
<1>4. CASE UpdateWrite
  <2>1. StatusOf' = StatusOf /\ (machine = "up")' = (machine = "up")
    BY <1>4, Zenon DEF UpdateWrite, esp, StatusOf, Status, EntriesOf, Confirmed
  <2>2. WholeOf' = [WholeOf EXCEPT ![Other(running)] = FALSE]
    BY Zenon, <1>1, <1>4 DEF UpdateWrite, WholeOf, TypeOK
  <2> QED
    BY <1>1, <1>4, <2>1, <2>2, Zenon DEF UpdateWrite, AB!Overwrite, StatusOf, WholeOf
<1>5. CASE UpdateStage
  <2>1. PICK e : /\ e.slot = Other(running) /\ e.left = ROOT_UPDATE_TRIES
                 /\ entries' = entries \cup {e}
    BY <1>5, UpdateStageStep
  <2>2. EntriesOf(Other(running)) = {}
    BY <1>5, UpdateStageStep
  <2>3. \A o \in Slots : EntriesOf(o) = {} /\ e.slot = o
                            => StatusOf' = [StatusOf EXCEPT ![o] = "trial"]
    BY <2>1, OfferTries
  <2>4. StatusOf' = [StatusOf EXCEPT ![Other(running)] = "trial"]
    BY <1>1, <2>1, <2>2, <2>3, Zenon
  <2>5. PICK image \in Images : root' = [root EXCEPT ![Other(running)] = image]
    BY <1>5, Zenon DEF UpdateStage
  <2>6. image # "torn"
    BY <2>5 DEF ImagesAssumption
  <2>7. WholeOf' = [WholeOf EXCEPT ![Other(running)] = TRUE]
    BY Zenon, <1>1, <2>5, <2>6 DEF WholeOf, TypeOK
  <2>8. machine = "up" /\ (machine = "up")' = (machine = "up") /\ running' = running
    BY <1>5, Zenon DEF UpdateStage
  <2> QED
    BY <1>1, <2>4, <2>7, <2>8, Zenon DEF AB!Offer, StatusOf, WholeOf
<1> QED
  BY <1>2, <1>3, <1>4, <1>5

LEMMA ABSwitch ==
    ASSUME TypeOK, BInv, Switch \/ SwitchAborts
    PROVE  AB!Stop \/ \E s \in Slots : AB!Boot(s)
<1>1. /\ MayHold(Other(running)) /\ entries' = Held(Other(running)) /\ root' = root
      /\ Other(running) \in Slots
  BY OtherSlot, Zenon DEF TypeOK, Switch, SwitchAborts
<1>2. 0 \in NoCounter .. ROOT_UPDATE_TRIES /\ 0 # NoCounter
  BY DEF NoCounter, TriesAssumption
<1>3. PICK e \in entries :
        EntriesOf(Other(running)) = {e} /\ e.left > 0 /\ entries' = Renamed(e, 0)
  BY <1>1, HeldRenames, Zenon
<1>4. e.left # NoCounter
  BY <1>3 DEF NoCounter
<1>5. StatusOf' = StatusOf /\ WholeOf' = WholeOf
  BY <1>1, <1>2, <1>3, <1>4, CounterKeepsStatus, Zenon DEF BInv, WholeOf
<1>6. StatusOf[Other(running)] # "vacant" /\ WholeOf[Other(running)]
  BY <1>1, <1>3, ABState
<1>7. CASE Switch
  <2>1. running' = Other(running) /\ (machine = "up")' = FALSE
    BY <1>7 DEF Switch
  <2> QED
    BY <1>1, <1>5, <1>6, <2>1, Zenon DEF AB!Boot, StatusOf, WholeOf
<1>8. CASE SwitchAborts
  <2>1. running' = running /\ (machine = "up")' = FALSE
    BY <1>8 DEF SwitchAborts, Down
  <2> QED
    BY <1>5, <2>1, Zenon DEF AB!Stop, StatusOf, WholeOf
<1> QED
  BY <1>7, <1>8

LEMMA ABInit == Init => AB!Init
<1> SUFFICES ASSUME Init PROVE AB!Init
  OBVIOUS
<1>1. PICK e : entries = {e} /\ e.slot = "a" /\ e.left = ROOT_UPDATE_TRIES
  <2>1. PICK v : entries = {[slot |-> "a", left |-> ROOT_UPDATE_TRIES, version |-> v, linux |-> TRUE]}
    BY Zenon DEF Init
  <2> WITNESS [slot |-> "a", left |-> ROOT_UPDATE_TRIES, version |-> v, linux |-> TRUE]
  <2> QED
    BY <2>1
<1>2. EntriesOf("a") = {e} /\ EntriesOf("b") = {} /\ e.left # NoCounter
  BY <1>1 DEF EntriesOf, NoCounter, TriesAssumption
<1>3. Status("a") = "trial" /\ Status("b") = "vacant"
  BY <1>2 DEF Status, Confirmed
<1>4. StatusOf = [s \in Slots |-> IF s = "a" THEN "trial" ELSE "vacant"]
  BY <1>3 DEF StatusOf, Slots
<1>5. WholeOf = [s \in Slots |-> s = "a"]
  BY DEF Init, WholeOf, Slots, ImagesAssumption
<1>6. running = "a" /\ (machine = "up") = FALSE
  BY DEF Init
<1> QED
  BY <1>4, <1>5, <1>6, Zenon DEF AB!Init, StatusOf, WholeOf, Slots, AB!Slots

LEMMA ABStep ==
    ASSUME TypeOK, BInv, WritesLand, [Next]_vars
    PROVE  [AB!Next]_(AB!abvars)
<1>1. Slots = AB!Slots
  BY DEF Slots, AB!Slots
<1>2. CASE \/ Panic \/ Park \/ ConfirmTimerRetries \/ ConfirmTimerGivesUp
           \/ AttachUplink \/ SetManagementAddress \/ BootNextClear \/ Reboot \/ PowerCut
           \/ UpdateFail \/ SwitchFails \/ UNCHANGED vars
           \/ \E s \in Slots : BootNextSet(s)
           \/ \E pattern \in (SUBSET Slots) \ {{}} : LoaderSet(pattern)
  <2>1. entries' = entries /\ root' = root /\ running' = running
    BY <1>2, Zenon DEF Panic, Park, ConfirmTimerRetries, ConfirmTimerGivesUp,
       AttachUplink, SetManagementAddress, BootNextClear, Reboot, PowerCut, UpdateFail,
       SwitchFails, BootNextSet, LoaderSet, vars, esp
  <2>2. machine' \in {"reset", "parked"} \/ machine' = machine
    BY <1>2, Zenon DEF Panic, Park, ConfirmTimerRetries, ConfirmTimerGivesUp,
       AttachUplink, SetManagementAddress, BootNextClear, Reboot, PowerCut, UpdateFail,
       SwitchFails, BootNextSet, LoaderSet, vars, Down
  <2>3. machine' = "up" => machine = "up"
    BY <2>2
  <2> QED
    BY <2>1, <2>3, ABQuiet, Zenon DEF AB!Next
<1>3. CASE BootEntry
  BY <1>1, <1>3, ABBootEntry, Zenon DEF AB!Next
<1>4. CASE Start \/ StartSwitched \/ ConfirmTimerAttaches
  BY <1>4, ABStart, Zenon DEF AB!Next
<1>5. CASE UpdateWrite \/ UpdateStage \/ UpdateStart \/ \E e \in entries : EntryDelete(e)
  BY <1>1, <1>5, ABUpdate, Zenon DEF AB!Next
<1>6. CASE Switch \/ SwitchAborts
  BY <1>1, <1>6, ABSwitch, Zenon DEF AB!Next
<1> QED
  BY <1>2, <1>3, <1>4, <1>5, <1>6, Zenon DEF Next, ConfirmTimer

\* Boots, confirmations, updates and switches implement the A/B promise of
\* ABSlots, for any number of tries, attempts and versions, whatever the images
\* are and whatever decrement or confirmation fails.
THEOREM SlotsImplementAB ==
    ASSUME WritesLand
    PROVE  Spec => ImplementsAB
<1>1. Init => AB!Init
  BY ABInit
<1>2. TypeOK /\ BInv /\ [Next]_vars => [AB!Next]_(AB!abvars)
  BY ABStep
<1> QED
  BY <1>1, <1>2, Inductive, PTL DEF Spec, ImplementsAB, AB!Spec
=============================================================================
