----------------------------- MODULE BootSlots -----------------------------
(***************************************************************************)
(* The A/B slots of a host: the loader entries on the ESP, cix-boot, which *)
(* picks one and spends a try of it, and the cixd that confirms a boot,    *)
(* gives it up, stages an update on the other slot, or switches its root   *)
(* into it in place.                                                       *)
(*                                                                         *)
(* An entry is a file named cix-<slot>[+<left>[-<done>]].conf; `left' is -1 *)
(* for a name without a counter, as in parse_entry_name(), and `linux' says *)
(* whether its text names a kernel.  Entries of equal version are taken in *)
(* directory order, that is, in any.  An image stands for a root and its   *)
(* kernel: "good" finds the host's uplink and its address, "deaf" lacks    *)
(* one of them, "dead" panics, "refused" has a cixd that cannot start,     *)
(* "torn" is half written.                                                 *)
(***************************************************************************)
EXTENDS Integers, FiniteSets

CONSTANTS
    ROOT_UPDATE_TRIES,          \* the counter an entry is written with
    BOOT_CONFIRM_MAX_ATTEMPTS,  \* the confirm timer's attempts
    MaxVersion,                 \* the versions an update may be given
    Images,                     \* what an update may carry
    Faults,                     \* the writes that may fail
    MaxFaults                   \* how many of them fail

ASSUME TriesAssumption == ROOT_UPDATE_TRIES \in Nat \ {0}
ASSUME AttemptsAssumption == BOOT_CONFIRM_MAX_ATTEMPTS \in Nat \ {0}
ASSUME VersionAssumption == MaxVersion \in Nat \ {0}
ASSUME ImagesAssumption == Images \subseteq {"good", "deaf", "dead", "refused"}
ASSUME FaultsAssumption ==
    Faults \subseteq {"decrement", "confirm", "entry", "unlink"} /\ MaxFaults \in Nat

Slots == {"a", "b"}
Other(s) == IF s = "a" THEN "b" ELSE "a"
NoCounter == -1
NoTimer == -1

Entry == [slot : Slots, left : NoCounter .. ROOT_UPDATE_TRIES,
          version : 1 .. MaxVersion, linux : BOOLEAN]

\* What cixd holds in memory about this boot.  `attached': the uplink is a port
\* of the management bridge.  `unattached': g_uplink_unattached is set.
\* `unbound': g_bind_unavailable is set.  `attempts': the confirm timer.
Cixd == [attached : BOOLEAN, unattached : BOOLEAN, unbound : BOOLEAN,
         attempts : NoTimer .. BOOT_CONFIRM_MAX_ATTEMPTS - 1, switched : BOOLEAN]

Healthy == [attached |-> TRUE, unattached |-> FALSE, unbound |-> FALSE,
            attempts |-> NoTimer, switched |-> FALSE]

VARIABLES
    entries,    \* the loader entries on the ESP
    oneshot,    \* LoaderEntryOneShot: a slot or "none"
    default,    \* the slots loader.conf's default pattern matches
    root,       \* the image each slot holds
    config,     \* the management network on disk: "fresh" (no address yet),
                \* "unlinked" (no uplink among its interfaces), "linked"
    machine,    \* "reset", "kernel", "exec", "up" or "parked"
    running,    \* the slot control was handed to (g_slot)
    cixd,
    update,     \* the helper that writes a slot: "idle", "removed", "writing"
    roll,       \* a host roll waits to switch into the slot it staged
    served,     \* the slots whose present image has had a cixd about to serve
    faults

esp == <<entries, oneshot, default>>
vars == <<esp, root, config, machine, running, cixd, update, roll, served, faults>>

EntriesOf(s) == {e \in entries : e.slot = s}
Counted(s) == {e \in EntriesOf(s) : e.left >= 0}
Confirmed(s) == \E e \in EntriesOf(s) : e.left = NoCounter
Reachable == cixd.attached /\ ~cixd.unbound

\* A write of one kind succeeds, or fails while faults are left.
Outcome(kind) == IF kind \in Faults /\ faults < MaxFaults THEN {TRUE, FALSE} ELSE {TRUE}
CountFault(ok) == faults' = IF ok THEN faults ELSE faults + 1

\* The directory with e under another counter: a rename replaces its target.
Renamed(e, left) ==
    (entries \ ({e} \cup {x \in EntriesOf(e.slot) : x.left = left}))
        \cup {[e EXCEPT !.left = left]}

\* All that ends with the process: memory, timers, and the helper child.
Down ==
    /\ machine' = "reset"
    /\ cixd' = Healthy
    /\ update' = "idle"
    /\ roll' = FALSE

-----------------------------------------------------------------------------
(* cix-boot                                                                *)

Newest(S) == {e \in S : \A x \in S : x.version <= e.version}

\* pick_entry(): a spent entry only when there is no other.
PickEntry(S) ==
    LET fresh == {e \in S : e.linux /\ e.left # 0}
    IN IF fresh # {} THEN Newest(fresh) ELSE Newest({e \in S : e.linux})

FindEntryById(id) == {e \in entries : e.linux /\ e.slot = id}

\* What efi_main() may choose: the one-shot, then the default pattern, then
\* anything.
Chosen ==
    LET once == FindEntryById(oneshot)
        matching == PickEntry({e \in entries : e.slot \in default})
    IN CASE once # {} -> once
         [] once = {} /\ matching # {} -> matching
         [] OTHER -> PickEntry(entries)

\* Mutated: the attempt is recorded only by a kernel that came up.
DecrementTriesNever(e, ok) == entries

\* Mutated: the counter is taken down without a look at it.
DecrementTriesPastZero(e, ok) ==
    IF e.left # NoCounter /\ ok THEN Renamed(e, e.left - 1) ELSE entries

\* decrement_tries(): a failure is not fatal.
DecrementTries(e, ok) == IF e.left > 0 /\ ok THEN Renamed(e, e.left - 1) ELSE entries

\* The try is spent before the kernel gets control.  Without any entry cix-boot
\* gives up; there is no step for it, so such a machine is a deadlock.
BootEntry ==
    /\ machine = "reset"
    /\ \E e \in Chosen, ok \in Outcome("decrement") :
        /\ entries' = DecrementTries(e, ok)
        /\ CountFault(ok)
        /\ running' = e.slot
    /\ machine' = "kernel"
    /\ oneshot' = "none"
    /\ UNCHANGED <<default, root, config, cixd, update, roll, served>>

-----------------------------------------------------------------------------
(* The start of cixd and the confirmation of a boot                        *)

\* boot_is_unconfirmed(): a counted entry ranks first (esp_confirm_rank()).
BootIsUnconfirmed(s) == Counted(s) # {}

\* confirm_boot(): what the directory may be afterwards.
ConfirmBoot(s, ok) ==
    IF ~ok \/ Counted(s) = {} THEN {entries} ELSE {Renamed(e, NoCounter) : e \in Counted(s)}

\* maybe_confirm_boot(), on the state c that the start of cixd has computed.
MaybeConfirmBoot(s, c) ==
    IF c.unattached \/ c.unbound
    THEN /\ cixd' = [c EXCEPT !.attempts = IF BootIsUnconfirmed(s) THEN 0 ELSE NoTimer]
         /\ UNCHANGED <<entries, faults>>
    ELSE /\ cixd' = c
         /\ \E ok \in Outcome("confirm") :
                entries' \in ConfirmBoot(s, ok) /\ CountFault(ok)

\* What network_init(), bootstrap_management_network() and start_listeners() may
\* leave: the uplink is attached for the first time or again, and only the first
\* time is a failure remembered.
NetworkOf(image) ==
    {c \in Cixd : /\ c.attached => config # "unlinked"
                  /\ c.unattached = (config = "fresh" /\ ~c.attached)
                  /\ c.attempts = NoTimer /\ ~c.switched
                  /\ IF image = "good" THEN ~c.unbound /\ (c.attached \/ config = "unlinked")
                     ELSE c.unbound \/ ~c.attached}

Serves(image) == image \in {"good", "deaf"}

\* cixd_main() of a fresh boot, up to where it is about to serve.
Start ==
    /\ machine = "kernel" /\ Serves(root[running])
    /\ machine' = "up"
    /\ served' = served \cup {running}
    /\ \E c \in NetworkOf(root[running]) :
        /\ MaybeConfirmBoot(running, c)
        /\ config' = IF c.attached \/ config = "linked" THEN "linked" ELSE "unlinked"
    /\ UNCHANGED <<oneshot, default, root, running, update, roll>>

\* The kernel panics, and panic=10 resets the machine.
Panic ==
    /\ machine = "kernel" /\ root[running] \in {"dead", "torn"}
    /\ Down
    /\ UNCHANGED <<esp, root, config, running, served, faults>>

\* main(): a cixd that cannot start parks as pid 1.
Park ==
    /\ machine = "kernel" /\ root[running] = "refused"
    /\ machine' = "parked"
    /\ UNCHANGED <<esp, root, config, running, cixd, update, roll, served, faults>>

\* Mutated: one attempt too many.
LastAttemptLate == cixd.attempts >= BOOT_CONFIRM_MAX_ATTEMPTS

\* The attempt that is being counted is the last one.
LastAttempt == cixd.attempts + 1 >= BOOT_CONFIRM_MAX_ATTEMPTS

\* handle_boot_confirm_timer_event(): the attach succeeds ...
ConfirmTimerAttaches ==
    /\ machine = "up" /\ cixd.attempts # NoTimer
    /\ cixd.unattached /\ config = "unlinked"
    /\ config' = "linked"
    /\ cixd' = [cixd EXCEPT !.attached = TRUE, !.unattached = FALSE, !.attempts = NoTimer]
    /\ \E ok \in Outcome("confirm") :
            entries' \in ConfirmBoot(running, ok) /\ CountFault(ok)
    /\ UNCHANGED <<oneshot, default, root, machine, running, update, roll, served>>

\* ... or fails, whatever the reason, and is tried again ...
ConfirmTimerRetries ==
    /\ machine = "up" /\ cixd.attempts # NoTimer
    /\ ~LastAttempt
    /\ cixd' = [cixd EXCEPT !.attempts = @ + 1]
    /\ UNCHANGED <<esp, root, config, machine, running, update, roll, served, faults>>

\* ... until the last attempt reboots the host.
ConfirmTimerGivesUp ==
    /\ machine = "up" /\ cixd.attempts # NoTimer
    /\ LastAttempt
    /\ Down
    /\ UNCHANGED <<esp, root, config, running, served, faults>>

-----------------------------------------------------------------------------
(* What an operator does through the API                                   *)

\* POST of an interface on the management network, from the console shell; one
\* that is on the network's list already is refused.
AttachUplink ==
    /\ machine = "up" /\ config = "unlinked"
    /\ config' = "linked"
    /\ cixd' = [cixd EXCEPT !.attached = TRUE]
    /\ UNCHANGED <<esp, root, machine, running, update, roll, served, faults>>

\* PUT of the management address.
SetManagementAddress ==
    /\ machine = "up" /\ cixd.unbound
    /\ cixd' = [cixd EXCEPT !.unbound = FALSE]
    /\ UNCHANGED <<esp, root, config, machine, running, update, roll, served, faults>>

\* esp_boot_next_set(): refused for a slot with no entry.
BootNextSet(s) ==
    /\ machine = "up" /\ EntriesOf(s) # {}
    /\ oneshot' = s
    /\ UNCHANGED <<entries, default, root, config, machine, running, cixd, update, roll, served, faults>>

BootNextClear ==
    /\ machine = "up"
    /\ oneshot' = "none"
    /\ UNCHANGED <<entries, default, root, config, machine, running, cixd, update, roll, served, faults>>

\* esp_loader_set(): a pattern that matches nothing is refused.  One that matches
\* a file name and no id, which cix-boot ignores, is Slots.
LoaderSet(pattern) ==
    /\ machine = "up"
    /\ entries = {} \/ \E e \in entries : e.slot \in pattern
    /\ default' = pattern
    /\ UNCHANGED <<entries, oneshot, root, config, machine, running, cixd, update, roll, served, faults>>

\* Mutated: the running slot's last entry too.
MayDeleteAny(e) == TRUE

\* esp_entry_delete(): never the last entry of the running slot.
MayDelete(e) == e.slot # running \/ EntriesOf(running) # {e}

EntryDelete(e) ==
    /\ machine = "up" /\ MayDelete(e)
    /\ entries' = entries \ {e}
    /\ UNCHANGED <<oneshot, default, root, config, machine, running, cixd, update, roll, served, faults>>

\* Every orderly reboot: the API's, the host roll's when the kernel changed,
\* when nothing became quiescent in time, or when a switch was refused or undone.
Reboot ==
    /\ machine = "up"
    /\ Down
    /\ UNCHANGED <<esp, root, config, running, served, faults>>

\* Power is lost, or somebody power-cycles a host that stands still.
PowerCut ==
    /\ machine # "reset"
    /\ Down
    /\ UNCHANGED <<esp, root, config, running, served, faults>>

-----------------------------------------------------------------------------
(* do_system_update(), in a helper child                                   *)

\* Mutated: only the entry named cix-<slot>.conf goes.
UpdateRemovesPlain(ok) == {entries \ {e \in EntriesOf(Other(running)) : e.left = NoCounter}}

\* Every entry of the slot goes first; a failed unlink is passed over.  So is one
\* that has not reached the disk: nothing syncs the directory before the slot is
\* written, and a loss of power brings the entry back as if unlink had failed.
UpdateRemoves(ok) ==
    IF ok THEN {entries \ EntriesOf(Other(running))}
    ELSE {entries \ S : S \in SUBSET EntriesOf(Other(running))}

UpdateStart ==
    /\ machine = "up" /\ update = "idle"
    /\ update' = "removed"
    /\ \E ok \in Outcome("unlink") : entries' \in UpdateRemoves(ok) /\ CountFault(ok)
    /\ UNCHANGED <<oneshot, default, root, config, machine, running, cixd, roll, served>>

\* The first byte of the partition; the kernel's file follows it.
UpdateWrite ==
    /\ machine = "up" /\ update = "removed"
    /\ update' = "writing"
    /\ root' = [root EXCEPT ![Other(running)] = "torn"]
    /\ served' = served \ {Other(running)}
    /\ UNCHANGED <<esp, config, machine, running, cixd, roll, faults>>

UpdateFail ==
    /\ machine = "up" /\ update # "idle"
    /\ update' = "idle"
    /\ UNCHANGED <<esp, root, config, machine, running, cixd, roll, served, faults>>

Staged(v, linux) ==
    (entries \ {e \in EntriesOf(Other(running)) : e.left = ROOT_UPDATE_TRIES})
        \cup {[slot |-> Other(running), left |-> ROOT_UPDATE_TRIES, version |-> v,
               linux |-> linux]}

\* The last write: the entry.  One that fails leaves none, an empty one or all
\* of it.  A roll that staged with the running kernel goes on to switch.
UpdateStage ==
    /\ machine = "up" /\ update = "writing"
    /\ update' = "idle"
    /\ \E image \in Images : root' = [root EXCEPT ![Other(running)] = image]
    /\ \E v \in 1 .. MaxVersion, ok \in Outcome("entry") :
        /\ entries' \in IF ok THEN {Staged(v, TRUE)}
                        ELSE {entries, Staged(v, FALSE), Staged(v, TRUE)}
        /\ roll' \in IF ok THEN {roll, TRUE} ELSE {roll}
        /\ CountFault(ok)
    /\ UNCHANGED <<oneshot, default, config, machine, running, cixd, served>>

-----------------------------------------------------------------------------
(* The root switch (ADR-0375)                                              *)

\* esp_entry_hold() takes a slot with one entry, counted, with tries left.
MayHold(s) == \E e \in entries : EntriesOf(s) = {e} /\ e.left > 0

\* Mutated: the entry of the slot that is left, not of the one switched into.
HeldWrongSlot(s) == UNION {Renamed(e, 0) : e \in EntriesOf(Other(s))}

\* Mutated: the entry keeps its tries.
HeldUnspent(s) == entries

\* The entry of the slot without a try: a reset does not choose it.
Held(s) == UNION {Renamed(e, 0) : e \in EntriesOf(s)}

\* handover_quiescent(), of the work this module has.
Quiescent == update = "idle"

\* hostroll_switch_tick(), handover_exec(): held, moved, pivoted, exec'd.
Switch ==
    /\ machine = "up" /\ roll /\ Quiescent /\ MayHold(Other(running))
    /\ entries' = Held(Other(running))
    /\ machine' = "exec"
    /\ running' = Other(running)
    /\ cixd' = [cixd EXCEPT !.attempts = NoTimer, !.switched = TRUE]
    /\ update' = "idle"
    /\ roll' = FALSE
    /\ UNCHANGED <<oneshot, default, root, config, served, faults>>

\* The switch ends in a reboot with the entry held: the exec failed after the
\* pivot, or the rename that would have put the name back did.
SwitchAborts ==
    /\ machine = "up" /\ roll /\ Quiescent /\ MayHold(Other(running))
    /\ entries' = Held(Other(running))
    /\ Down
    /\ UNCHANGED <<oneshot, default, root, config, running, served, faults>>

\* The new cixd takes over and confirms its slot as a boot does: g_uplink_unattached
\* came with the record, interfaces are attached again, listeners bound anew.
StartSwitched ==
    /\ machine = "exec" /\ Serves(root[running])
    /\ machine' = "up"
    /\ served' = served \cup {running}
    /\ \E attached \in {cixd.attached, config = "linked"}, unbound \in BOOLEAN :
            MaybeConfirmBoot(running, [cixd EXCEPT !.attached = attached, !.unbound = unbound])
    /\ UNCHANGED <<oneshot, default, root, config, running, update, roll>>

\* main(): a cixd that cannot take over reboots rather than parks.
SwitchFails ==
    /\ machine = "exec"
    /\ Down
    /\ UNCHANGED <<esp, root, config, running, served, faults>>

-----------------------------------------------------------------------------
\* cix-install: one counted entry, for slot a; slot b has no root yet.
Init ==
    /\ \E v \in 1 .. MaxVersion :
        entries = {[slot |-> "a", left |-> ROOT_UPDATE_TRIES, version |-> v, linux |-> TRUE]}
    /\ oneshot = "none"
    /\ default = Slots
    /\ \E image \in Images : root = [s \in Slots |-> IF s = "a" THEN image ELSE "torn"]
    /\ config = "fresh"
    /\ machine = "reset"
    /\ running = "a"
    /\ cixd = Healthy
    /\ update = "idle"
    /\ roll = FALSE
    /\ served = {}
    /\ faults = 0

ConfirmTimer == ConfirmTimerAttaches \/ ConfirmTimerRetries \/ ConfirmTimerGivesUp

Next ==
    \/ BootEntry
    \/ Start \/ Panic \/ Park
    \/ ConfirmTimer
    \/ AttachUplink \/ SetManagementAddress
    \/ \E s \in Slots : BootNextSet(s)
    \/ BootNextClear
    \/ \E pattern \in (SUBSET Slots) \ {{}} : LoaderSet(pattern)
    \/ \E e \in entries : EntryDelete(e)
    \/ Reboot \/ PowerCut
    \/ UpdateStart \/ UpdateWrite \/ UpdateFail \/ UpdateStage
    \/ Switch \/ SwitchAborts \/ StartSwitched \/ SwitchFails

Spec == Init /\ [][Next]_vars

\* Firmware, kernel and cixd go on by themselves; operators need not act.
FairSpec ==
    /\ Spec
    /\ WF_vars(BootEntry) /\ WF_vars(Start) /\ WF_vars(Panic) /\ WF_vars(Park)
    /\ WF_vars(StartSwitched \/ SwitchFails) /\ WF_vars(ConfirmTimer)
=============================================================================
