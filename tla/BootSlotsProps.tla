--------------------------- MODULE BootSlotsProps ---------------------------
(***************************************************************************)
(* What the A/B scheme promises, over BootSlots.                           *)
(***************************************************************************)
EXTENDS BootSlots

\* Every variable has its type.
TypeOK ==
    /\ entries \subseteq Entry
    /\ oneshot \in Slots \cup {"none"}
    /\ default \in (SUBSET Slots) \ {{}}
    /\ root \in [Slots -> Images \cup {"torn"}]
    /\ config \in {"fresh", "unlinked", "linked"}
    /\ machine \in {"reset", "kernel", "exec", "up", "parked"}
    /\ running \in Slots
    /\ cixd \in Cixd
    /\ update \in {"idle", "removed", "writing"}
    /\ roll \in BOOLEAN
    /\ served \subseteq Slots
    /\ faults \in 0 .. MaxFaults

\* Control is never handed to a half-written slot, by cix-boot or by a root
\* switch, wherever an update was interrupted.
NoTornBoot == machine \in {"kernel", "exec", "up"} => root[running] # "torn"

\* An entry without a counter stands for an image that has come up: no stale
\* entry vouches for the image that an update wrote behind it.
ConfirmedHasServed == \A e \in entries : e.left = NoCounter => e.slot \in served

\* A running host can boot the slot it runs again: updates, switches and
\* deletions leave that slot an entry.
RunningSlotBootable == machine = "up" => \E e \in EntriesOf(running) : e.linux

\* Until a slot that was switched into is confirmed, a reset boots the slot that
\* ran before, unless the operator's one-shot or default pattern says otherwise
\* or that slot has no try left.
SwitchIsReversible ==
    /\ machine \in {"exec", "up"} /\ cixd.switched /\ ~Confirmed(running)
    /\ oneshot = "none" /\ Other(running) \in default
    /\ \E e \in EntriesOf(Other(running)) : e.linux /\ e.left # 0
    => Chosen \subseteq EntriesOf(Other(running))

-----------------------------------------------------------------------------
(* What makes them inductive, when unlink() and the entry's write succeed  *)

WritesLand == Faults \cap {"unlink", "entry"} = {}

\* A slot has one entry at most, and it names a kernel.
OneEntry ==
    /\ \A e, f \in entries : e.slot = f.slot => e = f
    /\ \A e \in entries : e.linux

\* No entry names a half-written slot.
TornIsVacant == \A e \in entries : root[e.slot] # "torn"

\* A slot is written only while its host is up and nothing names it.
UpdateIsHidden == update # "idle" => machine = "up" /\ EntriesOf(Other(running)) = {}

\* What has control was handed it through an entry, which is still there.
ControlHasEntry == machine \in {"kernel", "exec", "up"} => EntriesOf(running) # {}

UpHasServed == machine = "up" => running \in served

\* A slot that was switched into has no try, until it has no counter.
SwitchedIsHeld ==
    machine \in {"exec", "up"} /\ cixd.switched
        => \A e \in EntriesOf(running) : e.left \in {NoCounter, 0}

BInv ==
    /\ OneEntry /\ TornIsVacant /\ UpdateIsHidden /\ ControlHasEntry /\ NoTornBoot
    /\ UpHasServed /\ ConfirmedHasServed /\ SwitchedIsHeld

-----------------------------------------------------------------------------
(* A trial                                                                 *)

\* The slot that is not s can be fallen back to.
FallbackFrom(s) ==
    /\ oneshot # s
    /\ Other(s) \in default
    /\ \E e \in EntriesOf(Other(s)) : e.linux /\ e.left # 0

OnTrial(s) == machine = "kernel" /\ running = s /\ ~Confirmed(s) /\ FallbackFrom(s)

TrialOver(s) ==
    \/ running # s
    \/ Confirmed(s)
    \/ ~FallbackFrom(s)
    \/ machine = "up" /\ Reachable

\* A boot on trial is decided: the slot is confirmed, the host is reachable on
\* it, or its tries run out and the other slot boots; or its cixd has parked.
TrialEnds == \A s \in Slots : OnTrial(s) ~> (TrialOver(s) \/ machine = "parked")

\* What the loader entries say of a slot.
Status(s) ==
    CASE EntriesOf(s) = {} -> "vacant"
      [] Confirmed(s) -> "proven"
      [] OTHER -> "trial"

AB == INSTANCE ABSlots WITH
        status <- [s \in Slots |-> Status(s)],
        whole <- [s \in Slots |-> root[s] # "torn"],
        active <- running,
        serving <- (machine = "up")

\* Entries, counters, updates, switches and confirmations together keep the A/B
\* promise: no step touches the slot that runs, hands control to a slot that is
\* not whole, or gives or takes a slot's confirmation but by the boot that earns
\* it and the update that replaces what was confirmed.
ImplementsAB == AB!Spec

-----------------------------------------------------------------------------
(* What comments and guides say, and the code does not do                  *)

\* A boot is confirmed only with its uplink attached: "confirming a boot means the
\* host is REACHABLE, not that a socket is bound" (maybe_confirm_boot()).
ConfirmsWithUplink ==
    [][~Confirmed(running) /\ running' = running /\ Confirmed(running)' => cixd'.attached]_vars
=============================================================================
