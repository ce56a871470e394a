------------------------------ MODULE ABSlots ------------------------------
(***************************************************************************)
(* What an A/B scheme promises of its two slots, whatever the bootloader,  *)
(* the counter and the updater look like: what is active is left alone,    *)
(* what is handed control is whole, new content is on trial, and only the  *)
(* slot that serves is proven.                                             *)
(***************************************************************************)

Slots == {"a", "b"}

VARIABLES
    status,     \* of each slot: "vacant" (nothing boots it), "trial", "proven"
    whole,      \* of each slot: its content is all there
    active,     \* the slot that was last handed control
    serving     \* the host serves from it

abvars == <<status, whole, active, serving>>

Init ==
    /\ status = [s \in Slots |-> IF s = "a" THEN "trial" ELSE "vacant"]
    /\ whole = [s \in Slots |-> s = "a"]
    /\ active = "a"
    /\ serving = FALSE

\* A slot that is not active is taken out of the choice,
Withdraw(s) ==
    /\ serving /\ s # active
    /\ status' = [status EXCEPT ![s] = "vacant"]
    /\ UNCHANGED <<whole, active, serving>>

\* written,
Overwrite(s) ==
    /\ serving /\ s # active
    /\ whole' = [whole EXCEPT ![s] = FALSE]
    /\ UNCHANGED <<status, active, serving>>

\* and, complete, offered on trial; the offer may fail.
Offer(s) ==
    /\ serving /\ s # active
    /\ whole' = [whole EXCEPT ![s] = TRUE]
    /\ status' \in {status, [status EXCEPT ![s] = "trial"]}
    /\ UNCHANGED <<active, serving>>

\* Control is handed to a slot, by a boot or in place.
Boot(s) ==
    /\ status[s] # "vacant" /\ whole[s]
    /\ active' = s
    /\ serving' = FALSE
    /\ UNCHANGED <<status, whole>>

\* The active slot serves, and is proven at once, later or never.
Serve ==
    /\ ~serving /\ status[active] # "vacant"
    /\ serving' = TRUE
    /\ status' \in {status, [status EXCEPT ![active] = "proven"]}
    /\ UNCHANGED <<whole, active>>

Prove ==
    /\ serving /\ status[active] # "vacant"
    /\ status' = [status EXCEPT ![active] = "proven"]
    /\ UNCHANGED <<whole, active, serving>>

Stop ==
    /\ serving' = FALSE
    /\ UNCHANGED <<status, whole, active>>

Next ==
    \/ \E s \in Slots : Withdraw(s) \/ Overwrite(s) \/ Offer(s) \/ Boot(s)
    \/ Serve \/ Prove \/ Stop

Spec == Init /\ [][Next]_abvars
=============================================================================
