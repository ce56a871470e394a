---------------------------- MODULE MCBootSlots ----------------------------
(* Instances of BootSlots for TLC. *)
EXTENDS BootSlotsProps

AllImages == {"good", "deaf", "dead", "refused"}
FirmwareWrites == {"decrement"}
NoFaults == {}
=============================================================================
