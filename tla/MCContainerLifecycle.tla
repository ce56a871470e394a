------------------------ MODULE MCContainerLifecycle ------------------------
(* Instances of ContainerLifecycle for TLC. *)
EXTENDS ContainerLifecycleProps

AllFour == {"no", "always", "on-failure", "unless-stopped"}
OnlyAlways == {"always"}
=============================================================================
