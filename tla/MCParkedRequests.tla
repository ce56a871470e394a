-------------------------- MODULE MCParkedRequests --------------------------
(* Instances of ParkedRequests for TLC. *)
EXTENDS ParkedRequestsProps

OnePlace == [k \in Kinds |-> 1]
OneWaits == [k \in Kinds |-> IF k = "update" THEN 0 ELSE 1]
\* A download behind a credential, a snapshot and a module without one.
SomeRequests == {[login |-> TRUE, job |-> "download"], [login |-> FALSE, job |-> "snapshot"],
                 [login |-> FALSE, job |-> "load"]}
=============================================================================
