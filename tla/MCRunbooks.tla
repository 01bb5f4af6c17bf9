------------------------------ MODULE MCRunbooks ------------------------------
(***************************************************************************)
(* Runbooks for TLC.  The scripts share nothing, so an instance lets one   *)
(* of them run while the other one rests.                                  *)
(***************************************************************************)
EXTENDS Runbooks

VARIABLE part   \* the one that runs

\* The four scenarios in their order.
Scenarios == <<"healthy", "errors", "slow", "late-failure">>

\* What rests has one initial state.
MCInit ==
  /\ AllInit /\ part \in {"scale", "lab"}
  /\ part = "lab" => ~durable /\ object.replicas = Temporary

MCNext ==
  /\ UNCHANGED part
  /\ \/ part = "scale" /\ ScaleActs
     \/ part = "lab" /\ LabActs

MCSpec == MCInit /\ [][MCNext]_<<vars, labVars, part>>
=============================================================================
