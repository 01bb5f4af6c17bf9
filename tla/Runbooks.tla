------------------------------- MODULE Runbooks -------------------------------
(***************************************************************************)
(* The two scripts of the repository that run for long: the runbook that   *)
(* scales for a while (TemporaryScale) and, next to it, the release lab    *)
(* (ReleaseLab).  They share neither a target nor a process, and act in    *)
(* any order.                                                              *)
(***************************************************************************)
EXTENDS TemporaryScale, Sequences

CONSTANTS Modes, Jitter, MaxEdits, MaxFaults   \* of ReleaseLab

VARIABLES
  service, routed, candidate, requests, scenario, step, original, promoted, outcome,
  errored, edits, faults, unsettled, switches

labVars ==
  <<service, routed, candidate, requests, scenario, step, original, promoted, outcome,
    errored, edits, faults, unsettled, switches>>

Lab == INSTANCE ReleaseLab WITH at <- step

ASSUME InstanceBounds == Lab!LabBounds

-----------------------------------------------------------------------------
AllInit == Init /\ Lab!Init

ScaleActs == Next /\ UNCHANGED labVars

LabActs == Lab!Next /\ UNCHANGED vars

AllNext == ScaleActs \/ LabActs

AllSpec == AllInit /\ [][AllNext]_<<vars, labVars>>

-----------------------------------------------------------------------------
(* The properties of the instances; the others of the runbook have their    *)
(* names.                                                                   *)

\* What the lab records is a decision, what it rolls back was promoted, and the exit
\* status of the runbook is one of three.
Types == TypeOK /\ Lab!TypeOK

\* Only the healthy candidate is promoted for good, and one whose first measurement
\* fails never gets traffic from the Service.
OnlyHealthyIsPromoted == Lab!OnlyHealthyIsPromoted /\ Lab!RejectedGetsNoTraffic

\* The finally block has switched traffic back, whatever failed after the promotion,
\* and neither switch has overwritten somebody's edit of the Service (release.py).
TrafficIsRestored == Lab!TrafficIsRestored /\ Lab!EditsAreNotOverwritten
=============================================================================
