---------------------------- MODULE MCDurableParts ----------------------------
(***************************************************************************)
(* DurableOperations for TLC, with several instances in each run: part     *)
(* says which of them a behaviour belongs to.                              *)
(***************************************************************************)
EXTENDS MCDurableOperations

VARIABLE part

\* Every scale is planned to the number of replicas there is.
Level ==
  \A o \in Op : record[o] = NoRecord => record'[o].replicas \in {None, target.replicas}

-----------------------------------------------------------------------------
(* Effects: workers whose clocks agree, or whose clocks are up to one tick  *)
(* off, with less time, one reconcile less and fewer changes by others;      *)
(* or one worker, with all that others may change and both actions.         *)

\* One of the templates, and one of the workers: whichever it is.
OneTemplate == {CHOOSE t \in Template : TRUE}
OneWorker == {CHOOSE w \in Worker : TRUE}

Exact ==
  INSTANCE DurableOperations
    WITH Skew <- 0, Action <- {"scale"}, Template <- OneTemplate

Skewed ==
  INSTANCE DurableOperations
    WITH MaxTime <- 1, MaxRv <- 1, MaxVersion <- 3, Action <- {"scale"},
         Template <- OneTemplate

Rollout ==
  INSTANCE DurableOperations
    WITH Worker <- OneWorker, ExecutionWindow <- 0, Skew <- 0, MaxTime <- 1, MaxRv <- 3

\* A behaviour of the first two instances has but one template and no permutation of
\* it, one of the third but one worker, so that the symmetry of the others is sound.
EffectInit ==
  /\ Init
  /\ part \in {"exact", "skewed", "rollout"}
  /\ part # "rollout" => target.template \in OneTemplate

EffectNext ==
  /\ UNCHANGED part
  /\ \/ part = "exact" /\ Exact!Next /\ Level
     \/ part = "skewed" /\ Skewed!Next /\ Level
     \/ part = "rollout" /\ Rollout!Next

EffectSpec == EffectInit /\ [][EffectNext]_<<vars, part>>

-----------------------------------------------------------------------------
(* Approvals: two requests of two actors for one operation, or two          *)
(* operations on one Deployment, approved by one actor in turn.             *)

Approvers == INSTANCE DurableOperations WITH MaxVersion <- 3, MaxRv <- 1

Neighbours ==
  INSTANCE DurableOperations
    WITH ClaimDuration <- 0, MaxTime <- 0, MaxOrphans <- 0

OneOperation == Cardinality({o \in Op : record'[o] # NoRecord}) <= 1

OneApprover ==
  /\ Cardinality({q \in Request : proc'[q] # Idle}) <= 1
  /\ Cardinality(UNION {{record'[o].actor, proc'[p].rec.actor} : o \in Op, p \in Process}
                   \ {None}) <= 1

ApprovalNext ==
  /\ UNCHANGED part
  /\ \/ part = "approvers" /\ Approvers!Next /\ OneOperation /\ Level
     \/ part = "neighbours" /\ Neighbours!Next /\ OneApprover

ApprovalInit == Init /\ part \in {"approvers", "neighbours"}

ApprovalSpec == ApprovalInit /\ [][ApprovalNext]_<<vars, part>>
=============================================================================
