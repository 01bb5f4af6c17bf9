------------------------- MODULE MCOperationController -------------------------
(***************************************************************************)
(* OperationController for TLC: both ways of running the processes, one    *)
(* per behaviour.  The constant ActiveActive is FALSE, the default of the  *)
(* program; the instance below is what a process does when it is TRUE.     *)
(***************************************************************************)
EXTENDS OperationController, TLC

VARIABLE mode

Active == INSTANCE OperationController WITH ActiveActive <- TRUE

Symmetry == Permutations(Op) \union Permutations(Process)

all == <<vars, mode>>

ModeInit == Init /\ mode \in {"elected", "active"}

(* Safety: two processes in either mode.  An elected leader can be suspended *)
(* or crash; active-active processes see their target deleted.  Both see     *)
(* calls that fail.                                                          *)
ModeNext ==
  /\ UNCHANGED mode
  /\ \/ mode = "elected" /\ Next /\ UNCHANGED deletions
     \/ mode = "active" /\ Active!Next /\ UNCHANGED crashes

ModeSpec == ModeInit /\ [][ModeNext]_all

(* Liveness: one process that is elected, with every fault, or two that are  *)
(* active, with outages only.                                                *)
Alone == CHOOSE p \in Process : TRUE

Runs(p) == mode = "active" \/ p = Alone

EndsNext ==
  /\ UNCHANGED mode
  /\ \/ /\ mode = "elected" /\ Next
        /\ \A p \in Process \ {Alone} : status'[p] = "standby"
     \/ mode = "active" /\ Active!Next /\ UNCHANGED <<deletions, outages>>

Starts(p) ==
  (mode = "active" /\ Active!Start(p)) \/ (mode = "elected" /\ Runs(p) /\ Start(p))

StepsDown(p) == mode = "elected" /\ StepDown(p)

\* Fairness, with the two actions that depend on the mode.
EndsFairness ==
  /\ WF_vars(ApiRecovers) /\ WF_vars(LeaseExpires)
  /\ \A o \in Op : WF_vars(TimePasses(o)) /\ WF_vars(ClaimExpires(o))
  /\ \A p \in Process :
       /\ WF_vars(Starts(p)) /\ WF_vars(StepsDown(p)) /\ WF_vars(WorkerStep(p))
       /\ \A o \in Op :
            /\ WF_vars(RecordEvent(p, o)) /\ WF_vars(DeploymentEvent(p, o))
            /\ WF_vars(TimerFires(p, o)) /\ SF_vars(Get(p, o))

EndsSpec == ModeInit /\ [][EndsNext]_all /\ EndsFairness
=============================================================================
