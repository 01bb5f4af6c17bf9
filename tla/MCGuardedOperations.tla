-------------------------- MODULE MCGuardedOperations --------------------------
(***************************************************************************)
(* GuardedOperations for TLC, with what the plan of a rollback restores    *)
(* (MCRollback), of which the former keeps the outcome only.  A behaviour  *)
(* is one of the two instances of MCRollback or of three here, each with   *)
(* the actions of Next on fewer inputs:                                    *)
(*   - races: two plans and two executions at one process, the target      *)
(*     changes, and every request is well-formed;                          *)
(*   - stores: three plans in the stores of two processes, one execution,  *)
(*     and twice the time;                                                 *)
(*   - policies: one plan, and a request for any change there is to ask   *)
(*     for, allowed or not, with whatever can be wrong about a request.    *)
(* Plan IDs, and executions, are interchangeable and used in their order.  *)
(***************************************************************************)
EXTENDS GuardedOperations, MCRollback

Scale ==
  [namespace |-> "kubevista", kind |-> "Deployment", name |-> "api",
   reason |-> "fit", action |-> "scale", replicas |-> 2]

Rollback == [Scale EXCEPT !.action = "rollback", !.replicas = None]

Two == {Scale, Rollback}

Allowed == Two \union {[Rollback EXCEPT !.action = "restart"]}

\* One change for every check that refuses it.
Refused ==
  {[Scale EXCEPT !.namespace = "kube-system"],
   [Scale EXCEPT !.kind = "StatefulSet"], [Scale EXCEPT !.name = None],
   [Scale EXCEPT !.reason = "short"], [Scale EXCEPT !.action = "delete"],
   [Scale EXCEPT !.replicas = 7], [Scale EXCEPT !.replicas = None]}

\* Where plans live for one tick only.
Quick ==
  INSTANCE GuardedOperations WITH TTL <- 1, Asked <- Allowed \union Refused

Plans == SetToSeq(Plan)
Executions == SetToSeq(Execution)
One == CHOOSE p \in Process : TRUE

Made == {o \in Plan : plan[o] # NoPlan}
Served == {r \in Execution : exec[r] # Waiting}

NextPlan == Plans[Cardinality(Made) + 1]
NextExecution == Executions[Cardinality(Served) + 1]

\* Well-formed requests for what was planned, or for another change.
Proper ==
  [flaw : {"ok"}, user : User, plan : Made,
   version : {plan[o].version : o \in Made}, asked : Two]

Runs == \E r \in Execution : Handle(r) \/ OrphanLands(r)

Races ==
  /\ part = "races" /\ now <= 2
  /\ \/ Cardinality(Made) < 2 /\ \E c \in Two : Quick!PlanOperation(One, NextPlan, c)
     \/ /\ Served # Execution
        /\ \E f \in Proper : Quick!Consume(NextExecution, One, f)
     \/ Runs \/ Crash(One) \/ TargetChanges \/ (now < 2 /\ Tick)

Stores ==
  /\ part = "stores"
  /\ \/ Made # Plan /\ \E p \in Process : PlanOperation(p, NextPlan, Scale)
     \/ /\ Served = {}
        /\ \E f \in Proper, p \in Process : Consume(NextExecution, p, f)
     \/ Runs \/ Tick
     \/ \E p \in Process : Crash(p)

Policies ==
  /\ part = "policies" /\ now <= 2
  /\ \/ Made = {} /\ \E c \in Allowed : Quick!PlanOperation(One, NextPlan, c)
     \/ /\ Served = {}
        /\ \E f \in Quick!Form :
             \/ Quick!Refuse(NextExecution, f)
             \/ Quick!Consume(NextExecution, One, f)
     \/ Runs \/ Crash(One) \/ TargetChanges \/ (now < 2 /\ Tick)

PartNext ==
  \/ UNCHANGED <<part, rollbackVars>> /\ (Races \/ Stores \/ Policies)
  \/ RollbackActs /\ UNCHANGED vars

\* What rests has one initial state.
PartInit ==
  /\ part \in {"races", "stores", "policies", "rollback", "review"} /\ RollbackInit
  /\ Init
  /\ part \in {"rollback", "review"} => previous = CHOOSE t \in Template : TRUE

PartSpec == PartInit /\ [][PartNext]_<<vars, part, rollbackVars>>
=============================================================================
