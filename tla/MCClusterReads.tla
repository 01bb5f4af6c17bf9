---------------------------- MODULE MCClusterReads ----------------------------
(***************************************************************************)
(* ClusterReads for TLC.  None of the handlers reads what another one      *)
(* writes, so an instance lets one of them run while the others rest.      *)
(***************************************************************************)
EXTENDS ClusterReads, TLC

VARIABLE part   \* the handler that runs

-----------------------------------------------------------------------------
\* A handler that rests has one initial state.
DetailRests ==
  /\ parent = [q \in Pod |-> None] /\ owner = [s \in ReplicaSet |-> 0]
  /\ ~stalled /\ running = {} /\ service = [exists |-> FALSE, selects |-> TRUE, ready |-> 0]

OverviewRests == status = [d \in Deployment |-> "Healthy"] /\ retained = <<>>

TopologyRests == exists = Cluster!Object

\* No diagnosis bears on another one: a stalled Deployment starts without a Service and
\* without pods, and one with a Service with its ReplicaSets and with pods that are well,
\* unless it is changed during the request.  A Service that is created then selects its
\* template.
DetailInit ==
  /\ Workload!Init
  /\ stalled => ~service.exists /\ running = {}
  /\ service.exists => sick = {} /\ \A s \in ReplicaSet : owner[s] # 0
  /\ ~service.exists => service.selects

MCInit ==
  /\ part \in {"detail", "overview", "topology"}
  /\ Cluster!Init /\ (part # "topology" => TopologyRests)
  /\ DetailInit
  /\ IF part = "detail" THEN \E q \in Pod : parent[q] # None ELSE DetailRests
  /\ Overview!Init /\ (part # "overview" => OverviewRests)

\* Up to two lists fail, or, after the deadline of the request, all from one on.
FewFail ==
  \/ Cardinality(failed') <= 2
  \/ \E k \in 1..Len(Cluster!Lists) : failed' = {Cluster!Lists[i] : i \in k..(topologyAt' - 1)}

MCNext ==
  /\ UNCHANGED part
  /\ \/ part = "detail" /\ DetailActs
     \/ part = "overview" /\ OverviewActs
     \/ part = "topology" /\ TopologyActs /\ FewFail

MCSpec == MCInit /\ [][MCNext]_<<part, allVars>>

\* Only the detail has the constants.
Symmetry == Permutations(ReplicaSet) \union Permutations(Pod)
=============================================================================
