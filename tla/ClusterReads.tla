----------------------------- MODULE ClusterReads -----------------------------
(***************************************************************************)
(* What the API puts together from several reads of a cluster that goes on *)
(* changing: the detail of a workload (WorkloadDetail), the overview of    *)
(* incidents (IncidentOverview) and the topology (ClusterTopology).        *)
(*                                                                         *)
(* Each of these handlers only reads, and keeps nothing.  They act in any  *)
(* order, each with its own view of the part of the cluster that it reads. *)
(***************************************************************************)
EXTENDS Naturals, Sequences, FiniteSets

CONSTANTS
  None, ReplicaSet, Pod, MaxBorn, MaxDetailChanges, MaxLogs,                \* of WorkloadDetail
  Deployment, MaxItems, MaxEvents, MaxRetained, MaxOverviewChanges,         \* of IncidentOverview
  MaxAbsent, MaxTopologyChanges                                             \* of ClusterTopology

VARIABLES
  live, born, stalled, owner, parent, running, sick, leaving, service, detailChanges,
  detailAt, detailTodo, detail, truth, steady, missing,
  status, retained, overviewChanges, overviewAt, overviewTodo, items, warnings, listed, reads,
  exists, topologyChanges, topologyAt, seen, failed, throughout, together

detailVars ==
  <<live, born, stalled, owner, parent, running, sick, leaving, service, detailChanges,
    detailAt, detailTodo, detail, truth, steady, missing>>
overviewVars ==
  <<status, retained, overviewChanges, overviewAt, overviewTodo, items, warnings, listed, reads>>
topologyVars == <<exists, topologyChanges, topologyAt, seen, failed, throughout, together>>
allVars == <<detailVars, overviewVars, topologyVars>>

Workload == INSTANCE WorkloadDetail WITH
  MaxChanges <- MaxDetailChanges, changes <- detailChanges, at <- detailAt, todo <- detailTodo

Overview == INSTANCE IncidentOverview WITH
  MaxChanges <- MaxOverviewChanges, changes <- overviewChanges, at <- overviewAt,
  todo <- overviewTodo

Cluster == INSTANCE ClusterTopology WITH
  MaxChanges <- MaxTopologyChanges, changes <- topologyChanges, at <- topologyAt

ASSUME InstanceBounds ==
  /\ Workload!DetailBounds /\ Workload!DetailNames
  /\ Overview!OverviewBounds /\ Cluster!TopologyBounds

-----------------------------------------------------------------------------
AllInit == Workload!Init /\ Overview!Init /\ Cluster!Init

DetailActs == Workload!Next /\ UNCHANGED <<overviewVars, topologyVars>>

OverviewActs == Overview!Next /\ UNCHANGED <<detailVars, topologyVars>>

TopologyActs == Cluster!Next /\ UNCHANGED <<detailVars, overviewVars>>

AllNext == DetailActs \/ OverviewActs \/ TopologyActs

AllSpec == AllInit /\ [][AllNext]_allVars

-----------------------------------------------------------------------------
(* The properties of the instances.                                         *)

\* Answers within their limits; a list that failed has nothing in it.
Types == Workload!TypeOK /\ Overview!TypeOK /\ Cluster!TypeOK

\* The evidence in a detail is of objects that belonged to the Deployment shown, though
\* it may be replaced, and ReplicaSets change hands, between any two reads; and no object
\* is in the topology that was not there at some moment of the request, nor a binding
\* with the rules of another role.
EvidenceIsReal == Workload!EvidenceBelongs /\ Cluster!NothingIsInvented

\* What was there during the whole request is in the detail, or it is told that it could
\* not be read (of the endpoints, unless the Service could not be read, which the code
\* does not tell); an overview has every Deployment that was listed as not healthy, up to
\* the limit, or is no answer; and what was there all the time is in the topology, or a
\* warning about its section is.
WhatStaysIsShown ==
  /\ Workload!NothingIsLeftOut /\ Overview!NobodyIsMissing
  /\ Cluster!NothingIsSilentlyMissing
=============================================================================
