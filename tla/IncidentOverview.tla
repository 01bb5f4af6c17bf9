--------------------------- MODULE IncidentOverview ---------------------------
(***************************************************************************)
(* The incident overview (Incidents in experience.go, with Workloads and   *)
(* Events of dashboard.go): the Deployments that are not healthy, each     *)
(* with its evidence, or the retained warning events when there are none.  *)
(*                                                                         *)
(* It is put together from up to 27 reads of a cluster that goes on        *)
(* changing, within the 8 seconds of serveInventory; one read that fails   *)
(* makes the whole answer fail.                                            *)
(***************************************************************************)
EXTENDS Naturals, FiniteSets, Sequences, SequencesExt

CONSTANTS
  Deployment,   \* names, numbers in the order in which they are sorted
  MaxItems,     \* Deployments in an overview (20)
  MaxEvents,    \* events that are looked at, the newest (100)
  MaxRetained,  \* bound on the events the cluster retains
  MaxChanges    \* bound on the changes of the cluster during the request

OverviewBounds ==
  /\ Deployment \subseteq Nat /\ IsFiniteSet(Deployment)
  /\ {MaxItems, MaxEvents, MaxRetained, MaxChanges} \subseteq Nat

VARIABLES
  status,    \* [Deployment -> its status, "Absent" when it does not exist]
  retained,  \* the types of the retained events, newest first
  changes,   \* how often the cluster changed
  at,        \* the read the request makes next, "answered" or "failed"
  todo,      \* listed Deployments that are still to be looked at, by name
  items,     \* the Deployments in the answer, which are before those
  warnings,  \* the events in the answer, by their position
  listed,    \* history: status as it was listed
  reads      \* history: how many details were read

cluster == <<status, retained>>
answer == <<items, warnings>>
vars == <<cluster, changes, at, todo, answer, listed, reads>>

-----------------------------------------------------------------------------
\* workloadFromDeployment: of what is not healthy, what is merely scaled to zero
\* or paused has a status of its own.
Degraded == {"Progressing", "Stalled"}

Status == {"Absent", "Healthy", "Paused", "Scaled down"} \union Degraded

Type == {"Warning", "Normal"}

Init ==
  /\ status \in [Deployment -> {"Absent", "Healthy", "Scaled down", "Stalled"}]
  /\ retained \in BoundedSeq(Type, MaxRetained)
  /\ changes = 0 /\ at = "deployments" /\ todo = {}
  /\ items = {} /\ warnings = {}
  /\ listed = status /\ reads = 0

-----------------------------------------------------------------------------
(* The cluster.                                                             *)

StatusChanges(d, s) ==
  /\ s # status[d] /\ status' = [status EXCEPT ![d] = s]
  /\ UNCHANGED retained

EventHappens(type) ==
  /\ Len(retained) < MaxRetained /\ retained' = <<type>> \o retained
  /\ UNCHANGED status

ClusterChanges ==
  /\ at \notin {"answered", "failed"}
  /\ changes < MaxChanges /\ changes' = changes + 1
  /\ \/ \E d \in Deployment, s \in {"Absent", "Healthy", "Progressing"} : StatusChanges(d, s)
     \/ \E type \in Type : EventHappens(type)
  /\ UNCHANGED <<at, todo, answer, listed, reads>>

-----------------------------------------------------------------------------
(* The request.                                                             *)

Continue(next) == at' = next /\ UNCHANGED <<cluster, changes>>

\* Whatever is read, the read may fail, and with it the request.
Fail ==
  /\ at \notin {"answered", "failed"} /\ Continue("failed")
  /\ UNCHANGED <<todo, answer, listed, reads>>

\* Workloads, the first of its five lists.  What is not healthy is looked at, in
\* the order of the names.
Suspect(d) == status[d] \notin {"Absent", "Healthy"}

ListDeployments ==
  /\ at = "deployments" /\ Continue("others")
  /\ todo' = {d \in Deployment : Suspect(d)}
  /\ listed' = status
  /\ UNCHANGED <<answer, reads>>

\* The lists of the other kinds, none of whose workloads are incidents.
ListOthers ==
  /\ at = "others" /\ Continue("details")
  /\ UNCHANGED <<todo, answer, listed, reads>>

\* WorkloadDetail of the next Deployment: it fails when that is gone.
Detail ==
  /\ at = "details" /\ Cardinality(items) < MaxItems
  /\ \E d \in todo :
       /\ \A other \in todo : d <= other
       /\ todo' = todo \ {d} /\ reads' = reads + 1
       /\ IF status[d] = "Absent"
            THEN Continue("failed") /\ UNCHANGED items
            ELSE Continue("details") /\ items' = items \union {d}
  /\ UNCHANGED <<warnings, listed>>

\* The loop is over.
Detailed ==
  /\ at = "details" /\ (todo = {} \/ Cardinality(items) >= MaxItems)
  /\ Continue(IF items = {} THEN "events" ELSE "answered")
  /\ UNCHANGED <<todo, answer, listed, reads>>

\* Events: the newest, of which those are shown that are warnings.
Newest == SubSeq(retained, 1, IF Len(retained) < MaxEvents THEN Len(retained) ELSE MaxEvents)

ListEvents ==
  /\ at = "events" /\ Continue("answered")
  /\ warnings' = {i \in DOMAIN Newest : Newest[i] = "Warning"}
  /\ UNCHANGED <<todo, items, listed, reads>>

Next ==
  \/ ClusterChanges \/ Fail
  \/ ListDeployments \/ ListOthers \/ Detail \/ Detailed \/ ListEvents

Spec == Init /\ [][Next]_vars
-----------------------------------------------------------------------------
(* Properties.                                                              *)

TypeOK ==
  /\ status \in [Deployment -> Status] /\ listed \in [Deployment -> Status]
  /\ retained \in Seq(Type) /\ Len(retained) <= MaxRetained
  /\ changes \in 0..MaxChanges
  /\ at \in {"deployments", "others", "details", "events", "answered", "failed"}
  /\ todo \subseteq Deployment /\ items \subseteq Deployment
  /\ warnings \subseteq 1..MaxEvents
  /\ Cardinality(items) <= MaxItems /\ reads \in 0..MaxItems

\* What the list of Deployments suspects: of a set of them, the first ones.
Suspects == {d \in Deployment : listed[d] \notin {"Absent", "Healthy"}}

First(n, ds) == {d \in ds : Cardinality({other \in ds : other < d}) < n}

\* experience.go:325-350, as the console's page describes it (main.tsx:184): an
\* answer has every Deployment that was not healthy when it was listed, up to the
\* limit, and has events instead only if there was none, whatever has changed
\* since.  One that is gone makes the answer fail; it is never a hole in it.
NobodyIsMissing == at = "answered" => items = First(MaxItems, Suspects)

\* docs/incident-response.md:140-141: "At most 20 degraded Deployments are included
\* in the incident overview".
OnlyDegradedAreShown ==
  \A d \in items : listed[d] \in Degraded

\* main.tsx:184: "retained warnings when none are degraded".  Without a Deployment
\* to show, an overview is empty only if no warning is retained.
WarningsAreShown ==
  at = "answered" /\ items = {} /\ warnings = {} =>
    \A i \in DOMAIN retained : retained[i] # "Warning"
=============================================================================
