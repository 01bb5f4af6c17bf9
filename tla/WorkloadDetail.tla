---------------------------- MODULE WorkloadDetail ----------------------------
(***************************************************************************)
(* The evidence shown about one Deployment (WorkloadDetail and Enrich in   *)
(* api/internal/kubernetes: experience.go, diagnosis.go, enrichment.go).   *)
(*                                                                         *)
(* An answer is put together from many reads of a cluster that goes on     *)
(* changing: the Deployment may be deleted and created again under its     *)
(* name while the ReplicaSets and pods of the former one are still there,  *)
(* and any read may fail.  Events are kept for an hour, so those about     *)
(* every earlier object are always listed.                                 *)
(***************************************************************************)
EXTENDS Naturals, FiniteSets

CONSTANTS
  ReplicaSet,    \* UIDs of ReplicaSets
  Pod,           \* pods, by name; a name is not used again
  None,          \* no object, no owner
  MaxBorn,       \* bound on the Deployments created under the name
  MaxChanges,    \* bound on the changes of the cluster during the request
  MaxLogs        \* log excerpts in an answer (3)

DetailBounds == MaxBorn \in Nat \ {0} /\ MaxChanges \in Nat /\ MaxLogs \in Nat

DetailNames ==
  None \notin ReplicaSet \union Pod /\ ReplicaSet \intersect Pod = {}

VARIABLES
  live,      \* UID of the Deployment of that name, 0 when there is none
  born,      \* how many there were
  stalled,   \* its Progressing condition is False
  owner,     \* [ReplicaSet -> UID of its controlling Deployment, or 0]
  parent,    \* [Pod -> its controlling ReplicaSet], None for a stray pod
  running,   \* pods that exist and carry the labels the Deployment selects
  sick,      \* pods with a container that waits or was killed
  leaving,   \* pods with a deletionTimestamp
  changes,   \* how often the cluster changed
  service,   \* a Service that may select the Deployment's template
  at,        \* the call the request makes next, "done" or "failed"
  todo,      \* pods whose logs are still to be fetched
  detail,    \* the answer so far
  truth,     \* history: <<Deployment, ReplicaSet>> that held since the start
  steady,    \* history: what was so during the whole request
  missing    \* history: sources that could not be read

cluster == <<live, born, stalled, owner, parent, running, sick, leaving, service>>
request == <<at, todo, detail, missing>>
vars == <<cluster, changes, request, truth, steady>>

-----------------------------------------------------------------------------
Holds(own) == {<<own[s], s>> : s \in {s \in ReplicaSet : own[s] # 0}}

\* Which ReplicaSet belongs to which Deployment, the pods, those that need attention,
\* and the Service of the Deployment, if it has one without ready endpoints.
Now ==
  [sets |-> Holds(owner), pods |-> running, failing |-> (running \intersect sick) \ leaving,
   starved |-> IF service.exists /\ service.selects /\ service.ready = 0
               THEN {"service"} ELSE {}]

Empty ==
  [uid |-> 0, owners |-> {}, pods |-> {}, services |-> {}, policies |-> {},
   events |-> {}, receipts |-> {}, logs |-> {}, metrics |-> {},
   diagnoses |-> {}, warnings |-> {}]

Init ==
  /\ live = 1 /\ born = 1 /\ stalled \in BOOLEAN
  /\ owner \in [ReplicaSet -> {0, 1}]
  /\ parent \in [Pod -> ReplicaSet \union {None}]
  /\ running \in SUBSET Pod /\ sick \in {{}, running} /\ leaving = {}
  /\ service \in [exists : BOOLEAN, selects : BOOLEAN, ready : 0..1]
  /\ service.ready > 0 => service.exists
  /\ at = "list" /\ todo = {} /\ detail = Empty
  /\ truth = {<<1, s>> : s \in {s \in ReplicaSet : owner[s] = 1}}
  /\ steady = Now /\ missing = {} /\ changes = 0

-----------------------------------------------------------------------------
(* The cluster.                                                             *)

Delete ==
  /\ live # 0 /\ live' = 0
  /\ UNCHANGED <<born, stalled, owner, parent, running, sick, leaving, service>>

Create ==
  /\ live = 0 /\ born < MaxBorn
  /\ born' = born + 1 /\ live' = born' /\ stalled' = FALSE
  /\ UNCHANGED <<owner, parent, running, sick, leaving, service>>

\* A ReplicaSet is created for the Deployment, adopted by it after an orphaning
\* deletion, or collected.
Own(s) ==
  /\ \E u \in {0, live} : u # owner[s] /\ owner' = [owner EXCEPT ![s] = u]
  /\ UNCHANGED <<live, born, stalled, parent, running, sick, leaving, service>>

PodChanges(q) ==
  /\ \/ q \notin running \union leaving /\ running' = running \union {q}
          /\ UNCHANGED <<leaving, sick>>
     \/ q \in running \ leaving /\ leaving' = leaving \union {q}
          /\ UNCHANGED <<running, sick>>
     \/ q \in running \intersect leaving /\ running' = running \ {q}
          /\ UNCHANGED <<leaving, sick>>
     \/ q \in running \ sick /\ sick' = sick \union {q}
          /\ UNCHANGED <<running, leaving>>
  /\ UNCHANGED <<live, born, stalled, owner, parent, service>>

ServiceChanges ==
  /\ \E e \in BOOLEAN, n \in 0..1 :
       service' = [service EXCEPT !.exists = e, !.ready = IF e THEN n ELSE 0]
  /\ service' # service
  /\ UNCHANGED <<live, born, stalled, owner, parent, running, sick, leaving>>

ClusterChanges ==
  /\ at \notin {"done", "failed"}
  /\ changes < MaxChanges /\ changes' = changes + 1
  /\ \/ Delete \/ Create \/ ServiceChanges
     \/ \E s \in ReplicaSet : Own(s)
     \/ \E q \in Pod : PodChanges(q)
  /\ truth' = truth \union Holds(owner')
  /\ steady' = [f \in DOMAIN Now |-> steady[f] \intersect Now'[f]]
  /\ UNCHANGED request

-----------------------------------------------------------------------------
(* The request: one action per read, in their order.                        *)

Goto(next) == at' = next

\* A read without which there is no answer.
Fails ==
  /\ at' = "failed" /\ detail' = Empty /\ missing' = {} /\ todo' = {}

\* A read that can be left out, with a warning about it or without.
Skip(source, warned) ==
  /\ missing' = missing \union {source}
  /\ detail' = [detail EXCEPT
       !.warnings = IF warned THEN @ \union {source} ELSE @]

\* The inventory of all workloads must list the Deployment.
List ==
  /\ at = "list"
  /\ (live # 0 /\ Goto("get") /\ UNCHANGED <<todo, detail, missing>>) \/ Fails
  /\ UNCHANGED <<cluster, changes, truth, steady>>

Get ==
  /\ at = "get"
  /\ \/ /\ live # 0
        /\ detail' = [detail EXCEPT !.uid = live,
             !.diagnoses = IF stalled THEN {<<"RolloutStalled", live>>} ELSE {}]
        /\ Goto("sets") /\ UNCHANGED <<todo, missing>>
     \/ Fails
  /\ UNCHANGED <<cluster, changes, truth, steady>>

Owned(s) == owner[s] = detail.uid

ListSets ==
  /\ at = "sets"
  /\ \/ /\ detail' = [detail EXCEPT !.owners = {s \in ReplicaSet : Owned(s)}]
        /\ Goto("pods") /\ UNCHANGED <<todo, missing>>
     \/ Fails
  /\ UNCHANGED <<cluster, changes, truth, steady>>

\* Only pods of those ReplicaSets, and symptoms of those that stay.
ListPods ==
  /\ at = "pods"
  /\ \/ LET own == {q \in running : parent[q] \in detail.owners}
        IN  /\ detail' = [detail EXCEPT !.pods = own,
                 !.diagnoses = @ \union
                   {<<"PodFailure", q>> : q \in (own \intersect sick) \ leaving}]
            /\ todo' = own \intersect sick
            /\ Goto("network") /\ UNCHANGED missing
     \/ Fails
  /\ UNCHANGED <<cluster, changes, truth, steady>>

\* The services of the namespace; without them there are no policies either.
ListNetwork ==
  /\ at = "network"
  /\ \/ Goto(IF service.exists THEN "service" ELSE "policies")
          /\ UNCHANGED <<detail, missing>>
     \/ Goto("events") /\ Skip("network", TRUE)
  /\ UNCHANGED <<todo, cluster, changes, truth, steady>>

\* Each service is read again for its selector.
GetService ==
  /\ at = "service"
  /\ \/ /\ service.exists
        /\ Goto(IF service.selects THEN "endpoints" ELSE "policies")
        /\ UNCHANGED <<detail, missing>>
     \/ ~service.exists /\ Goto("policies") /\ UNCHANGED <<detail, missing>>
     \/ service.exists /\ Goto("policies") /\ Skip("service", FALSE)
  /\ UNCHANGED <<todo, cluster, changes, truth, steady>>

MutListEndpoints ==
  /\ at = "endpoints"
  /\ Goto("policies")
  /\ \/ detail' = [detail EXCEPT !.services = {"service"}, !.diagnoses =
          IF service.ready = 0 THEN @ \union {<<"NoReadyEndpoints", None>>}
                               ELSE @]
          /\ UNCHANGED missing
     \/ missing' = missing \union {"endpoints"}
          /\ detail' = [detail EXCEPT !.services = {"service"},
               !.diagnoses = @ \union {<<"NoReadyEndpoints", None>>}]
  /\ UNCHANGED <<todo, cluster, changes, truth, steady>>

ListEndpoints ==
  /\ at = "endpoints"
  /\ Goto("policies")
  /\ \/ detail' = [detail EXCEPT !.services = {"service"}, !.diagnoses =
          IF service.ready = 0 THEN @ \union {<<"NoReadyEndpoints", None>>}
                               ELSE @]
          /\ UNCHANGED missing
     \/ missing' = missing \union {"endpoints"}
          /\ detail' = [detail EXCEPT !.services = {"service"},
               !.warnings = @ \union {"endpoints"}]
  /\ UNCHANGED <<todo, cluster, changes, truth, steady>>

ListPolicies ==
  /\ at = "policies"
  /\ Goto("events")
  /\ \/ detail' = [detail EXCEPT !.policies = {"policy"}] /\ UNCHANGED missing
     \/ Skip("policies", FALSE)
  /\ UNCHANGED <<todo, cluster, changes, truth, steady>>

\* Events about a Deployment, a ReplicaSet or a pod; one about a pod may be
\* about an earlier one of that name, or not say which.
Event ==
  [kind : {"Deployment"}, uid : 1..MaxBorn]
    \union [kind : {"ReplicaSet"}, set : ReplicaSet]
    \union [kind : {"Pod"}, pod : Pod, uid : {"same", "earlier", "none"}]

MutMatches(e) ==
  \/ e.kind = "Deployment"
  \/ e.kind = "ReplicaSet" /\ e.set \in detail.owners
  \/ e.kind = "Pod" /\ e.pod \in detail.pods /\ e.uid # "earlier"

Matches(e) ==
  \/ e.kind = "Deployment" /\ e.uid = detail.uid
  \/ e.kind = "ReplicaSet" /\ e.set \in detail.owners
  \/ e.kind = "Pod" /\ e.pod \in detail.pods /\ e.uid # "earlier"

\* Probe failures among the events are diagnosed, those of former pods too.
ListEvents ==
  /\ at = "events"
  /\ Goto("receipts")
  /\ \/ LET shown == {e \in Event : Matches(e)}
        IN  detail' = [detail EXCEPT !.events = shown, !.diagnoses = @ \union
              {<<"ProbeFailed", e.pod>> : e \in {e \in shown : e.kind = "Pod"}}]
          /\ UNCHANGED missing
     \/ Skip("events", TRUE)
  /\ UNCHANGED <<todo, cluster, changes, truth, steady>>

ListReceipts ==
  /\ at = "receipts"
  /\ Goto("logs")
  /\ \/ detail' = [detail EXCEPT !.receipts = {"receipt"}] /\ UNCHANGED missing
     \/ Skip("receipts", FALSE)
  /\ UNCHANGED <<todo, cluster, changes, truth, steady>>

\* Enrich: logs of the pods that were not well, each read again by name.
FetchLogs ==
  /\ at = "logs"
  /\ \E q \in todo :
       /\ Cardinality(detail.logs) < MaxLogs
       /\ todo' = todo \ {q}
       /\ \/ q \in running /\ detail' = [detail EXCEPT !.logs = @ \union {q}]
               /\ UNCHANGED missing
          \/ Skip("logs", TRUE)
  /\ UNCHANGED <<at, cluster, changes, truth, steady>>

QueryMetrics ==
  /\ at = "logs"
  /\ todo = {} \/ Cardinality(detail.logs) >= MaxLogs
  /\ Goto("done") /\ todo' = {}
  /\ \/ detail' = [detail EXCEPT !.metrics = {"metric"}] /\ UNCHANGED missing
     \/ Skip("metrics", TRUE)
  /\ UNCHANGED <<cluster, changes, truth, steady>>

Read ==
  \/ List \/ Get \/ ListSets \/ ListPods
  \/ ListNetwork \/ GetService \/ ListEndpoints \/ ListPolicies
  \/ ListEvents \/ ListReceipts \/ FetchLogs \/ QueryMetrics

Next == ClusterChanges \/ Read

Spec == Init /\ [][Next]_vars

-----------------------------------------------------------------------------
(* Properties.                                                              *)

Source ==
  {"network", "service", "endpoints", "policies", "events", "receipts",
   "logs", "metrics"}

\* An answer is about one Deployment, or there is none; "at most three
\* excerpts" of logs (docs/incident-response.md).
TypeOK ==
  /\ changes \in Nat /\ born \in 1..MaxBorn /\ live \in {0, born}
  /\ owner \in [ReplicaSet -> 0..MaxBorn]
  /\ parent \in [Pod -> ReplicaSet \union {None}]
  /\ running \subseteq Pod /\ sick \subseteq Pod /\ leaving \subseteq Pod
  /\ detail.uid \in 0..MaxBorn
  /\ detail.owners \subseteq ReplicaSet /\ detail.pods \subseteq Pod
  /\ detail.events \subseteq Event
  /\ todo \subseteq detail.pods
  /\ Cardinality(detail.logs) <= MaxLogs
  /\ missing \subseteq Source /\ detail.warnings \subseteq missing
  /\ at \in {"list", "get", "sets"} => detail.pods = {}
  /\ at = "failed" => detail = Empty

\* "Workload evidence follows Deployment, owned ReplicaSets, owned pods"
\* (docs/incident-response.md).  Although the Deployment may be replaced, and
\* ReplicaSets may change hands, between any two reads: every ReplicaSet, pod,
\* event, log and pod diagnosis shown is of objects that belonged, at some
\* moment of the request, to the very Deployment whose UID is shown.
EvidenceBelongs ==
  LET Belongs(s) == <<detail.uid, s>> \in truth
  IN  /\ \A s \in detail.owners : Belongs(s)
      /\ \A q \in detail.pods \union detail.logs : Belongs(parent[q])
      /\ \A e \in detail.events :
           CASE e.kind = "Deployment" -> e.uid = detail.uid
             [] e.kind = "ReplicaSet" -> Belongs(e.set)
             [] e.kind = "Pod" -> Belongs(parent[e.pod])
                                    /\ e.uid # "earlier"
      /\ \A d \in detail.diagnoses :
           d[1] \in {"PodFailure", "ProbeFailed"} => Belongs(parent[d[2]])

\* Reads whose failure the code drops: the Service again for its selector, the policies
\* and the receipts (experience.go:223, 243 and 293).
Dropped == {"service", "policies", "receipts"}

\* The ReplicaSets and pods of the Deployment shown that were there, and its own, from
\* the first read to the last.
KeptSets == {s \in ReplicaSet : <<detail.uid, s>> \in steady.sets}
KeptPods == {q \in steady.pods : parent[q] \in KeptSets}

SaysOfPods(code, pods) == {<<code, q>> : q \in pods} \subseteq detail.diagnoses

\* Something is said of the endpoints, or that they are not known; unless the Service
\* could not be read, which is not told.
EndpointsAreTold ==
  \/ <<"NoReadyEndpoints", None>> \in detail.diagnoses
  \/ {"network", "endpoints"} \intersect detail.warnings # {}
  \/ "service" \in missing

\* What was there during the whole request is in the answer, whatever else changed and
\* whichever reads failed: the ReplicaSets and pods of the Deployment shown, the symptoms
\* of those that were failing and their retained probe failures, unless the events are
\* reported as missing, and that a Service has no ready endpoints, unless the endpoints
\* are.  Sources that could not be read are reported but for the three Dropped; and
\* endpoints that were not read are not "no ready endpoints".
NothingIsLeftOut ==
  /\ at = "done" =>
       /\ KeptSets \subseteq detail.owners /\ KeptPods \subseteq detail.pods
       /\ SaysOfPods("PodFailure", KeptPods \intersect steady.failing)
       /\ "events" \notin detail.warnings => SaysOfPods("ProbeFailed", KeptPods)
       /\ steady.starved # {} => EndpointsAreTold
  /\ missing \ Dropped \subseteq detail.warnings
  /\ "endpoints" \in missing => \A d \in detail.diagnoses : d[1] # "NoReadyEndpoints"

\* "Missing sources are reported" (docs/incident-response.md:110-111), all of them.  The
\* code drops the errors of three reads and shows what they would have shown as empty.
MissingSourcesReported == at = "done" => missing \subseteq detail.warnings
=============================================================================
