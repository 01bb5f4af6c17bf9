---------------------------- MODULE RollbackHistory ----------------------------
(***************************************************************************)
(* Which template a rollback restores (previousTemplate in recovery.go,    *)
(* called by PlanOperation in operations.go), with the fields it changes   *)
(* (TemplateDiff) listed in its plan.                                      *)
(*                                                                         *)
(* A Deployment's history is kept by the Deployment controller: every      *)
(* template that was rolled out is in a ReplicaSet with a number, the      *)
(* revision, and an annotation of the Deployment has the number of the     *)
(* current one.  The controller writes both after the spec has changed,    *)
(* first the ReplicaSet, then the annotation.  The code relates the two    *)
(* to a spec that may be ahead of them.                                    *)
(*                                                                         *)
(* Consumption and expiry of the plan are in GuardedOperations.            *)
(***************************************************************************)
EXTENDS TemplateDiff, FiniteSets

CONSTANTS
  Template,      \* pod templates, as JSON
  None,          \* nothing read or planned
  HistoryLimit,  \* spec.revisionHistoryLimit: old ReplicaSets that are kept
  MaxRevision,   \* bound on revisions
  MaxRv          \* bound on the writes of the Deployment

HistoryBounds ==
  {HistoryLimit, MaxRevision, MaxRv} \subseteq Nat \ {0} /\ MaxRevision >= 2

VARIABLES
  deployment,  \* its template, rv, paused, revision (the annotation) and observed
  sets,        \* the ReplicaSets: template, revision, and whether they are owned
  order,       \* history: the templates that were rolled out, the last one last
  at,          \* what the operation does next
  read,        \* the Deployment as the operation read it
  plan         \* what is restored: template and revision; and the changes it lists

operation == <<at, read, plan>>
vars == <<deployment, sets, order, operation>>

-----------------------------------------------------------------------------
Numbered == [template : Template, revision : 1..MaxRevision, owned : BOOLEAN]

Of(t) == {rs \in sets : rs.owned /\ rs.template = t}

Revisions == {0} \union {rs.revision : rs \in {s \in sets : s.owned}}

Highest(n) == n \in Revisions /\ \A m \in Revisions : m <= n

\* A new Deployment; ReplicaSets of a former one of its name may still be there.
Init ==
  /\ \E t \in Template :
       deployment = [template |-> t, rv |-> 1, paused |-> FALSE, revision |-> 0, observed |-> FALSE]
  /\ \E t \in Template, n \in 1..2 : sets = {[template |-> t, revision |-> n, owned |-> FALSE]}
  /\ order = <<>>
  /\ at = "get" /\ read = None /\ plan = None

-----------------------------------------------------------------------------
(* The cluster: users, and the Deployment controller.                       *)

Write(d) ==
  /\ deployment.rv < MaxRv
  /\ deployment' = [d EXCEPT !.rv = deployment.rv + 1]

Edit ==
  /\ \E t \in Template \ {deployment.template} :
       Write([deployment EXCEPT !.template = t, !.observed = FALSE])
  /\ UNCHANGED <<sets, order, operation>>

Pause ==
  /\ Write([deployment EXCEPT !.paused = ~deployment.paused, !.observed = FALSE])
  /\ UNCHANGED <<sets, order, operation>>

\* getNewReplicaSet: the ReplicaSet of the template is created, or gets the next
\* revision if an old one has the template.
NumberSet ==
  LET t == deployment.template
  IN  /\ ~deployment.paused
      /\ \E n \in 1..MaxRevision :
           /\ Highest(n - 1) /\ \A rs \in Of(t) : rs.revision < n - 1
           /\ sets' = (sets \ Of(t)) \union {[template |-> t, revision |-> n, owned |-> TRUE]}
      /\ order' = Append(order, t)
      /\ UNCHANGED <<deployment, operation>>

\* Then its revision is the Deployment's.
Annotated(d) == \E rs \in Of(d.template) : Highest(rs.revision) /\ rs.revision = d.revision

Annotate ==
  /\ \E rs \in Of(deployment.template) :
       /\ Highest(rs.revision) /\ rs.revision # deployment.revision
       /\ Write([deployment EXCEPT !.revision = rs.revision])
  /\ UNCHANGED <<sets, order, operation>>

\* Then the status has the generation.  A paused Deployment is not rolled out, but
\* its status is kept.
Observe ==
  /\ ~deployment.observed /\ (deployment.paused \/ Annotated(deployment))
  /\ Write([deployment EXCEPT !.observed = TRUE])
  /\ UNCHANGED <<sets, order, operation>>

\* cleanupDeployment: the oldest one goes, when there are too many.
Old == {rs \in sets : rs.owned /\ rs.template # deployment.template}

Prune ==
  /\ Cardinality(Old) > HistoryLimit
  /\ \E rs \in Old :
       /\ \A other \in Old : rs.revision <= other.revision
       /\ sets' = sets \ {rs}
  /\ UNCHANGED <<deployment, order, operation>>

-----------------------------------------------------------------------------
(* The operation.                                                           *)

Continue(next) == at' = next /\ UNCHANGED <<deployment, sets, order>>

\* The Deployment is read; a paused one, and one without an earlier revision, is
\* refused, which leaves nothing behind.
Get ==
  /\ at = "get" /\ ~deployment.paused /\ deployment.revision >= 2
  /\ Continue("list") /\ read' = deployment /\ UNCHANGED plan

\* The ReplicaSets of a former Deployment count.
MutOwned == {rs \in sets : rs.revision < read.revision}

\* previousTemplate: the owned ReplicaSets with a revision below the current one.
Candidates == {rs \in sets : rs.owned /\ rs.revision < read.revision}

List ==
  /\ at = "list" /\ Continue("dryrun")
  /\ \E best \in Candidates :
       /\ \A rs \in Candidates : rs.revision <= best.revision
       /\ plan' = [template |-> best.template, revision |-> best.revision,
                   changes |-> templateChanges(read.template, best.template)]
  /\ UNCHANGED read

\* The patch tests the resourceVersion that was read; the dry run does no more.
Tested == deployment.rv = read.rv

DryRun ==
  /\ at = "dryrun" /\ Tested /\ Continue("planned") /\ UNCHANGED <<read, plan>>

\* After the review.
Execute ==
  /\ at = "planned" /\ Tested /\ at' = "done"
  /\ Write([deployment EXCEPT !.template = plan.template,
                              !.observed = deployment.observed /\ plan.template = deployment.template])
  /\ UNCHANGED <<sets, order, read, plan>>

\* No candidates, a failed call, a plan that is not executed or one that was: somebody
\* plans the next rollback.
Again ==
  /\ at # "get" /\ Continue("get") /\ read' = None /\ plan' = None

Next ==
  \/ Edit \/ Pause \/ NumberSet \/ Annotate \/ Observe \/ Prune
  \/ Get \/ List \/ DryRun \/ Execute \/ Again

Spec == Init /\ [][Next]_vars
-----------------------------------------------------------------------------
(* Properties.                                                              *)

TypeOK ==
  /\ deployment \in [template : Template, rv : 1..MaxRv, paused : BOOLEAN,
                     revision : 0..MaxRevision, observed : BOOLEAN]
  /\ sets \subseteq Numbered /\ \A t \in Template : Cardinality(Of(t)) <= 1
  /\ order \in Seq(Template)
  /\ at \in {"get", "list", "dryrun", "planned", "done"}
  /\ at # "get" => read.rv <= deployment.rv
  /\ at \in {"dryrun", "planned", "done"} => plan.revision \in 1..(read.revision - 1)

\* What was rolled out before the current template, as far as the history goes.
Previous(t) ==
  /\ t # deployment.template /\ Of(t) # {}
  /\ \E i \in DOMAIN order :
       /\ order[i] = t
       /\ \A j \in DOMAIN order :
            j > i => order[j] = deployment.template \/ Of(order[j]) = {}

\* recovery.go:25-41 with the resourceVersion of operations.go:240: a rollback that
\* takes effect on a Deployment whose controller has seen its spec restores what was
\* rolled out before the template it replaces, whatever was edited, renumbered or
\* pruned since it was planned.
RestoresPrevious ==
  [][Execute /\ deployment.observed => Previous(plan.template)]_vars

\* docs/incident-response.md:68: "Rollback selects the highest owned ReplicaSet
\* revision below the current one."  The current ReplicaSet is that of the template
\* that is replaced.
SelectsBelowCurrent ==
  [][Execute => \A current \in Of(deployment.template), rs \in sets :
                  rs.owned /\ rs.revision < current.revision => rs.revision <= plan.revision]_vars
=============================================================================
