# KubeVista: specifications, model checking and proofs

KubeVista is a Kubernetes dashboard with *guarded operations*: a user reviews a
plan for one Deployment (scale, restart, rollback), approves it, and the API
applies exactly that change, once, and follows the rollout. Around this it shows
the cluster: inventory, the evidence about one workload, an incident overview, a
topology, a stream of changes. This directory specifies that system in TLA+,
checks it with TLC on small instances and proves its main safety properties with
TLAPS. Everything is translated from the source under `src/`; `PROJECT.json` maps
each definition to its lines.

    tlc -workers 2 -config DurableEffects.cfg MCDurableParts.tla
    tlc -workers 2 -config Guarded.cfg MCGuardedOperations.tla
    tlapm DurableOperationsProofs.tla

## 1. Inventory

| Component | Source | State it keeps | Operations | Status |
|---|---|---|---|---|
| Durable operations | `api/internal/kubernetes/durable_operations.go` | one ConfigMap per operation: plan, intent, state, actor, claim | plan, approve, expire, claim, apply, verify | modelled, proved |
| Target Deployment | read and written by the above; `recovery.go` | Kubernetes object | patch with tests, edits of others, rollout status | modelled (external) |
| Operation controller | `operation_controller.go` | work queue, informer caches, lease | elect, enqueue, reconcile with a deadline, retry | modelled, safety proved |
| In-memory guarded operations | `operations.go` | plan store (100 entries, 5 min), audit list (50) | plan, execute, list | modelled, proved |
| Rollback and recovery | `recovery.go` | none | previous template, template diff, recovery verdict | partly, the choice proved |
| HTTP API | `api/internal/httpapi/router.go` | none | handlers, error mapping, event stream | partly |
| Update stream | `experience.go`, `demo.go`, `router.go` | channel and goroutine per client | watch, send, cancel | modelled, safety proved |
| Investigation | `httpapi/investigation.go` | one busy slot | collect evidence, enrich, ask, release | modelled, safety proved |
| Workload detail and diagnosis | `experience.go`, `diagnosis.go`, `enrichment.go` | none | read a dozen sources, classify | partly, proved |
| Incident overview | `experience.go`, `dashboard.go` | none | list, read details, fall back to events | modelled, proved |
| Topology | `topology.go` | none | join nine lists | modelled, proved |
| Inventory, dashboard, station, delivery | `inventory.go`, `dashboard.go`, … | none | project the cluster | not modelled |
| Load balancer identity | `httpapi/identity.go` | cache of public keys | verify a header | not modelled |
| Configuration, telemetry, start-up | `config.go`, `telemetry.go`, `cmd/server` | none | parse, wire | not modelled |
| Demo provider | `demo.go` | none | sample data, an update channel | partly |
| Command line client | `cmd/kubevista` | plan file | diagnose, plan, execute, verify | partly |
| Temporary scale runbook | `scripts/temporary-scale.sh` | predicted generation | scale, wait, restore | modelled, proved |
| Release lab | `scripts/release-lab/release.py` | observed route | promote, measure, roll back | modelled, proved |
| Promotion, cordon, incident labs | `scripts/…` | files | one-shot edits | not modelled |
| Web console | `web/src/main.tsx` | view cache, selected item, plan | poll, stream, open, review, execute | partly, safety proved |
| Platform | Terraform, Helm, Argo CD | — | declarative | not modelled |

**How they interact.** The HTTP API calls `PlanOperation` and
`ExecuteOperation`. With the durable store configured, planning creates a
record in a ConfigMap and execution only *approves* it. The controller runs in
every API process; an elected replica (or every replica, in active-active mode)
turns informer events into queue items and calls `ReconcileOperation`, which
claims the record, patches the Deployment and writes receipts. Processes share
nothing but the API server: the record (compare-and-swap on its
resourceVersion), and the Deployment (a JSON patch that tests UID and
resourceVersion). Without the store, plans and audit live in one process and the
request itself changes the Deployment. The runbook and the console are clients of
the same two requests; the release lab talks to the API server. The read-only
handlers share nothing with each other: each puts its answer together from reads
of a cluster that goes on changing.

**What is hard.** A reconcile is up to ten API calls; between any two of them
another worker, an approver, the Deployment controller, a GitOps tool or an
autoscaler may write. A reconcile is cut off after 8 s, and a request that was
given up may still arrive. Claims expire by local clocks. No transaction spans
the record and the Deployment. An answer that joins several lists sees each of
them at another moment, and any of them may fail. A stream has a producer, a
channel, a writer and a client that stop independently. Answers reach a browser
in any order. A script can be interrupted between any two commands, and a command
that failed may have taken effect. `PROJECT.json` lists each such hazard at its
line with the properties that cover it, or with the reason why none does.

**What correctness means, per component.**

- *Durable operations*: the reviewed change, approved in time, takes effect at
  most once and exactly as reviewed; records only move forward; claims are
  fenced; success means a rollout seen complete; nobody's annotation is lost.
- *Controller*: every approved operation eventually becomes terminal although
  events are filtered, items fail and leaders change.
- *In-memory operations*: a plan is consumed at most once, in its five minutes; a
  change executed is the change reviewed; answers and receipts are true.
- *Rollback*: the template restored is the one rolled out before; whatever
  changes is among the reviewed paths.
- *Reads*: evidence belongs to the object shown; what was there all along is shown, or
  said to be incomplete; no object is shown that was not there.
- *Update stream*: the producer ends when its client is gone; nothing is lost or
  reordered for a client that stays; the buffer is bounded.
- *Investigation*: at most one runs, the slot is always given back, and what the
  model says is cited from evidence.
- *Runbook and lab*: a temporary change is undone unless someone else changed
  the object; traffic returns to the stable slot after every failure.
- *Web console*: what takes effect is what was on the screen at the click, what
  is shown belongs to what is selected, and the console converges.

## 2. Modules

- `Deployment.tla` — the target object, external to this code: its fields as
  the reconciler reads them, the recovery verdicts, the two tests and the
  writes of the patch, and everything other writers may do (edit any spec and
  keep or drop the marker, report a status on the latest or an older
  generation, delete, recreate from an exported manifest). An admission webhook
  that alters a patch is covered as another writer's edit right after it.
- `OperationLifecycle.tla` — the abstract specification: the states of a record
  and when, relative to them, the change may reach the cluster.
- `DurableOperations.tla` — the detailed specification: records, workers,
  approval requests, clocks and requests in flight. It EXTENDS `Deployment` and
  implements `OperationLifecycle` and `ReviewedChange` (`INSTANCE … WITH`).
- `OperationController.tla` — what brings an operation back to a worker:
  election, restarts, informers, queue, timers, and the worker around an
  abstract reconcile; the module of the liveness properties. Its records take
  steps of `OperationLifecycle` only (`FollowsLifecycle`), so what this module and
  `DurableOperations` say is about records that move alike.
- `GuardedOperations.tla` — operations without the durable store, with the
  handlers in front. `ReviewedChange.tla` is the abstract specification of what both
  kinds of operations promise: a change takes effect at most once, as it was reviewed,
  after one execution or approval has used up its review.
- `RollbackHistory.tla` — the choice of what a rollback restores, against the
  Deployment controller's own writes. `TemplateDiff.tla` says which field paths its
  plan lists for the review, `TemplateWalk.tla` how `templateChanges` finds them.
- `Rollback.tla` — `RollbackHistory` and `TemplateWalk` under names of their own, to
  stand beside `GuardedOperations`.
- `WorkloadDetail.tla`, `IncidentOverview.tla`, `ClusterTopology.tla` — answers
  put together from several reads.
- `UpdateStream.tla`, `Investigation.tla` — one stream to a browser; the
  investigations of one process.
- `TemporaryScale.tla`, `ReleaseLab.tla` — the two long-running scripts.
- `ConsolePanel.tla`, `ConsoleRefresh.tla` — the browser: the drawer with its
  operations; polling, streaming and the view cache.
- `ClusterReads.tla`, `Runbooks.tla`, `Console.tla` — what runs side by side: the
  three read-only modules; the two scripts; the drawer, the refreshes, a stream and
  the investigations. The parts act in any order. Each has variables of its own,
  because the program's parts share none: the composition joins their
  specifications and properties, and the theorems are about all of it.
- `DurableOperationsProofs`, `DurableRecordProofs`, `OperationControllerProofs`,
  `GuardedOperationsProofs`, `RollbackProofs`, `ClusterReadsProofs`,
  `RunbooksProofs`, `ConsoleProofs` — the theorems (section 4).
- `MCDurableOperations`, `MCDurableParts`, `MCOperationController`,
  `MCGuardedOperations` with `MCRollback`, `MCClusterReads`, `MCRunbooks`,
  `MCConsole` — instances for TLC (section 3).

### How `DurableOperations` corresponds to the code

| Variable | Code |
|---|---|
| `record[o]` | `durableOperation` in the ConfigMap named by the plan ID; `version` is the ConfigMap's resourceVersion |
| `target` | the Deployment; `marker` is the annotation `kubevista.io/operation-id` |
| `proc[p]` | the local variables of one `ReconcileOperation` (`p` in `Worker`) or `approveDurable` (`p` in `Request`); `pc` is the call it is about to make |
| `orphans` | writes whose sender has returned or died |
| `effects`, `acks`, `recovered` | history: patches that took effect, answered approvals, rollouts seen complete |

One action stands for one API call and the local code up to the next one:

| Action | Code |
|---|---|
| `SaveDurablePlan` | `PlanOperation`, `saveDurablePlan` |
| `ApproveRead`, `ApproveWrite` | `approveDurable`: the read with its checks, the update |
| `Start`, `ClaimWrite`, `Reread` | `ReconcileOperation` 183-230: read and claim, update, read back and policy check |
| `Inspect` | 231-272: the Deployment is read and classified |
| `DryRun`, `Recheck`, `Prepare`, `Patch` | 273-290 with `patchDurable`: dry run, second look at the claim, read of the annotations, the patch |
| `FinishWrite` | the closure `finish`: the update of a receipt |
| `GiveUp`, `OrphanLands` | a deadline, an API error or a crash at any call; a late request |

A worker that gives up forgets its frame, so `GiveUp` is also its crash: nothing
a process keeps between two reconciles is used by this code, and its identity is
new at every start (`enableDurable`).

Three steps of the code are one action where nothing can tell the difference.
*Planning*: the operation's ID is unknown to everyone before the record exists,
so a change of the target between the read and the creation is one between plan
and approval. *Dry run*: it changes nothing, and the read of annotations it
starts with serves only the dry run; its verdict is that of the patch's tests
plus an admission that may refuse at any time. *Local code* between two calls
reads only local variables and the clock, which `Clock` leaves open within the
skew.

`now` is true time, used by a process up to `Skew` wrong. The content of a
template, the reason and the wording of details are abstracted; a rollback and
a restart differ only in which new template they carry, so both are actions
that write the template.

### How `OperationController` corresponds to the code

| Variable | Code |
|---|---|
| `state`, `claim`, `overdue` | the record's state, its unexpired owner, and whether five minutes since planning or ten since approval are over |
| `target`, `deletions` | what became of the reviewed Deployment |
| `api`, `outages` | whether calls can fail or take longer than the 8 s of a reconcile |
| `lease`, `status`, `crashes` | the election Lease; which processes run workers |
| `cached[p]`, `watched[p]` | the states in the informer of the records; the operations whose Deployment is in the other informer |
| `queue[p]`, `waiting[p]`, `job[p]` | the work queue, its delayed items, and the worker's item and place |

| Action | Code |
|---|---|
| `Start`, `Exit`, `StepDown`, `Crash`, `LeaseExpires` | `RunOperationController` 28-63 and the restart in `cmd/server`; the initial lists add every pending record |
| `RecordEvent` | the handlers of the record informer with the filter of line 83 |
| `DeploymentEvent` | `changed` 105-117: additions, updates, resyncs every 30 s, deletions, and the lookup by index |
| `TimerFires`, `Get` | `AddAfter`, `AddRateLimited`; `queue.Get` |
| `Skip`, `Expire`, `Claim`, `Settle` | `ReconcileOperation`, cut into its claim and the change of state after it |
| `Retry` | 137-144, and the writes that may have arrived although the call failed |
| `Revisit`, `Forget` | 145-149: the read after a reconcile, and what happens when it fails |

The abstract reconcile keeps the states a record may move to and when the
window closes it (`Outcomes`), and leaves out versions, epochs and the patch:
those are `DurableOperations`, where the safety of racing workers is shown
without any help from the queue. A lost compare-and-swap is one of the failures
of a `flaky` API. With one worker per process the work queue (an item is
queued at most once, and not while it is being processed) is a set. Timers have
no length, so an item may always come back early or late. Incarnations share a
name: what `Exit` leaves behind belongs to `Former`, which nobody is.

### How `GuardedOperations` corresponds to the code

| Variable | Code |
|---|---|
| `plan[o]` | the `OperationPlan` given out under an ID, by the process that made it |
| `store[p]`, `audit[p]` | `c.plans` and `c.audit` of a process |
| `exec[r]` | one call of `ExecuteOperation`: its copy of the plan and where it is |
| `target`, `previous` | the Deployment's resourceVersion and whether it is paused; the template a rollback would restore |
| `orphans`, `lost` | applying calls given up in flight; plans and executions of a process that restarted |

| Action | Code |
|---|---|
| `PlanOperation` | lines 94-142 with 196-225 and 272-293: denials in their order, the read, `Kept` (expired plans dropped, at a hundred the oldest evicted) |
| `Refuse`, `Consume` | the handler's checks in their order (JSON, identity, body), and 144-156 with 295-317: lookup, removal, the comparison of everything with the plan |
| `Read`, `DryRun`, `Apply`, `Record` | 157-185 with 227-270: read and resourceVersion, dry run, patch, receipt |
| `OrphanLands` | an applying call that is answered as failed and takes effect |
| `Crash` | a restart: store and audit are gone |

`Matches`, `Land` abstract the patch to its resourceVersion test; the full patch is
in `Deployment`. What happens under `c.mu` is part of one action. That a request is
checked before its plan, and the plan is removed before it is compared, is the
code's order, and decides which answers use a plan up.

### How the read-only modules correspond to the code

Each keeps `at` (the call the handler makes next), the answer so far and the
cluster it reads; `ClusterChanges` may happen between any two calls, and every call
may fail (`Fails`, `Skip`, `ReadFails`) in the way the code treats that call: the
answer fails, a warning is added, or nothing is said.

- `WorkloadDetail` has one action per read of `WorkloadDetail` and `Enrich`
  (`List` … `QueryMetrics`). UIDs tell apart a Deployment and the one created after
  it; ReplicaSets may be released and adopted, and the name of a pod is not used again. History
  variables: `truth`, which ReplicaSet ever belonged to which Deployment, `steady`, what
  was so during the whole request, and `missing`, the sources that could not be read.
  What a diagnosis says is abstracted to which evidence leads to it.
- `IncidentOverview` has `ListDeployments`, `ListOthers`, `Detail` (one whole
  `WorkloadDetail`, which fails when its Deployment is gone) and `ListEvents`. What
  the code keeps in slices sorted by name are sets here, with the names ordered:
  `todo`, from which the first is taken next, and `items`, the details in the answer.
- `ClusterTopology` reads `Lists` in the order of the code. Objects are one of each
  sort with what they refer to; `Rules`, `Granted` and `RuleKey` are the join of
  bindings with roles, whose keys matter as a Role and a ClusterRole can share a name.
- `RollbackHistory` has the Deployment controller as `NumberSet`, `Annotate`,
  `Observe`, `Prune`; `Get`, `List`, `DryRun`, `Execute` are `PlanOperation` and the
  later execution. `Candidates` is `previousTemplate`; `order` is the history of
  rollouts, which only the property reads.
- `TemplateDiff` takes a JSON document as a function from paths to nodes (object, array
  of a length, scalar), and a path as the sequence of its keys and positions, not as
  text joined by slashes; `Same` is `reflect.DeepEqual`, `Alike` the two type
  assertions. The recursive closure `visit` is the worklist of `TemplateWalk`: a call is
  a step, the paths it calls itself with are added to `todo`, and `found` is `changes`.
  `templateChanges` there says without recursion what is found in the end, and is what
  `List` puts into a plan.

### How `UpdateStream` and `Investigation` correspond to the code

`UpdateStream`: `Open` is `Updates` before its goroutine (or the demo's), `Take`,
`Send`, `Done`, `GiveUp`, `WatchEnded` are the goroutine's selects, `Receive`,
`Heartbeat`, `Return` those of `streamUpdates`, `Written` and `NotWritten` the write to
the connection. `demo` selects the producer, whose send does not watch for
cancellation. Two facts of net/http are used: when the request's context is
cancelled, and that the server's WriteTimeout of 15 s starts before the ticker of
15 s. So the write of a heartbeat always meets a passed deadline, and a quiet stream
ends at its first heartbeat (`StreamEnds`); the browser connects again.

`Investigation`: `Start` takes the slot or refuses, `Collected`/`NotCollected`,
`Enrich`, `Explain` are the calls of the handler, `Warnings`, `evidencePacket` and
`Explained` the local code between them, with the limits per source. `Output` is
whatever a language model may write, well-formed or not; a hypothesis is whether its
text fits and which items it cites.

### How the scripts correspond to the code

`TemporaryScale`: `at` is the command being run; `Diagnose`, `Plan`, `Execute`,
`Sleep`, and in the exit trap `ReviewRestoration`, `Check` and the execution of the
restoration. `Interrupt` is a signal (from the first execution to the end of the sleep
it leads to the trap, in the trap it kills the script) and `CommandFails` a command that
exits with an error, with or without its effect. `durable` is
how the API was configured: an execution applies the plan before its answer, or
approves what `Reconcile` applies later, if at all.

`ReleaseLab`: one action per kubectl call or measurement of `release.py`, `Raises` its
exceptions with the `finally` block (`Rollback`, `Settle`, `MeasureRecovery`), `Fault` a
command that fails with or without its effect, `Kill` the end of the process.
`Verdict` is the comparison of counts with the limits, of 20 requests each.

### How the console modules correspond to the code

`ConsolePanel`: the page's `selected`, `detail`, `error`; the panel's `form`, `plan`,
`receipt`, `busy`, which vanish when it is no longer rendered (`Rendered`; `panel`
numbers the panels, so that an answer finds the one that asked gone); `loads` and
`posts` are the requests under way, answered in any order. `Look` and `Looked` are the
two buttons of `IncidentResponse` that ask for the evidence again (`load` of
`WorkloadDrawer`): their answer puts another detail under the panel, which stays as it
is. `Plan` and `Apply` are the API, reduced to: an execution must repeat the planned
request, once.

`ConsoleRefresh`: `Poll`, `Debounced`, `ByHand`, `Navigate` start a refresh with the
abort signal of the current effect, or none; `Serve` is when the API looks at what one of
the requests of a refresh asks for, `Settle` when all are answered or failed and the
answers are put into the cache, `Drop` an aborted one.

### Properties

Where a run holds several instances, one property of the run joins those of its
modules; their names follow in parentheses.

| Property | What it says |
|---|---|
| `TypeOK`, `Types` | types, and what relates the parts of a state: records decode to valid ones, requests in progress passed every check, failed lists are empty (`Types`: the `TypeOK` of each instance) |
| **Durable operations** | |
| `AtMostOneEffect` | the patch of an operation takes effect at most once, ever |
| `EffectWasApproved` | an effect belongs to a record with a named actor, approved within the plan's window |
| `EffectIsReviewedIntent` | at the moment of the effect the whole Deployment is the reviewed one |
| `NoLostAnnotations` | a patch that can still take effect carries the current annotations |
| `ClaimsAreFenced` | epochs never go back; a claim changes hands only expired and with a new epoch |
| `TerminalIsFinal` | a terminal record is never written again |
| `AckedApproverIsRecorded` | whoever was told "approved" is the recorded actor |
| `SuccessWasObserved` | Succeeded only if the effect happened and the reviewed spec was seen in full health |
| `KeepsItsPromises` | refinement of `OperationLifecycle` and of `ReviewedChange` |
| **Controller** | |
| `NothingForgotten` | while calls succeed, a pending operation has an item, a timer, a job or an event on its way in every working process |
| `SettlesOwnClaim` | only the owner of a claim changes what follows from it, while it is executing or verifying, though leaders overlap |
| `OperationsEnd` | every plan and every approved operation ends as long as its Deployment exists (liveness) |
| `WorkEndsWithoutOutages` | with no failing call, they end whatever becomes of the Deployment (liveness) |
| **In-memory operations** | |
| `SingleUse` | one execution gets hold of a plan, in its five minutes, at whichever process |
| `EffectAsReviewed` | every effect, even a late one, is the reviewed change on the reviewed object |
| `AnswersAreTrue` | 202 means the change was made; every refusal but one that it was not |
| `MemoryIsKept` | the store is bounded, and keeps a plan until it expires, is used, or a hundred newer ones were made (`PlansAreKept`); receipts name changes made, once, and who was answered 202 is on the list unless that is full (`ReceiptsAreTrue`) |
| `ImplementsReviewedChange` | refinement of `ReviewedChange` |
| **Reads** | |
| `EvidenceIsReal` | all evidence in a detail is of objects that belonged to the very Deployment shown (`EvidenceBelongs`); no single object in the topology was never there, and no binding has another role's rules (`NothingIsInvented`) |
| `WhatStaysIsShown` | what was there during the whole request is in the detail with its symptoms, or a warning names the source that could not be read, except for three sources whose errors the code drops, and endpoints that were not read are not called empty (`NothingIsLeftOut`); an overview has every Deployment listed as unhealthy, up to the limit, or is no answer (`NobodyIsMissing`); what was there all along is in the topology or a warning is (`NothingIsSilentlyMissing`) |
| `RestoresPrevious` | a rollback restores what was rolled out before, once the controller has seen the spec |
| `NothingIsHidden` | what a rollback that can still be executed changes is covered by the reviewed paths, none of them listed in vain or below another (`ReviewCovers`), and the walk finds exactly those (`FindsChanges`) |
| **Stream and investigation** | |
| `ToldInOrder` | a client that stays is told everything, and any client a beginning of it, in order (`NothingLost`, `InOrder`) |
| `StreamsEnd` | every stream ends; no producer or watch outlives its request, except the demo's blocked send (`StreamEnds`, `ProducerEnds`, liveness) |
| `InvestigationsAreHonest` | one at a time (`OneAtATime`); every hypothesis shown cites items of the packet shown, of which there may be none: a model may answer with an empty list (`ExplanationsAreCited`); no source displaces another one, and what is missing is said to be (`NothingIsCrowdedOut`, `AbsenceIsExplained`) |
| `SlotIsReturned` | the slot is free again whatever fails (liveness) |
| **Scripts** | |
| `RestoresWhatMatches` | a restoration takes effect only on the UID, generation and count expected |
| `ExitStatusIsTrue` | without the durable store, exit 0 (or 130) means the count was put back |
| `UndisturbedItRestores` | undisturbed, the runbook leaves the count it found |
| `OnlyHealthyIsPromoted` | a candidate that fails a measurement gets no traffic, or loses it (with `RejectedGetsNoTraffic`) |
| `TrafficIsRestored` | the finally block has switched back whatever failed, and no switch overwrites somebody's edit (`EditsAreNotOverwritten`) |
| **Console** | |
| `ConfirmedIsApplied` | what takes effect is what the panel showed at the click, once |
| `OneRequestAtATime` | buttons are disabled exactly while the panel waits |
| `Converges` | the poll brings the console up to date, in whatever order answers arrive (liveness) |

Two things the abstract specification makes explicit. An operation found
recovered goes from Executing straight to Succeeded, without the Verifying of
the lifecycle in `docs/durable-operations.md`. And an effect may land *after*
the record was closed as NeedsReview or Failed, because a given-up patch may
still be in flight; it cannot land after the record says the change was seen.

## 3. Runs

| Run | Instance | Shows |
|---|---|---|
| `durable_effects` | 1 operation: 2 workers with clocks that agree and time to 2, or clocks up to 2 ticks apart; or 1 worker, scale and restart, 2 templates, 3 foreign writes | claim, takeover, the old owner's late patch and late receipts: one effect, fenced claims, final terminal states; the fences do not rest on synchronised clocks. Edits with and without marker, pause, deletion, recreation, lagging status: the patch is exactly the reviewed one, success is real |
| `durable_approvals` | 2 approvers of 1 operation, or 2 operations on one Deployment; 2 workers, one denied by policy | nothing unapproved takes effect; the answered user is recorded; the refinements of both abstract specifications |
| `durable_failed` | 1 worker | finding: Failed although the change was made |
| `controller_safety` | 2 processes, elected with an outage and a crash, or active-active with an outage and a deletion | nothing is forgotten while calls succeed; overlapping leaders do not settle the same operation |
| `controller_ends` | 1 elected process with every fault, or 2 active ones with a crash | liveness with a target, and without one when no call fails |
| `controller_forgets` | 1 process, an outage, a deletion | finding: an operation that is dropped for good |
| `guarded` | races (2 plans, 2 executions, 1 process), stores (3 plans, 2 processes that keep 2), policies (1 plan, everything that can be wrong), a rollback of 3 templates, or a review of any two small templates | the properties of plans in memory, and the refinement; what a rollback restores and shows |
| `cluster_reads` | the detail, the overview, or the topology | what several reads put together |
| `detail_missing` | 1 ReplicaSet and pod, a cluster at rest | finding: sources that could not be read and are not reported |
| `runbooks` | the temporary scale with 4 foreign changes, or the release lab with 2 edits and 2 failing commands | both scripts, interrupted at every point |
| `console` | the drawer, the refreshes, one stream, or two investigations | the browser and what it lives from |
| `panel_selected` | 2 workloads opened | finding: the drawer of one shows the other |

**Several instances in one run.** Some runs hold more than one instance, told
apart by a rigid variable (`part`, `mode`). Where the instances are of modules that
share no state in the program (the read-only handlers; runbook and lab; drawer,
refreshes, streams and investigations), one behaviour is one of them acting while the
others rest, with a constant in place of their state: nothing is lost by not
interleaving them, and the states explored are the sum and not the product. Where
they are of one module, each is the module's `Next` with other constants or with a
restriction that is stated in the MC module: every state reached is one of the
specification, and the restrictions only save inputs. The parts of
`MCGuardedOperations` use plan IDs and executions in order, as they are
interchangeable, and enumerate the inputs that their question is about. `durable`,
`demo` and `config` are rigid too: they are how a process was started.

**Bounds of the durable runs.** Every run lets processes give up at any call.
`MaxRv` bounds only the writes of others, `MaxVersion` the record version a reconcile
starts from (so the number of reconciles), `MaxTime` the clock, `MaxOrphans`
abandoned requests in flight at once. Durations are 0 or 1 ticks: only their
comparison matters, and both sides of each comparison are reached. One operation per
instance is enough for the properties of one record; effects of operations on each
other go through the Deployment, and others' edits there are more general than
another operation's patch. `durable_approvals` still has two. Two workers suffice for a
takeover and a takeover back; a third adds only another late request, and the proofs
cover any number. The bounds were checked to be wide enough by having TLC reach a
takeover with an effect by either owner, an effect that lands after NeedsReview, and
success after an abandoned patch. `MCDurableParts` lets two workers, or racing
approvers, only plan a scale to the count there is (`Level`): the new count plays no role
in what these instances show. A detail starts with one thing that is wrong at a time
(`DetailInit` of `MCClusterReads`); the changes during the request add the others.

**Bounds of the others.** In the controller's runs `MaxOutages`, `MaxCrashes` and
`MaxDeletions` bound how often each happens; one operation is enough since operations
meet only in the queue, and the proofs cover any number. Limits of the code that are
large are small here, and reached and passed in each run: two plans and one receipt
for 100 and 50, an overview of 2 Deployments and 2 events for 20 and 100, 1 log
excerpt for 3, a channel of 2 for 8. The limits of an investigation (24 items, 3
hypotheses, and those per source) are the code's. In `WorkloadDetail` one request sees
up to 2 Deployments of the name and 3 changes, in `ClusterTopology` an object that is
missing at first, 2 changes, and 2 lists that fail or all from one on: the properties
relate at most two reads and what happens between them. `ConsoleRefresh` has two versions
of the cluster, two refreshes under way and two requests in each, which is what an older
answer that arrives later takes. `RollbackHistory` has 3 templates and 4 revisions, with one old
ReplicaSet kept, so that a template is renumbered and one is pruned.

`CHECK_DEADLOCK FALSE`: an instance really stops, when every request is answered,
every record terminal or every script at its end, and the bounds are used up.

**Fairness.** `DurableOperations`, `GuardedOperations`, the read-only modules, the scripts and
`ConsolePanel` assume none: they claim no liveness.

- `OperationController`, weak fairness of what the platform does by itself: time
  passes, claims and leases run out, an exited process is restarted by Kubernetes and
  takes part in the election, informers deliver and resync every 30 s, timers fire,
  the worker goes on (each reconcile is limited to 8 s), and every outage ends. The
  queue is first in first out, so an item that keeps being queued is reached: strong
  fairness of `Get`. Nothing that a person or another program does is fair. A patch
  that the API server refuses with a retryable error may be refused until the window
  of ten minutes is over, not longer, because that check comes first (lines 267-272).
  `ClaimExpires` uses the one relation between durations that matters here: a claim
  of 15 s outlives the 8 s reconcile that took it. What happens when clocks break it
  is checked in `durable_effects`. `EndsFairness` of `MCOperationController` is the
  same for processes of either mode.
- `UpdateStream`: a goroutine that can go on does; a `select` passes no ready case
  over forever (strong fairness of `Done` and `Return`); a write ends, at the latest by
  the server's deadline. Clients, changes and the API server promise nothing.
- `Investigation`: collection, enrichment and the model answer or fail, as their
  timeouts of 5 and 6 s make them.
- `ConsoleRefresh`: timers fire, and a request is answered or fails. The stream
  promises nothing.

**Finding** (`durable_failed`, `durable_operations.go:274`). The document
reserves Failed for a final admission rejection, and sends a superseding change
to NeedsReview. The API server answers a failed `test` of a JSON patch with
status 422, which the code treats as such a rejection. TLC's counterexample: a
worker's patch is given up in flight; the retry finds the Deployment unchanged;
the patch lands; the retry's dry run fails its resourceVersion test, and the
operation whose change is live is recorded as Failed.

**Finding** (`controller_forgets`, `operation_controller.go:147`). The document
says that work without established recovery "goes to review when the API
becomes reachable again". After a reconcile that ended without error the item is
forgotten and the record read once more to decide about the next visit; when
that read fails, nothing is added back. Resyncs of records are filtered out, so
only the Deployment can bring the item back, and a deleted one has no resync.
In the counterexample a leader restarts while its former incarnation's claim is
unexpired, its reconcile has nothing to do, the read fails, and the operation
stays Executing until the process restarts. The same hole leaves a plan of a
deleted Deployment `Planned`; an approval still finds it expired.

**Finding** (`panel_selected`, `main.tsx:170`). The document says that selecting a
workload opens a panel with its pods, images and Services. `open` sets the detail
from whichever request is answered last: after two selections the drawer can name
one workload and hold the detail of the other. `ConfirmedIsApplied` holds all the
same: an operation reviewed in that drawer is about the workload of the detail, which
the panel shows.

**Finding** (`detail_missing`, `experience.go:293`, and 243, 223). The document says of
the evidence about a workload that missing sources are reported. For most reads that
fail there is a warning; the errors of three are dropped: the receipts of operators, the
network policies, and each Service that is read again for its selector. The answer looks
as if there were none, and of a Service that could not be read, its endpoints are not
mentioned either. `NothingIsLeftOut` names these three (`Dropped`) and asks for the rest.

**Other disagreements.** Stated as properties in the modules and refuted by their
specifications, though they are not among the runs:

- `GuardedOperations!RejectedHasNoEffect` (`operations.go:171`): any error of the
  applying call is reported as a rejection; after a timeout the change may be made.
- `TemporaryScale!DurableExitIsTrue` (`temporary-scale.sh:31`): with durable
  operations the script's exit status is that of an approval, which the controller may
  never apply.
- `TemporaryScale!NeverRestoresOverOthers` (`temporary-scale.sh:28`): when somebody
  else sets the temporary count before the script's own plan is executed, UID,
  generation and count are the predicted ones, and their change is undone.
- `IncidentOverview!OnlyDegradedAreShown` (`experience.go:332`): a Deployment scaled to
  zero is not Healthy, so it takes a place in the overview.
- `IncidentOverview!WarningsAreShown` (`dashboard.go:279`): warnings are selected among
  the 100 newest events, so those behind a hundred normal ones are not shown.
- `ClusterTopology!GrantsWereDeclared` (`topology.go:123`): a role read before it was
  deleted, and a binding read after it was created, make a grant that never was.
- `RollbackHistory!SelectsBelowCurrent` (`recovery.go:17`): between the new ReplicaSet
  and the annotation of the Deployment, a rollback skips what was rolled out last.

## 4. Proofs

For all values of the constants that satisfy the assumptions named in the modules
(`DurableOperations`: names of operations, workers, actors and actions differ from
`None`, requests are not workers, durations are naturals; `OperationController`: `None`
and `Former` name nothing else, bounds are naturals; the other modules: names are distinct
from `None`, limits and bounds are naturals, and positive where the code needs room for
one. Three assumptions say more: `LimitsFit` of `Investigation`, that the limits per
source add up to no more than a packet holds; `LabBounds` of `ReleaseLab`, that the
scenarios are among the four of the script; and `RollbackBounds` of `Rollback`, that pod
templates are JSON documents (`IsDocument`). TLC evaluates each of them with the code's
limits or with the small ones of a run):

| Theorem | Property |
|---|---|
| `TypeCorrect` | `TypeOK` |
| `EffectOnce` | `AtMostOneEffect` |
| `AnnotationsKept` | `NoLostAnnotations` |
| `ReviewedIntentApplied` | `EffectIsReviewedIntent` |
| `EffectsApproved` | `EffectWasApproved` |
| `ApproversRecorded` | `AckedApproverIsRecorded` |
| `SuccessFounded` | `SuccessWasObserved` |
| `TerminalStays` | `TerminalIsFinal` |
| `ClaimsFenced` | `ClaimsAreFenced` |
| `LifecycleImplemented`, `DurableIsReviewed`, `PromisesKept` | the two halves of `KeepsItsPromises`, and both |
| `ControllerTypes`, `SettlersOwnClaims` | `TypeOK`, `SettlesOwnClaim` |
| `StatesFollowLifecycle` | `FollowsLifecycle` (proved only) |
| `NothingIsForgotten` | `NothingForgotten` |
| `GuardedTypes`, `PlansUsedOnce` | `TypeOK`, `SingleUse` |
| `EffectsAreReviewed`, `AnswersTrue` | `EffectAsReviewed`, `AnswersAreTrue` |
| `ReviewedChangeImplemented` | `ImplementsReviewedChange` |
| `MemoryKept` | `MemoryIsKept` |
| `PreviousRestored`, `NothingHidden` | `RestoresPrevious`, `NothingIsHidden` |
| `RollbackTypes` | — |
| `ReadTypes`, `OnlyRealEvidence` | `Types`, `EvidenceIsReal` |
| `AllIsThere` | `WhatStaysIsShown` |
| `ScaleTypes`, `RestorationMatches` | `TypeOK` (in `Types`), `RestoresWhatMatches` |
| `ExitStatusTold`, `RestoresUndisturbed` | `ExitStatusIsTrue`, `UndisturbedItRestores` |
| `RunbookTypes` | `Types` |
| `OnlyHealthyPromoted`, `TrafficRestored` | `OnlyHealthyIsPromoted`, `TrafficIsRestored` |
| `ConsoleTypes`, `ConfirmedApplied`, `OneRequest` | `TypeOK` (in `Types`), `ConfirmedIsApplied`, `OneRequestAtATime` |
| `AllTypes`, `StreamsTell` | `Types`, `ToldInOrder` |
| `HonestInvestigations` | `InvestigationsAreHonest` |

**The argument for effects.** "Applied at most once" is not inductive: nothing in it stops a
second patch in flight. The invariant `EffectInv` adds why there can be none
that works. `PlanAgreement`: whatever copy of a record is in flight agrees with
the stored one on the reviewed UID, resourceVersion, action and intent, because
no action changes these after planning. `PlanIsPast`: the planned
resourceVersion is not ahead of the target's, and is strictly behind it once
the operation has had an effect; the patch tests equality, so a second one
fails. `AnnotationsAreRecent`: the annotations of an outgoing patch were read
no later than now and no earlier than the plan, so if the test passes they are
the current ones. Together with `TypeOK` this is inductive and implies the
invariants; the action property follows from it for the only two steps that
patch (`Patch`, `OrphanLands`), using that a plan keeps the half of the spec it
does not write.

The proof is organised by what a step does rather than by action: `RecordStep`,
`TargetStep` and `FrameStep` say once how any step may change records, the
target and the requests in flight; each conjunct is then preserved by a lemma
over these three.

**The argument for records.** A record is written by compare-and-swap only, so
everything turns on the copies in flight. `CopiesAreCurrentOrStale` says that a
copy has either an outdated version, and its update will fail, or the stored
version, and then it was computed from exactly that record, by a step that the
record's state allows. The delicate case is the re-read of a claim
(`ReconcileOperation` 219-226): the worker goes on with whatever it reads if
owner and epoch are its own, without comparing versions or looking at the
state. `ClaimsAreReadBack` shows that this is enough: all older requests of the
same worker carry outdated versions (a process does one thing at a time and
uses its own name, `ProcessesOwnTheirCopies`), and anybody else's write raises
the epoch. `StartedFrames`, `VerdictsAreFounded` and `RecordsAreConsistent`
connect states, effects, the marker and the history of full health. The
conjunction `RecordInv` is inductive; the six theorems follow from it, and with
it every step of `DurableOperations` is a step of `OperationLifecycle` or
leaves states and effects alone. For `ReviewedChange` the review of an operation is the
change its record names, and the review is used up when the record has an actor. A new
record is a `Review`; an update keeps the change (`PlanStable`) and an actor once there
is one, so it is a `Spend` or a stutter; and a patch takes effect where there was no
effect and an actor is (`RecordsAreConsistent`). In this refinement the change that
reached the cluster is that of the record: what the patch writes is what the record says
by `EffectIsReviewedIntent`, which is proved separately.

**The argument for the controller.** `SettlesOwnClaim` is inductive with the
types: a claim is taken from nobody or oneself, does not expire under the
reconcile that took it, and an exit leaves no job behind. While a claim is held,
nobody else changes the state, so what is about to be settled is still executing or
verifying. This gives `LifecycleStep`, that an outcome is always one the abstract
lifecycle allows from there (whether the change was made, which it also asks, is not in
this module), and `StatesMoveForward`: every step leaves a state or moves it forward. Hence a
cache is never ahead of the record (`CachesAreBehind`), and when a state moves,
every working process still has the event to come. While a state stands,
`ScheduleStep` shows for each action that whatever takes an item from one place
puts it in another; the only exception is the failed read, which needs an
outage (`OutagesAreCounted`).

**The argument for plans in memory.** A plan is used up when it is removed from the
store of its process (`Consume`), whatever the execution does later. `StoresAreOwn`: a
plan is in no other store than that of the process that made it, and never returns.
`FramesAreReviewed`: the copy an execution goes on with is the plan it removed.
`RequestsAreOrdered`: an effect, a late call and an answer belong to an execution that
has come to the place where they are made. `EffectsArePlanned` and `PlansArePast`
bound what an effect can differ in to the resourceVersion, which the patch tests.
With `SingleUse` and `EffectAsReviewed` this is inductive (`OperationInv`); the
refinement follows, since two executions never hold the same plan.

`MemoryIsKept` counts, and needs `MemoryInv`. `PlansAreApart`: plans are finitely many
and no two were made at the same reading of the clock, so that the eviction of the
oldest is of one plan, and that everything which stays is newer. When a store at its
limit takes a plan, what it evicts is older than as many plans as it holds, and
remains so. `ReceiptsAreListed` says what the list of a process is: executions of its
own, each once, answered 202, and all of those unless it is full.

**The argument for rollbacks.** `RestoresPrevious` relates an execution to a history
that goes back before its plan. `NumbersAreHistory` is what the Deployment controller
keeps true: the revision of a ReplicaSet is the last place of its template in the
history, and the newest one exists. `SeenIsLast`: if a status has the generation of a
Deployment that is not paused, its template and its annotation are those of the last
rollout. `ReadIsPast`: while the resourceVersion stands, what was read is the
Deployment. So, at the list, the revision below which `previousTemplate` looks is that
of the last rollout; `RestoredIsPrevious` carries its result to the execution. The
delicate step is `Prune`: more than one old ReplicaSet is there and the oldest goes,
which is never the one to be restored. Without `deployment.observed` none of this holds,
as `SelectsBelowCurrent` shows (section 3).

**The argument for the reviewed fields.** Induction over the depth of a template is
replaced by a least element. If two documents differ at or below a path, some node at or
below it is in one of them only or not the same in both, and is therefore not alike. Of
its prefixes that are not alike there is a shortest (`PartingPoint`), since a set of
naturals has a least element (`LeastElement`, from the library's theorem that inclusion
of finite sets is well-founded). That one has only alike documents above it and differs,
so it is listed; and as a prefix of the same node it is at, below or above the path
(`ChangesCover`). No change is below another, which would be alike then. `WalkInv` says that everything above what is to be visited is alike,
that what was found is a change, and that every change is found or has a path above it,
or itself, still to be visited. A visit keeps the last part because what is below a path
is below one of its children (`ChildAbove`), and nothing below a change or below two equal
values is a change of its own. When nothing is left to be visited, the walk has found the
changes. In the plan, `HistoryInv` has the changes between what was read and what is
restored, and while the resourceVersion stands that is what the rollback changes.

**The argument for reads.** In each of the three, the question is what is known in the
middle of the reads. A detail: `Evidence` is `EvidenceBelongs` for each kind of event;
it holds before the last read because nothing is in the answer before the Deployment
was read (`detailAt` up to `get`), and every later read selects by the UIDs of what is
already there, while `truth` only grows. `WholeInv` goes the other way, as `steady` only
shrinks: what is left of it is so now (`Now`), so a read that selects by what is already
in the answer finds it, and each read adds one of `SetsKept`, `PodsKept`,
`EndpointsKept` and `EventsKept`. `Reported`: the endpoints are read once, and nothing
is said about them before. An overview: until the loop is over, `items` and
`todo` together are the suspects of the list, and every item comes before what is still
to do (`OverviewInv`), so an answer has the first ones; the proof needs that
removing the least of a finite set leaves the rest in order. A topology:
`TopologyInv` says that a list which was read has what was there throughout and
nothing that never was. Whether a sight is shown is then decided by whether each of its
objects was in its list, and the keys tell a Role from a ClusterRole.

**The argument for the temporary scale.** A restoration takes effect at the
resourceVersion its plan was reviewed at. `ReviewsArePast` and `CheckedIsCurrent`: if
the object still has that resourceVersion, it is the one the check compared with the
prediction, and nothing was written since. `RestorationEnds`: after the restoration
the script does nothing more. `ExitIsFounded` follows the exit status through the
trap, and `Undisturbed` is the course of a run that nobody interferes with, whose
first execution may leave the generation alone.

**The argument for the release lab.** `Restored` says where traffic is at each step, as
long as nobody edited the Service and no answer to a switch was lost: where the
promotion put it from its success to the rollback, at the stable slot elsewhere.
`Quiet` is about the slot of the candidate: the pods there are replaced only while
neither the Service nor lagging endpoints lead to them, so that what is promoted is what
was measured. `Measured` keeps that a promoted candidate has answered its requests.

**The argument for the drawer.** `ConsoleInv` joins what is true of the page, the
panel, the requests under way and the plans (`PageOK`, `PanelOK`, `PostsOK`,
`PlansOK`) with the two properties: a panel that is gone waits for nothing it could
still act on, and a panel has sent at most the one request it is disabled for.

**The argument for refreshes and streams.** That a console which says *connected* was
answered rests on every refresh asking for the workloads (`RefreshInv`): if nothing that
was asked for failed, they were answered. For the stream, `StoryInv` is an equation:
what was delivered, is being written or waits in the channel, followed by the update
the producer holds (`Told \o Pending`), is what was taken from the watch, until the
client leaves. Each action moves an update from one of these places to the next, and a
client that has left keeps a prefix. `ControlInv` has what the ends need: a handler
that returns to a client that is there has emptied the channel.

**The argument for investigations.** `RecordOK` holds of each request by itself and says
what of its packet and answer is fixed at which step, so that nothing said by the model
can be about a packet other than the one shown. With `LimitsFit`, `take` of each source
fits, and the position of an item tells its source: no source crowds out another.

**Compositions.** `ClusterReads`, `Runbooks` and `Console` interleave parts with separate
variables. Their invariant is the conjunction of the parts' invariants, and a step of
one part is a stutter of the others; this is one lemma in each proof module.

TLC checked the invariants on the instances of the runs before they were proved. The
runs remain the quick check of a change to the model, and show with mutants that each
property can fail.

**Only model-checked.** Liveness (`OperationsEnd`, `WorkEndsWithoutOutages`,
`StreamsEnd`, `SlotIsReturned`, `Converges`): fairness and ENABLED are outside what the
prover supports. The walk down two templates comes to an end because each call goes
one level down in a finite document; no property says so. Every other property of
a passing run is the subject of a theorem.

## 5. Not modelled

- *Configuration, telemetry and start-up*: parsing and wiring, done once. What matters
  later, which store is used and whether the environment is production, is a rigid
  variable or a constant of the models.
- *Load balancer identity*: a signature is verified by a library, with a lock around a
  cache of immutable keys; nothing depends on an order of steps. Its result is `User`
  in `GuardedOperations`.
- *Inventory, dashboard, station and delivery views*: each lists objects, maps fields
  one to one and fails as a whole. Their joins with consequences are in
  `IncidentOverview` and `ClusterTopology`.
- *The tables of `diagnosis.go`*: which code a container state or an event reason gets.
  `WorkloadDetail` keeps which evidence a diagnosis rests on.
- *Replica counts behind a recovery verdict*: `Deployment` has the verdict as a status
  of a generation.
- *The audit view of durable records*: the fifty newest of the listed records, a
  projection of one list.
- *Demo data, static files, CORS and metrics middleware; rendering, the station view and
  preferences of the console; `kubevista verify` and output formatting.*
- *Delivery promotion, node cordon and the incident labs*: one check and one edit each,
  in a checkout or on an object nobody shares.
- *Platform*: Terraform, Helm, Argo CD and workflows declare what other programs do.
