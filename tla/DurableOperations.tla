-------------------------- MODULE DurableOperations --------------------------
(***************************************************************************)
(* Durable operations of the KubeVista API                                 *)
(* (api/internal/kubernetes/durable_operations.go).                        *)
(*                                                                         *)
(* A reviewed change to a Deployment is a record in a ConfigMap.  API      *)
(* requests plan and approve it; controller workers claim it for a while,  *)
(* apply it with one JSON patch guarded by the reviewed UID and            *)
(* resourceVersion, and follow the rollout until the record is terminal.   *)
(* Several workers run against the same records: leader election decides   *)
(* who should, nothing here relies on it.                                  *)
(*                                                                         *)
(* A reconcile or an approval is a sequence of API calls, so it is modelled *)
(* as a process with a program counter, one action per call.  A call that  *)
(* writes is in flight from the moment it is issued.  Its sender may give  *)
(* up on it (an API error, the 8 s context of a reconcile) or crash; the   *)
(* request may then be lost or still arrive later.                         *)
(***************************************************************************)
EXTENDS Integers, FiniteSets, Deployment

CONSTANTS
  Worker,           \* controller process incarnations (a restart is another one)
  Request,          \* HTTP requests that approve operations
  Actor,            \* authenticated users
  Action,           \* "scale" and the actions that write the pod template
  Denying,          \* workers whose configuration no longer allows the target
  PlanWindow,       \* five minutes, for the approval of a plan
  ClaimDuration,    \* claimDuration, 15 s
  ExecutionWindow,  \* ten minutes after approval, to apply and to recover
  Skew,             \* how far the clock of a process may be from the true time
  MaxTime,          \* bound on the clock
  MaxRv,            \* bound on the writes of others to the target
  MaxVersion,       \* bound on the record versions that a reconcile starts from
  MaxOrphans        \* bound on abandoned requests still in flight

ASSUME DistinctNames ==
  None \notin Op /\ None \notin Worker /\ None \notin Actor /\ None \notin Action

ASSUME SeparateProcesses == Worker \intersect Request = {}

ASSUME Durations ==
  /\ PlanWindow \in Nat /\ ClaimDuration \in Nat /\ ExecutionWindow \in Nat
  /\ Skew \in Nat

VARIABLES
  now,        \* the true time
  record,     \* [Op -> the durableOperation in the ConfigMap of that ID]
  target,     \* the Deployment that every operation is planned against
  proc,       \* [Worker \union Request -> the call a process is about to make]
  orphans,    \* writes still in flight whose sender gave up or crashed
  effects,    \* history: [Op -> how often its patch took effect]
  acks,       \* history: <<actor, operation>> pairs answered with a record
  recovered   \* history: operations seen complete and healthy in the target

vars == <<now, record, target, proc, orphans, effects, acks, recovered>>

-----------------------------------------------------------------------------
Terminal == {"Succeeded", "Failed", "Expired", "NeedsReview"}

\* The states in which ReconcileOperation claims an operation.
Claimable == {"Approved", "Executing", "Verifying"}

Process == Worker \union Request

\* version stands for the ConfigMap's resourceVersion, the base of every
\* compare-and-swap on the record.
Saved == [version : Nat, state : {"Planned"} \union Claimable \union Terminal,
          action : Action, uid : Nat \ {0}, rv : Nat \ {0},
          replicas : Replicas, template : Template,
          createdAt : Nat, actor : Actor \union {None}, approvedAt : Nat,
          owner : Worker \union {None}, epoch : Nat, claimUntil : Nat]

\* No ConfigMap of that name.
NoRecord == [version |-> 0, state |-> "Absent", action |-> None,
             uid |-> 0, rv |-> 0, replicas |-> None, template |-> None,
             createdAt |-> 0, actor |-> None, approvedAt |-> 0,
             owner |-> None, epoch |-> 0, claimUntil |-> 0]

\* Calls that write: while a process is here its request may be in flight.
Sending == {"claim", "patch", "approve", "finish"}

\* What a busy process is doing.  rec is the copy of the record it works on,
\* with the version it was read at; annRv is the resourceVersion of the
\* Deployment whose annotations an outgoing patch carries.  An approval names
\* its actor, and a reconcile has its owner in the record from its claim on.
Frame ==
  {f \in [pc : Sending \union {"reread", "inspect", "dryrun", "recheck",
                               "prepare"},
          op : Op, rec : Saved, annRv : Nat] :
     IF f.pc = "approve" THEN f.rec.actor # None
                         ELSE f.pc # "finish" => f.rec.owner # None}

Idle == [pc |-> "idle", op |-> None, rec |-> NoRecord, annRv |-> 0]

Init ==
  /\ now = 0
  /\ record = [o \in Op |-> NoRecord]
  /\ Fresh(target)
  /\ proc = [p \in Process |-> Idle]
  /\ orphans = {}
  /\ effects = [o \in Op |-> 0]
  /\ acks = {}
  /\ recovered = {}

\* What time.Now() may return in some process.
Clock == {t \in (now - Skew)..(now + Skew) : t >= 0}

-----------------------------------------------------------------------------
(* Planning.  The Deployment is read, dry-run and described, and the record *)
(* created last.  Nobody knows the operation's ID before, so the read and   *)
(* the creation are one step: a change of the target between them is the    *)
(* same as one between the plan and its approval.                           *)

\* What PlanOperation accepts and what saveDurablePlan stores for it: a scale
\* keeps the template, a restart or a rollback keeps the count and brings
\* another template.
MutPlans(d, t) ==
  {r \in [version : {1}, state : {"Planned"}, action : Action,
          uid : {0}, rv : {d.rv}, replicas : Replicas, template : Template,
          createdAt : {t}, actor : {None}, approvedAt : {0},
          owner : {None}, epoch : {0}, claimUntil : {0}] :
     IF r.action = "scale"
       THEN r.template = d.template
       ELSE ~d.paused /\ r.replicas = d.replicas /\ r.template # d.template}

Plans(d, t) ==
  {r \in [version : {1}, state : {"Planned"}, action : Action,
          uid : {d.uid}, rv : {d.rv}, replicas : Replicas, template : Template,
          createdAt : {t}, actor : {None}, approvedAt : {0},
          owner : {None}, epoch : {0}, claimUntil : {0}] :
     IF r.action = "scale"
       THEN r.template = d.template
       ELSE ~d.paused /\ r.replicas = d.replicas /\ r.template # d.template}

SaveDurablePlan(o) ==
  /\ record[o] = NoRecord
  /\ target.exists
  /\ \E t \in Clock : \E r \in Plans(target, t) :
       record' = [record EXCEPT ![o] = r]
  /\ UNCHANGED <<now, target, proc, orphans, effects, acks>>

-----------------------------------------------------------------------------
(* Calls and their answers.                                                 *)

Call(p, pc, o, rec) ==
  proc' = [proc EXCEPT ![p] = [pc |-> pc, op |-> o, rec |-> rec, annRv |-> 0]]

\* The next call of the reconcile or approval that p is in.
Proceed(p, pc) == proc' = [proc EXCEPT ![p].pc = pc]

Return(p) == proc' = [proc EXCEPT ![p] = Idle]

\* finish(state, detail): transition the copy, then update the record.
Finish(p, state) ==
  proc' = [proc EXCEPT ![p].pc = "finish", ![p].rec.state = state]

\* updateDurable: the API server accepts the new content f.rec only if the
\* record still has the version it was computed from.
MutCurrent(f) == TRUE

Current(f) == record[f.op].version = f.rec.version

Update(f) ==
  record' = IF Current(f)
              THEN [record EXCEPT ![f.op] = [f.rec EXCEPT !.version = @ + 1]]
              ELSE record

\* The API server executes the patch of f, or rejects it for a failed test.
ApplyPatch(f) ==
  IF PatchTestsPass(target, f.rec)
    THEN /\ target' = Patched(target, f.op, f.rec)
         /\ effects' = [effects EXCEPT ![f.op] = @ + 1]
    ELSE UNCHANGED <<target, effects>>

-----------------------------------------------------------------------------
(* Approval: an HTTP request of actor a, which repeats the reviewed request *)
(* (a request that differs from it is refused without any effect).          *)

PlanExpired(r, t) == t - r.createdAt > PlanWindow

ApproveRead(q, a, o) ==
  /\ proc[q].pc = "idle"
  /\ LET r == record[o] IN
       \/ /\ r.state \notin {"Absent", "Planned"} \* an idempotent replay
          /\ r.actor = a
          /\ acks' = acks \union {<<a, o>>}
          /\ UNCHANGED proc
       \/ /\ r.state = "Planned"
          /\ \E t \in Clock :
               \/ /\ PlanExpired(r, t)
                  /\ Call(q, "finish", o, [r EXCEPT !.state = "Expired"])
               \/ /\ ~PlanExpired(r, t)
                  /\ Call(q, "approve", o, [r EXCEPT !.state = "Approved",
                                                     !.actor = a,
                                                     !.approvedAt = t])
          /\ UNCHANGED acks
  /\ UNCHANGED <<now, record, target, orphans, effects>>

\* Only the request whose update wins is answered with the record.
ApproveWrite(q) ==
  LET f == proc[q] IN
  /\ f.pc = "approve"
  /\ Update(f)
  /\ acks' = IF Current(f) THEN acks \union {<<f.rec.actor, f.op>>} ELSE acks
  /\ Return(q)
  /\ UNCHANGED <<now, target, orphans, effects>>

-----------------------------------------------------------------------------
(* ReconcileOperation: a worker claims the operation.                       *)

\* Another worker's claim is still good.
MutClaimHeld(r, w, t) == r.owner \notin {None, w} /\ t + 1 < r.claimUntil

ClaimHeld(r, w, t) == r.owner \notin {None, w} /\ t < r.claimUntil

MutClaimed(r, w, t) ==
  [r EXCEPT !.epoch = IF t > r.claimUntil THEN @ + 1 ELSE @,
            !.owner = w, !.claimUntil = t + ClaimDuration,
            !.state = IF @ = "Approved" THEN "Executing" ELSE @]

\* Renewing a claim that has not expired keeps the epoch.
Claimed(r, w, t) ==
  [r EXCEPT !.epoch = IF r.owner # w \/ t > r.claimUntil THEN @ + 1 ELSE @,
            !.owner = w, !.claimUntil = t + ClaimDuration,
            !.state = IF @ = "Approved" THEN "Executing" ELSE @]

\* The states Start acts on, apart from a Planned record's expiry.
MutReconciled(r) == r.state \in Claimable \union {"Planned"}

Reconciled(r) == r.state \in Claimable

Start(w, o) ==
  /\ proc[w].pc = "idle"
  /\ record[o].version < MaxVersion
  /\ \E t \in Clock :
       LET r == record[o] IN
       \/ /\ r.state = "Planned"
          /\ PlanExpired(r, t)
          /\ Call(w, "finish", o, [r EXCEPT !.state = "Expired"])
       \/ /\ Reconciled(r)
          /\ ~ClaimHeld(r, w, t)
          /\ Call(w, "claim", o, Claimed(r, w, t))
  /\ UNCHANGED <<now, record, target, orphans, effects, acks>>

ClaimWrite(w) ==
  LET f == proc[w] IN
  /\ f.pc = "claim"
  /\ Update(f)
  /\ IF Current(f) THEN Proceed(w, "reread") ELSE Return(w)
  /\ UNCHANGED <<now, target, orphans, effects, acks>>

\* The record is the worker's as long as owner and epoch are those it wrote.
HoldsClaim(f) ==
  record[f.op].owner = f.rec.owner /\ record[f.op].epoch = f.rec.epoch

\* From here on the worker works on the version it reads back, the base of
\* every later write of this reconcile.  A claim lost ends the reconcile; a
\* policy that no longer allows the target ends the operation.
Reread(w) ==
  LET f == proc[w] IN
  /\ f.pc = "reread"
  /\ \/ HoldsClaim(f) /\ w \in Denying
        /\ proc' = [proc EXCEPT ![w].pc = "finish",
                                ![w].rec = [record[f.op] EXCEPT
                                              !.state = "NeedsReview"]]
     \/ HoldsClaim(f) /\ w \notin Denying
        /\ proc' = [proc EXCEPT ![w].pc = "inspect", ![w].rec = record[f.op]]
     \/ ~HoldsClaim(f) /\ Return(w)
  /\ UNCHANGED <<now, record, target, orphans, effects, acks>>

-----------------------------------------------------------------------------
(* ReconcileOperation: what the live Deployment says.                       *)

IsTarget(d, r) == d.exists /\ d.uid = r.uid

HoldsIntent(d, r) == d.replicas = r.replicas /\ d.template = r.template

MutApplied(d, o, r) == IsTarget(d, r) /\ HoldsIntent(d, r)

\* The marker shows that the operation's patch reached the Deployment, the
\* spec that nobody has changed the reviewed intent since.
Applied(d, o, r) == IsTarget(d, r) /\ d.marker = o /\ HoldsIntent(d, r)

Overdue(r, t) == t - r.approvedAt > ExecutionWindow

\* Not applied yet, and nothing has changed since the review.
MayApply(d, o, r, t) ==
  /\ IsTarget(d, r) /\ d.marker # o
  /\ r.state # "Verifying"
  /\ d.rv = r.rv
  /\ ~Overdue(r, t)
  /\ d.paused => r.action = "scale"

VerifiedBy(d, o, r) == Applied(d, o, r) /\ Recovered(d)

\* Applied, and the rollout may still complete.
Recovering(d, o, r, t) ==
  Applied(d, o, r) /\ ~Recovered(d) /\ ~Stalled(d) /\ ~Overdue(r, t)

\* Everything else is left for a human.
Inspect(w) ==
  LET f == proc[w] IN
  /\ f.pc = "inspect"
  /\ \E t \in Clock :
       \/ VerifiedBy(target, f.op, f.rec) /\ Finish(w, "Succeeded")
       \/ /\ Recovering(target, f.op, f.rec, t)
          /\ IF f.rec.state = "Verifying" THEN Return(w)
                                          ELSE Finish(w, "Verifying")
       \/ MayApply(target, f.op, f.rec, t) /\ Proceed(w, "dryrun")
       \/ /\ ~VerifiedBy(target, f.op, f.rec)
          /\ ~Recovering(target, f.op, f.rec, t)
          /\ ~MayApply(target, f.op, f.rec, t)
          /\ Finish(w, "NeedsReview")
  /\ UNCHANGED <<now, record, target, orphans, effects, acks>>

-----------------------------------------------------------------------------
(* ReconcileOperation: the write.                                           *)

\* The server-side dry run of the patch.  The API server answers a failed
\* JSON-patch test as it answers invalid content, with status 422, and
\* admission may forbid the change at any time: both close the operation as
\* Failed.  Any other error, a deleted Deployment among them, only ends the
\* reconcile (GiveUp).
DryRun(w) ==
  LET f == proc[w] IN
  /\ f.pc = "dryrun"
  /\ \/ PatchTestsPass(target, f.rec) /\ Proceed(w, "recheck")
     \/ target.exists /\ Finish(w, "Failed")
  /\ UNCHANGED <<now, record, target, orphans, effects, acks>>

\* The claim is read once more before the write is dispatched.
Recheck(w) ==
  LET f == proc[w] IN
  /\ f.pc = "recheck"
  /\ \E t \in Clock :
       IF HoldsClaim(f) /\ t <= record[f.op].claimUntil
         THEN Proceed(w, "prepare")
         ELSE Return(w)
  /\ UNCHANGED <<now, record, target, orphans, effects, acks>>

\* patchDurable reads the Deployment again, for the annotations to keep.
Prepare(w) ==
  /\ proc[w].pc = "prepare"
  /\ target.exists
  /\ proc' = [proc EXCEPT ![w].pc = "patch", ![w].annRv = target.rv]
  /\ UNCHANGED <<now, record, target, orphans, effects, acks>>

\* An accepted patch is followed by its receipt; a failed one ends the
\* reconcile, and the next one looks at the Deployment again.
Patch(w) ==
  LET f == proc[w] IN
  /\ f.pc = "patch"
  /\ ApplyPatch(f)
  /\ IF PatchTestsPass(target, f.rec) THEN Finish(w, "Verifying") ELSE Return(w)
  /\ UNCHANGED <<now, record, orphans, acks>>

\* The final update of a reconcile, or of an approval that came too late.
FinishWrite(p) ==
  /\ proc[p].pc = "finish"
  /\ Update(proc[p])
  /\ Return(p)
  /\ UNCHANGED <<now, target, orphans, effects, acks>>

-----------------------------------------------------------------------------
(* Failures and the rest of the cluster.                                    *)

\* What becomes of the request p was waiting for: nothing, or it travels on.
Abandon(p) ==
  \/ UNCHANGED orphans
  \/ /\ proc[p].pc \in Sending
     /\ Cardinality(orphans) < MaxOrphans
     /\ orphans' = orphans \union {proc[p]}

\* A call returns an error, runs into the deadline of its context, or its
\* process crashes: a crashed incarnation is one that never starts again.
GiveUp(p) ==
  /\ proc[p] # Idle
  /\ Abandon(p)
  /\ Return(p)
  /\ UNCHANGED <<now, record, target, effects, acks>>

\* An abandoned request reaches the API server after all.
OrphanLands(f) ==
  /\ orphans' = orphans \ {f}
  /\ IF f.pc = "patch" THEN ApplyPatch(f) /\ UNCHANGED record
                       ELSE Update(f) /\ UNCHANGED <<target, effects>>
  /\ UNCHANGED <<now, proc, acks>>

\* Everyone else who writes to the Deployment.
TargetChanges ==
  /\ target.rv < MaxRv
  /\ ExternalWrite(target, target')
  /\ UNCHANGED <<now, record, proc, orphans, effects, acks>>

Tick ==
  /\ now < MaxTime
  /\ now' = now + 1
  /\ UNCHANGED <<record, target, proc, orphans, effects, acks>>

-----------------------------------------------------------------------------
\* What "recovered" means to a user, independently of the code: the reviewed
\* Deployment carries the operation's marker and intent, its controller has
\* seen that spec, and every replica is updated and available.
InFullHealth(d, o, r) ==
  /\ d.exists /\ d.uid = r.uid /\ d.marker = o
  /\ d.replicas = r.replicas /\ d.template = r.template
  /\ d.observed /\ ~d.paused /\ d.health = "Available"

Observe ==
  recovered' = recovered \union {o \in Op : InFullHealth(target', o, record'[o])}

WorkerStep(w) ==
  \/ \E o \in Op : Start(w, o)
  \/ ClaimWrite(w) \/ Reread(w) \/ Inspect(w) \/ DryRun(w) \/ Recheck(w)
  \/ Prepare(w) \/ Patch(w) \/ FinishWrite(w)

RequestStep(q) ==
  \/ \E a \in Actor, o \in Op : ApproveRead(q, a, o)
  \/ ApproveWrite(q) \/ FinishWrite(q)

Step ==
  \/ \E o \in Op : SaveDurablePlan(o)
  \/ \E q \in Request : RequestStep(q)
  \/ \E w \in Worker : WorkerStep(w)
  \/ \E p \in Process : GiveUp(p)
  \/ \E f \in orphans : OrphanLands(f)
  \/ TargetChanges
  \/ Tick

Next == Step /\ Observe

Spec == Init /\ [][Next]_vars

-----------------------------------------------------------------------------
(* Properties.                                                              *)

\* Every stored record decodes to a valid one (decodeDurable refuses a record
\* without target identity), only workers hold claims in flight, and only
\* requests approve.
TypeOK ==
  /\ now \in Nat
  /\ record \in [Op -> Saved \union {NoRecord}]
  /\ target \in Object
  /\ proc \in [Process -> Frame \union {Idle}]
  /\ \A w \in Worker : proc[w].pc # "approve"
  /\ \A q \in Request : proc[q].pc \in {"idle", "approve", "finish"}
  /\ orphans \subseteq {f \in Frame : f.pc \in Sending}
  /\ effects \in [Op -> Nat]
  /\ acks \subseteq Actor \X Op
  /\ recovered \subseteq Op

\* However workers crash, lose their claim or retry, and however late a
\* request arrives, the patch of an operation takes effect at most once:
\* "the original change is never retried" (docs/durable-operations.md).
AtMostOneEffect == \A o \in Op : effects[o] <= 1

\* Nothing reaches the Deployment that was not approved, by a named actor and
\* within the approval window of its plan.
EffectWasApproved ==
  \A o \in Op : effects[o] > 0 =>
    /\ record[o].actor # None
    /\ record[o].approvedAt - record[o].createdAt <= PlanWindow

\* The patch writes the marker and one half of the intent.  When it takes
\* effect, the other half still is what was reviewed, so the Deployment as a
\* whole is the one the reviewer agreed to, and it is not a paused one that
\* would silently hold back a new template.
EffectIsReviewedIntent ==
  [][\A o \in Op : effects'[o] # effects[o] =>
       /\ target'.uid = record[o].uid /\ target'.marker = o
       /\ target'.replicas = record[o].replicas
       /\ target'.template = record[o].template
       /\ target'.paused => record[o].action = "scale"]_vars

\* Requests that may still change the cluster or a record.
InFlight ==
  {proc[p] : p \in {p \in Process : proc[p].pc \in Sending}} \union orphans

\* The patch replaces all annotations by those of an earlier read.  While it
\* can still take effect, they are the current ones: nobody's annotation is
\* lost, although patchDurable reads at one moment and writes at another.
NoLostAnnotations ==
  \A f \in InFlight :
    f.pc = "patch" /\ PatchTestsPass(target, f.rec) => f.annRv = target.rv

\* Claims are fenced.  The epoch never goes back, and a claim passes to
\* another worker only with a higher epoch and, by the clock of the new owner,
\* once it has expired.  So no receipt of a former owner, which carries an
\* older epoch, is ever stored over the claim of its successor.
ClaimsAreFenced ==
  [][\A o \in Op :
       /\ record'[o].epoch >= record[o].epoch
       /\ record'[o].owner # record[o].owner =>
            /\ record'[o].epoch > record[o].epoch
            /\ record[o].claimUntil <= now + Skew]_vars

\* A terminal record is never written again, by nobody's late update.
TerminalIsFinal ==
  [][\A o \in Op : record[o].state \in Terminal => record'[o] = record[o]]_vars

\* Two approvers may race for a plan, and an approval may be repeated.  Whoever
\* was answered with the record stays the actor the audit shows.
AckedApproverIsRecorded ==
  \A ack \in acks : record[ack[2]].actor = ack[1]

\* Success is only reported for an operation whose patch took effect and whose
\* target was, at some moment, seen in full health with the reviewed intent.
SuccessWasObserved ==
  \A o \in Op : record[o].state = "Succeeded" =>
    effects[o] = 1 /\ o \in recovered

\* The records and effects of this system behave as OperationLifecycle says.
Lifecycle ==
  INSTANCE OperationLifecycle
    WITH state <- [o \in Op |-> record[o].state],
         applied <- {o \in Op : effects[o] > 0}

ImplementsLifecycle == Lifecycle!Spec

\* What is to be done, by the record.
Change(r) == [action |-> r.action, replicas |-> r.replicas, template |-> r.template]

\* An approval is the one use of a review.  That what reaches the cluster is the
\* change of the record is EffectIsReviewedIntent.
Reviewed ==
  INSTANCE ReviewedChange
    WITH Plan <- Op,
         Asked <- [action : Action, replicas : Replicas, template : Template],
         None <- Change(NoRecord),
         reviewed <- [o \in Op |-> Change(record[o])],
         spent <- {o \in Op : record[o].actor # None},
         effect <- [o \in Op |-> Change(IF effects[o] > 0 THEN record[o] ELSE NoRecord)]

\* Durable operations keep the promise of every guarded operation.
ImplementsReviewedChange == Reviewed!Spec

\* Of the two abstract specifications one has the states of a record and when the
\* change may come, the other which change and by whose leave.
KeepsItsPromises == ImplementsLifecycle /\ ImplementsReviewedChange

\* docs/durable-operations.md: deletion, drift and a superseding change lead
\* to NeedsReview, while Failed means that the final admission check rejected
\* the change.  Then a Failed operation has not changed anything.
FailedHasNoEffect ==
  \A o \in Op : record[o].state = "Failed" => effects[o] = 0
=============================================================================
