--------------------------- MODULE GuardedOperations ---------------------------
(***************************************************************************)
(* Guarded operations without the durable store: reviewed plans are kept   *)
(* in the memory of the API process that made them, an execution uses its  *)
(* plan up and changes the Deployment itself, and receipts are kept in a   *)
(* short list (api/internal/kubernetes/operations.go, with the handlers of *)
(* api/internal/httpapi/router.go in front).                               *)
(*                                                                         *)
(* One action stands for one call to the API server and the local code up  *)
(* to the next one; what happens under a mutex is part of one action.      *)
(***************************************************************************)
EXTENDS Naturals, Sequences, FiniteSets

CONSTANTS
  Plan,        \* plan IDs
  Asked,       \* changes one can ask for: see Request
  Execution,   \* execute requests, repeated and duplicated ones included
  Process,     \* API processes, each with a plan store of its own
  User,        \* identities the load balancer can vouch for
  Template,    \* pod templates a rollback can restore
  None,        \* absent
  Production,  \* cfg.Environment is production
  Namespaces,  \* c.operations: namespaces, and the range of replicas
  MinReplicas, MaxReplicas,
  MaxPlans,    \* plans kept by a process (100)
  MaxAudit,    \* receipts kept by a process (50)
  TTL,         \* life of a plan (five minutes)
  MaxTime,     \* bound on the clock
  MaxVersion,  \* bound on the writes of others
  MaxCrashes   \* bound on the restarts

ASSUME GuardedBounds ==
  /\ MaxPlans \in Nat \ {0} /\ MaxAudit \in Nat \ {0} /\ TTL \in Nat
  /\ MaxTime \in Nat /\ MaxVersion \in Nat /\ MaxCrashes \in Nat

ASSUME GuardedNames ==
  None \notin Plan \union Asked \union User \union Process \union Template

VARIABLES
  now,      \* the clock: monotonic, and no two plans share a reading
  target,   \* the Deployment: its resourceVersion, and whether it is paused
  previous, \* the template of its previous revision
  plan,     \* [Plan -> what was reviewed], NoPlan before
  store,    \* [Process -> IDs in c.plans.entries]
  audit,    \* [Process -> executions with a receipt, the newest first]
  exec,     \* [Execution -> the request and how far its handler is]
  orphans,  \* executions whose applying call was given up in flight
  effects,  \* history: what changed the Deployment
  lost,     \* history: plans and executions a restart made its process forget
  crashes

cluster == <<target, previous>>
memory == <<plan, store, audit>>
history == <<effects, lost>>
vars == <<now, cluster, memory, exec, orphans, history, crashes>>

-----------------------------------------------------------------------------
(* A change that is asked for has a namespace, a kind, a name, a reason     *)
(* ("fit" when it has 8 to 200 characters), an action and, possibly,        *)
(* replicas.  The checks of validateOperation, in their order.              *)

Denials(c) ==
  << <<"namespace_denied", c.namespace \notin Namespaces>>,
     <<"kind_denied", c.kind # "Deployment">>,
     <<"invalid_target", c.name = None>>,
     <<"invalid_reason", c.reason # "fit">>,
     <<"action_denied", c.action \notin {"restart", "scale", "rollback"}>>,
     <<"invalid_replicas", c.action = "scale"
                             /\ c.replicas \notin MinReplicas..MaxReplicas>> >>

\* The answer of the first check that fails, or "ok".
FirstOf(checks) ==
  LET failed == {i \in DOMAIN checks : checks[i][2]}
  IN  IF failed = {} THEN "ok"
      ELSE checks[CHOOSE i \in failed : \A j \in failed : i <= j][1]

Denial(c) == FirstOf(Denials(c))

\* operationActor: only a production deployment asks who it is.
Actor(f) == IF Production THEN f.user ELSE "local-operator"

\* An execute request: a missing review header, an unreadable body, or a
\* plan, the version of some plan (0: none) and the change itself.
Form ==
  [flaw : {"ok", "review_required", "invalid_request"},
   user : User \union {None}, plan : Plan \union {None},
   version : {0} \union {plan[o].version : o \in Plan}, asked : Asked]

MutRefusals(f) ==
  << <<f.flaw, f.flaw # "ok">>,
     <<"plan_required", f.plan = None \/ f.version = 0>>,
     <<Denial(f.asked), Denial(f.asked) # "ok">> >>

\* What the handler and ExecuteOperation refuse before they look for a plan.
Refusals(f) ==
  << <<f.flaw, f.flaw # "ok">>,
     <<"actor_required", Actor(f) = None>>,
     <<"plan_required", f.plan = None \/ f.version = 0>>,
     <<Denial(f.asked), Denial(f.asked) # "ok">> >>

Refusal(f) == FirstOf(Refusals(f))

\* Answers of executions that have not used up a plan.
Unspent ==
  {"review_required", "invalid_request", "actor_required", "plan_required",
   "namespace_denied", "kind_denied", "invalid_target", "invalid_reason",
   "action_denied", "invalid_replicas", "plan_invalid", "plan_mismatch"}

NoPlan == [asked |-> None, version |-> 0, restores |-> None,
           created |-> 0, on |-> None]

Waiting == [at |-> "waiting", on |-> None, plan |-> None, version |-> 0,
            asked |-> None, restores |-> None, actor |-> None, used |-> 0,
            answer |-> "none"]

Init ==
  /\ now = 0
  /\ target = [exists |-> TRUE, version |-> 1, paused |-> FALSE]
  /\ previous \in Template
  /\ plan = [o \in Plan |-> NoPlan]
  /\ store = [p \in Process |-> {}]
  /\ audit = [p \in Process |-> <<>>]
  /\ exec = [r \in Execution |-> Waiting]
  /\ orphans = {} /\ effects = {} /\ lost = {} /\ crashes = 0

-----------------------------------------------------------------------------
(* Planning.                                                                *)

Fresh(p) == {o \in store[p] : now - plan[o].created <= TTL}

MutKept(p, kept) ==
  IF Cardinality(Fresh(p)) >= MaxPlans
    THEN \E old \in Fresh(p) : kept = Fresh(p) \ {old}
    ELSE kept = Fresh(p)

\* What rememberOperationPlan keeps of the store before it adds a plan: no
\* expired one, and at the limit not the oldest one either.
Kept(p, kept) ==
  IF Cardinality(Fresh(p)) >= MaxPlans
    THEN \E old \in Fresh(p) :
           /\ \A o \in Fresh(p) : plan[old].created <= plan[o].created
           /\ kept = Fresh(p) \ {old}
    ELSE kept = Fresh(p)

\* The Deployment is read, a rollback looks up the previous template, and
\* the dry run passes.  A refused planning changes nothing.
PlanOperation(p, o, c) ==
  /\ plan[o] = NoPlan /\ now < MaxTime
  /\ Denial(c) = "ok"
  /\ target.exists
  /\ target.paused => c.action = "scale"
  /\ plan' = [plan EXCEPT ![o] =
       [asked |-> c, version |-> target.version, created |-> now, on |-> p,
        restores |-> IF c.action = "rollback" THEN previous ELSE None]]
  /\ \E kept \in SUBSET Plan :
       /\ Kept(p, kept)
       /\ store' = [store EXCEPT ![p] = kept \union {o}]
  /\ now' = now + 1
  /\ UNCHANGED <<cluster, audit, exec, orphans, history, crashes>>

-----------------------------------------------------------------------------
(* Execution.                                                               *)

Goto(r, next) == exec' = [exec EXCEPT ![r].at = next]

Answer(r, code) ==
  exec' = [exec EXCEPT ![r].at = "answered", ![r].answer = code]

Refuse(r, f) ==
  /\ exec[r].at = "waiting"
  /\ Refusal(f) # "ok"
  /\ Answer(r, Refusal(f))
  /\ UNCHANGED <<now, cluster, memory, orphans, history, crashes>>

MutMismatch(p, f) ==
  FirstOf(<< <<"plan_invalid", f.plan \notin store[p]>>,
             <<"plan_invalid", now - plan[f.plan].created > TTL>>,
             <<"plan_invalid", f.version # plan[f.plan].version>> >>)

\* consumeOperationPlan: whatever it finds wrong, the plan is gone.
Verdict(p, f) ==
  FirstOf(<< <<"plan_invalid", f.plan \notin store[p]>>,
             <<"plan_invalid", now - plan[f.plan].created > TTL>>,
             <<"plan_invalid", f.version # plan[f.plan].version>>,
             <<"plan_mismatch", f.asked # plan[f.plan].asked>> >>)

MutRemoved(p, f) ==
  IF Verdict(p, f) = "ok" THEN store[p] ELSE store[p] \ {f.plan}

Removed(p, f) == store[p] \ {f.plan}

Consume(r, p, f) ==
  /\ exec[r].at = "waiting"
  /\ Refusal(f) = "ok"
  /\ store' = [store EXCEPT ![p] = Removed(p, f)]
  /\ exec' = [exec EXCEPT ![r] =
       [at |-> IF Verdict(p, f) = "ok" THEN "read" ELSE "answered",
        on |-> p, plan |-> f.plan, version |-> f.version, asked |-> f.asked,
        restores |-> plan[f.plan].restores, actor |-> Actor(f), used |-> now,
        answer |-> IF Verdict(p, f) = "ok" THEN "none" ELSE Verdict(p, f)]]
  /\ UNCHANGED <<now, cluster, plan, audit, orphans, history, crashes>>

\* Any call to the API server can fail or outlast the twelve seconds.
Read(r) ==
  /\ exec[r].at = "read"
  /\ \/ target.exists /\ target.version = exec[r].version /\ Goto(r, "dryrun")
     \/ target.exists /\ target.version # exec[r].version
          /\ Answer(r, "stale_plan")
     \/ Answer(r, "target_unavailable")
  /\ UNCHANGED <<now, cluster, memory, orphans, history, crashes>>

MutMatches(r) == target.exists

\* The resourceVersion a scale, a merge patch or a JSON patch is sent with.
Matches(r) == target.exists /\ target.version = exec[r].version

\* applyOperation reaches the Deployment.  A scale to the number there is, or
\* a rollback to the same template, leaves the resourceVersion.
Land(r) ==
  /\ Matches(r)
  /\ \E v \in {target.version, target.version + 1} :
       /\ v = target.version => exec[r].asked.action # "restart"
       /\ target' = [target EXCEPT !.version = v]
  /\ effects' = effects \union
       {[by |-> r, plan |-> exec[r].plan, asked |-> exec[r].asked,
         restores |-> exec[r].restores, version |-> target.version,
         paused |-> target.paused]}
  /\ UNCHANGED <<previous, lost>>

MutDryRun(r) ==
  /\ exec[r].at = "dryrun"
  /\ \/ Land(r) /\ Goto(r, "apply")
     \/ Land(r) /\ Answer(r, "dry_run_rejected")
     \/ Answer(r, "dry_run_rejected") /\ UNCHANGED <<cluster, history>>
  /\ UNCHANGED <<now, memory, orphans, crashes>>

DryRun(r) ==
  /\ exec[r].at = "dryrun"
  /\ (Matches(r) /\ Goto(r, "apply")) \/ Answer(r, "dry_run_rejected")
  /\ UNCHANGED <<now, cluster, memory, orphans, history, crashes>>

\* The call is answered; it fails, having had an effect or not; or it is
\* given up while it is still on its way.
Apply(r) ==
  /\ exec[r].at = "apply"
  /\ \/ Land(r) /\ Goto(r, "record") /\ UNCHANGED orphans
     \/ Land(r) /\ Answer(r, "execution_failed") /\ UNCHANGED orphans
     \/ /\ Answer(r, "execution_failed")
        /\ orphans' \in {orphans, orphans \union {r}}
        /\ UNCHANGED <<cluster, history>>
  /\ UNCHANGED <<now, memory, crashes>>

OrphanLands(r) ==
  /\ r \in orphans /\ orphans' = orphans \ {r}
  /\ Land(r) \/ UNCHANGED <<cluster, history>>
  /\ UNCHANGED <<now, memory, exec, crashes>>

\* appendOperation, and the answer 202.
Listed(p, r) ==
  IF Len(audit[p]) < MaxAudit THEN <<r>> \o audit[p]
                              ELSE SubSeq(<<r>> \o audit[p], 1, MaxAudit)

Record(r) ==
  /\ exec[r].at = "record"
  /\ audit' = [audit EXCEPT ![exec[r].on] = Listed(exec[r].on, r)]
  /\ Answer(r, "accepted")
  /\ UNCHANGED <<now, cluster, plan, store, orphans, history, crashes>>

-----------------------------------------------------------------------------
(* The rest of the world.                                                   *)

Tick ==
  /\ now < MaxTime /\ now' = now + 1
  /\ UNCHANGED <<cluster, memory, exec, orphans, history, crashes>>

\* Somebody edits, pauses, deletes or recreates the Deployment, or its
\* controller writes its status; old ReplicaSets are pruned without that.
TargetChanges ==
  /\ \/ /\ target.version <= MaxVersion
        /\ \E e, z \in BOOLEAN :
             target' = [exists |-> e, version |-> target.version + 1,
                        paused |-> z]
        /\ UNCHANGED previous
     \/ previous' \in Template \ {previous} /\ UNCHANGED target
  /\ UNCHANGED <<now, memory, exec, orphans, history, crashes>>

\* A process restarts and forgets.  An applying call may be on its way.
Crash(p) ==
  LET running == {r \in Execution : exec[r].on = p /\ exec[r].at # "answered"}
  IN  /\ crashes < MaxCrashes /\ crashes' = crashes + 1
      /\ store' = [store EXCEPT ![p] = {}]
      /\ audit' = [audit EXCEPT ![p] = <<>>]
      /\ lost' = lost \union store[p] \union {r \in Execution : exec[r].on = p}
      /\ exec' = [r \in Execution |->
                    IF r \in running THEN [exec[r] EXCEPT !.at = "answered"]
                                     ELSE exec[r]]
      /\ \E late \in SUBSET {r \in running : exec[r].at = "apply"} :
           orphans' = orphans \union late
      /\ UNCHANGED <<now, cluster, plan, effects>>

Handle(r) == Read(r) \/ DryRun(r) \/ Apply(r) \/ Record(r)

Next ==
  \/ \E p \in Process, o \in Plan, c \in Asked : PlanOperation(p, o, c)
  \/ \E r \in Execution, f \in Form : Refuse(r, f)
  \/ \E r \in Execution, p \in Process, f \in Form : Consume(r, p, f)
  \/ \E r \in Execution : Handle(r) \/ OrphanLands(r)
  \/ \E p \in Process : Crash(p)
  \/ TargetChanges
  \/ Tick

Spec == Init /\ [][Next]_vars

-----------------------------------------------------------------------------
(* Properties.                                                              *)

\* Whether the execution got hold of its plan.
Spent(r) == exec[r].at # "waiting" /\ exec[r].answer \notin Unspent

Codes ==
  Unspent \union {"none", "target_unavailable", "stale_plan",
                  "dry_run_rejected", "execution_failed", "accepted"}

Planned ==
  [asked : Asked, version : Nat \ {0}, created : Nat, on : Process,
   restores : Template \union {None}]

Frame ==
  [at : {"read", "dryrun", "apply", "record", "answered"}, on : Process,
   plan : Plan, version : Nat, asked : Asked,
   restores : Template \union {None},
   actor : User \union {"local-operator"}, used : Nat, answer : Codes]

\* A request that has not come to its plan.
Unserved ==
  [at : {"waiting", "answered"}, on : {None}, plan : {None}, version : {0},
   asked : {None}, restores : {None}, actor : {None}, used : {0},
   answer : Unspent \union {"none"}]

\* A store holds plans that were made, a request in progress has passed every
\* check before its plan, and only such a request can be late.
TypeOK ==
  /\ now \in Nat /\ crashes \in Nat
  /\ target \in [exists : BOOLEAN, version : Nat \ {0}, paused : BOOLEAN]
  /\ previous \in Template
  /\ plan \in [Plan -> Planned \union {NoPlan}]
  /\ store \in [Process -> SUBSET {o \in Plan : plan[o] # NoPlan}]
  /\ audit \in [Process -> Seq(Execution)]
  /\ exec \in [Execution -> Frame \union Unserved]
  /\ orphans \subseteq {r \in Execution : exec[r] \in Frame /\ exec[r].at = "answered"}
  /\ \A e \in effects : e.by \in Execution /\ exec[e.by] \in Frame
  /\ lost \subseteq Plan \union Execution

\* "a five-minute, single-use plan" (docs/runbook.md): however often a request
\* is repeated, and at whichever process, one execution at most gets hold of a
\* plan, in its five minutes, and no store offers that plan again.
SingleUse ==
  \A r \in Execution : Spent(r) =>
    /\ exec[r].used - plan[exec[r].plan].created <= TTL
    /\ \A p \in Process : exec[r].plan \notin store[p]
    /\ \A q \in Execution : Spent(q) /\ exec[q].plan = exec[r].plan => q = r

\* "bound to the exact target, action, parameters, reason, and Kubernetes
\* resource version" (docs/runbook.md).  Whatever changed the Deployment, even
\* a late request, is what was reviewed: the change, the very template a
\* rollback showed, on the object the reviewer saw, which was not paused under
\* a new template.
EffectAsReviewed ==
  \A e \in effects :
    /\ Spent(e.by)
    /\ e.asked = plan[e.plan].asked
    /\ e.restores = plan[e.plan].restores
    /\ e.version = plan[e.plan].version
    /\ e.paused => e.asked.action = "scale"

\* The answer 202 means that the change was made, and any refusal but
\* execution_failed that it was not and will not be by this request.
AnswersAreTrue ==
  \A r \in Execution :
    /\ exec[r].answer = "accepted" => \E e \in effects : e.by = r
    /\ exec[r].answer \notin {"accepted", "execution_failed", "none"} =>
         r \notin orphans /\ \A e \in effects : e.by # r

\* A receipt names a change that was made, once; and while its process lives,
\* whoever was answered 202 is on the list unless the list is full.
ReceiptsAreTrue ==
  \A p \in Process :
    /\ \A i \in 1..Len(audit[p]) :
         /\ exec[audit[p][i]].on = p
         /\ \E e \in effects : e.by = audit[p][i]
         /\ \A j \in 1..Len(audit[p]) : audit[p][i] = audit[p][j] => i = j
    /\ \A r \in Execution \ lost :
         exec[r].on = p /\ exec[r].answer = "accepted" =>
           \/ \E i \in 1..Len(audit[p]) : audit[p][i] = r
           \/ Len(audit[p]) = MaxAudit

\* The store is bounded, and a plan nobody tried to execute is there until it
\* expires, unless its process restarts or as many plans as the store holds
\* were made after it.
PlansAreKept ==
  /\ \A p \in Process : Cardinality(store[p]) <= MaxPlans
  /\ \A o \in Plan \ lost :
       LET p == plan[o].on
           newer == {n \in Plan : plan[n].on = p
                                    /\ plan[n].created > plan[o].created}
       IN  \/ plan[o] = NoPlan
           \/ o \in store[p]
           \/ now - plan[o].created > TTL
           \/ \E r \in Execution : exec[r].plan = o
           \/ Cardinality(newer) >= MaxPlans

\* A process keeps what it promised in memory: the plans that can still be used,
\* and the receipts of what it changed (operations.go:171 and 285-303).
MemoryIsKept == PlansAreKept /\ ReceiptsAreTrue

\* Only one execution can have changed anything under a plan.
EffectOf(o) ==
  IF \E e \in effects : e.plan = o
    THEN (CHOOSE e \in effects : e.plan = o).asked
    ELSE None

Reviewed ==
  INSTANCE ReviewedChange
    WITH reviewed <- [o \in Plan |-> plan[o].asked],
         spent <- {exec[r].plan : r \in {r \in Execution : Spent(r)}},
         effect <- [o \in Plan |-> EffectOf(o)]

\* Plans in memory keep the promise of every guarded operation.
ImplementsReviewedChange == Reviewed!Spec

\* operations.go:171 reports "Kubernetes rejected the operation": then the
\* operation has not changed anything.
RejectedHasNoEffect ==
  \A r \in Execution : exec[r].answer = "execution_failed" =>
    \A e \in effects : e.by # r
=============================================================================
