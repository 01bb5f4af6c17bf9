-------------------------- MODULE OperationController --------------------------
(***************************************************************************)
(* What brings a durable operation back to a worker                        *)
(* (api/internal/kubernetes/operation_controller.go).                      *)
(*                                                                         *)
(* Each API process watches the operation records and the Deployments they *)
(* are about, and turns events, resyncs, timers and errors into items of a *)
(* work queue with one worker.  By default only the process that holds a   *)
(* Lease works.  A process that loses it exits and is started again.       *)
(*                                                                         *)
(* How a reconcile talks to the API server, and what it may write when, is *)
(* DurableOperations.  Here a reconcile has three points at which it can   *)
(* be cut off: its claim, the change of state that follows, and the read   *)
(* after it that decides about the next visit.                             *)
(***************************************************************************)
EXTENDS Naturals

CONSTANTS
  Op,            \* plan IDs
  Process,       \* API processes, restarted whenever they exit
  ActiveActive,  \* c.durable.activeActive: every process works
  None,          \* no operation, no process
  Former,        \* the claim or lease of an incarnation that is gone
  MaxOutages,    \* bound on the periods in which API calls may fail
  MaxCrashes,    \* bound on the crashes of processes
  MaxDeletions   \* bound on the deletions of each target

ASSUME ControllerNames ==
  None \notin Op \union Process /\ Former \notin Process /\ None # Former

ASSUME ControllerBounds ==
  ActiveActive \in BOOLEAN /\ MaxOutages \in Nat /\ MaxCrashes \in Nat
    /\ MaxDeletions \in Nat

VARIABLES
  state,      \* [Op -> the state in the record]
  overdue,    \* operations whose window (to be approved, to recover) is over
  claim,      \* [Op -> the owner of its unexpired claim]
  target,     \* [Op -> what became of the Deployment that was reviewed]
  deletions,  \* [Op -> how often its target was deleted]
  api,        \* whether calls to the API server can fail
  outages,    \* how many such periods there were
  lease,      \* the holder of the unexpired election lease
  crashes,    \* how many processes crashed
  status,     \* [Process -> whether it runs workers]
  cached,     \* [Process -> the states its operation informer knows]
  watched,    \* [Process -> operations whose target its informer knows]
  queue,      \* [Process -> items to be done]
  waiting,    \* [Process -> items to be added after a delay]
  job         \* [Process -> the item its worker is at, and where]

records == <<state, overdue, claim>>
world == <<target, deletions, api, outages>>
processes == <<lease, crashes, status>>
informers == <<cached, watched>>
items == <<queue, waiting, job>>

vars == <<records, world, processes, informers, items>>

-----------------------------------------------------------------------------
Terminal == {"Succeeded", "Failed", "Expired", "NeedsReview"}

Claimable == {"Approved", "Executing", "Verifying"}

\* Claimed once, and not closed yet.
Underway == {"Executing", "Verifying"}

Pending == {"Planned"} \union Claimable

State == {"Absent"} \union Pending \union Terminal

Idle == [op |-> None, at |-> "idle"]

Working(p) == status[p] = "working"

Init ==
  /\ state = [o \in Op |-> "Absent"]
  /\ overdue = {}
  /\ claim = [o \in Op |-> None]
  /\ target = [o \in Op |-> "reviewed"]
  /\ deletions = [o \in Op |-> 0]
  /\ api = "up" /\ outages = 0
  /\ lease = None /\ crashes = 0
  /\ status = [p \in Process |-> "standby"]
  /\ cached = [p \in Process |-> [o \in Op |-> "Absent"]]
  /\ watched = [p \in Process |-> {}]
  /\ queue = [p \in Process |-> {}]
  /\ waiting = [p \in Process |-> {}]
  /\ job = [p \in Process |-> Idle]

-----------------------------------------------------------------------------
(* Requests of users, in any process, and the passing of time.              *)

Plan(o) ==
  /\ state[o] = "Absent" /\ target[o] = "reviewed"
  /\ state' = [state EXCEPT ![o] = "Planned"]
  /\ UNCHANGED <<overdue, claim, world, processes, informers, items>>

\* A late approval is refused, and closes the plan.
Approve(o) ==
  /\ state[o] = "Planned"
  /\ state' = [state EXCEPT ![o] =
                 IF o \in overdue THEN "Expired" ELSE "Approved"]
  /\ UNCHANGED <<overdue, claim, world, processes, informers, items>>

\* Five minutes after planning, or ten after the approval.
TimePasses(o) ==
  /\ state[o] \in Pending /\ o \notin overdue
  /\ overdue' = overdue \union {o}
  /\ UNCHANGED <<state, claim, world, processes, informers, items>>

\* A claim lasts 15 s and a reconcile at most 8 s from its start: no claim
\* expires while the reconcile that took it is still running.
ClaimExpires(o) ==
  /\ claim[o] # None
  /\ \A p \in Process : claim[o] = p => job[p] # [op |-> o, at |-> "settle"]
  /\ claim' = [claim EXCEPT ![o] = None]
  /\ UNCHANGED <<state, overdue, world, processes, informers, items>>

(* The cluster.                                                             *)

TargetChanges(o) ==
  /\ \/ /\ target[o] # "gone" /\ deletions[o] < MaxDeletions
        /\ target' = [target EXCEPT ![o] = "gone"]
        /\ deletions' = [deletions EXCEPT ![o] = @ + 1]
     \/ /\ target[o] = "gone"
        /\ target' = [target EXCEPT ![o] = "replaced"]
        /\ UNCHANGED deletions
  /\ UNCHANGED <<records, api, outages, processes, informers, items>>

ApiFails ==
  /\ api = "up" /\ outages < MaxOutages
  /\ api' = "flaky" /\ outages' = outages + 1
  /\ UNCHANGED <<records, target, deletions, processes, informers, items>>

ApiRecovers ==
  /\ api = "flaky" /\ api' = "up"
  /\ UNCHANGED <<records, target, deletions, outages, processes, informers,
                 items>>

-----------------------------------------------------------------------------
(* Processes.                                                               *)

\* Without a leader anyone may acquire the lease; the workers start with the
\* lists of the informers, and every pending record listed is added.
Start(p) ==
  /\ ~Working(p)
  /\ IF ActiveActive THEN UNCHANGED lease ELSE lease = None /\ lease' = p
  /\ status' = [status EXCEPT ![p] = "working"]
  /\ cached' = [cached EXCEPT ![p] = state]
  /\ watched' = [watched EXCEPT ![p] = {o \in Op : target[o] # "gone"}]
  /\ queue' = [queue EXCEPT ![p] = {o \in Op : state[o] \in Pending}]
  /\ UNCHANGED <<records, world, crashes, waiting, job>>

\* Nothing outlives a process: its queue, timers and caches are gone, and its
\* next incarnation owns neither its claims nor its lease.
Exit(p) ==
  /\ Working(p)
  /\ status' = [status EXCEPT ![p] = "standby"]
  /\ claim' = [o \in Op |-> IF claim[o] = p THEN Former ELSE claim[o]]
  /\ lease' = IF lease = p THEN Former ELSE lease
  /\ cached' = [cached EXCEPT ![p] = [o \in Op |-> "Absent"]]
  /\ watched' = [watched EXCEPT ![p] = {}]
  /\ queue' = [queue EXCEPT ![p] = {}]
  /\ waiting' = [waiting EXCEPT ![p] = {}]
  /\ job' = [job EXCEPT ![p] = Idle]
  /\ UNCHANGED <<state, overdue, world>>

\* The lease was lost, or could not be renewed in time.  The context of the
\* reconcile is cancelled, whatever it is doing.
StepDown(p) ==
  /\ ~ActiveActive /\ (lease # p \/ api = "flaky")
  /\ Exit(p) /\ UNCHANGED crashes

Crash(p) ==
  /\ crashes < MaxCrashes /\ crashes' = crashes + 1
  /\ Exit(p)

\* The lease is never released early.  It runs out when its holder is gone or
\* cannot renew it, in which case a suspended holder may still be working.
LeaseExpires ==
  /\ lease # None
  /\ lease = Former \/ api = "flaky"
  /\ lease' = None
  /\ UNCHANGED <<records, world, crashes, status, informers, items>>

-----------------------------------------------------------------------------
(* Events.                                                                  *)

MutRecordEvent(p, o) ==
  /\ Working(p) /\ cached[p][o] # state[o]
  /\ cached' = [cached EXCEPT ![p][o] = state[o]]
  /\ queue' = [queue EXCEPT ![p] =
                 IF cached[p][o] \in Pending THEN @ \union {o} ELSE @]
  /\ UNCHANGED <<records, world, processes, watched, waiting, job>>

\* The informer of the records catches up with the latest state.  Updates that
\* leave the state alone, as claim renewals and resyncs, are not news.
RecordEvent(p, o) ==
  /\ Working(p) /\ cached[p][o] # state[o]
  /\ cached' = [cached EXCEPT ![p][o] = state[o]]
  /\ queue' = [queue EXCEPT ![p] =
                 IF state[o] \in Pending THEN @ \union {o} ELSE @]
  /\ UNCHANGED <<records, world, processes, watched, waiting, job>>

MutDeploymentEvent(p, o) ==
  /\ Working(p)
  /\ (o \in watched[p]) # (target[o] # "gone")
  /\ watched' = [watched EXCEPT ![p] =
                   IF target[o] = "gone" THEN @ \ {o} ELSE @ \union {o}]
  /\ queue' = [queue EXCEPT ![p] =
                 IF cached[p][o] \in Pending THEN @ \union {o} ELSE @]
  /\ UNCHANGED <<records, world, processes, cached, waiting, job>>

\* The Deployment of an operation was added, changed or deleted, or is
\* resynced, every 30 s as long as the informer knows it.  Its records are
\* looked up in the index of the cached ones.
DeploymentEvent(p, o) ==
  /\ Working(p)
  /\ o \in watched[p] \/ target[o] # "gone"
  /\ watched' = [watched EXCEPT ![p] =
                   IF target[o] = "gone" THEN @ \ {o} ELSE @ \union {o}]
  /\ queue' = [queue EXCEPT ![p] =
                 IF cached[p][o] \in Pending THEN @ \union {o} ELSE @]
  /\ UNCHANGED <<records, world, processes, cached, waiting, job>>

TimerFires(p, o) ==
  /\ o \in waiting[p]
  /\ waiting' = [waiting EXCEPT ![p] = @ \ {o}]
  /\ queue' = [queue EXCEPT ![p] = @ \union {o}]
  /\ UNCHANGED <<records, world, processes, informers, job>>

-----------------------------------------------------------------------------
(* The worker.  An item added while it is being processed is queued again   *)
(* when it is done, and one added twice is done once: with a single worker, *)
(* a set is what the queue holds.                                           *)

Get(p, o) ==
  /\ Working(p) /\ job[p] = Idle /\ o \in queue[p]
  /\ queue' = [queue EXCEPT ![p] = @ \ {o}]
  /\ job' = [job EXCEPT ![p] = [op |-> o, at |-> "reconcile"]]
  /\ UNCHANGED <<records, world, processes, informers, waiting>>

At(p, o, place) == job[p] = [op |-> o, at |-> place]

Goto(p, place) == job' = [job EXCEPT ![p].at = place]

MutClaimedByOther(p, o) == claim[o] = Former

ClaimedByOther(p, o) == claim[o] \notin {None, p}

\* The reconcile ends without an error, having nothing to do ...
Skip(p, o) ==
  /\ At(p, o, "reconcile")
  /\ \/ state[o] \in Terminal
     \/ state[o] = "Planned" /\ o \notin overdue
     \/ state[o] \in Claimable /\ ClaimedByOther(p, o)
  /\ Goto(p, "reread")
  /\ UNCHANGED <<records, queue, waiting>>

\* ... or closing a plan nobody approved in time.
Expire(p, o) ==
  /\ At(p, o, "reconcile")
  /\ state[o] = "Planned" /\ o \in overdue
  /\ state' = [state EXCEPT ![o] = "Expired"]
  /\ Goto(p, "reread")
  /\ UNCHANGED <<overdue, claim, queue, waiting>>

Claim(p, o) ==
  /\ At(p, o, "reconcile")
  /\ state[o] \in Claimable /\ ~ClaimedByOther(p, o)
  /\ claim' = [claim EXCEPT ![o] = p]
  /\ state' = [state EXCEPT ![o] = IF @ = "Approved" THEN "Executing" ELSE @]
  /\ Goto(p, "settle")
  /\ UNCHANGED <<overdue, queue, waiting>>

MutRejected(o) ==
  IF target[o] # "reviewed" THEN {"NeedsReview"}
  ELSE {"Succeeded", "NeedsReview"}
         \union (IF o \in overdue THEN {} ELSE {"Verifying"})
         \union (IF o \notin overdue /\ state[o] = "Executing"
                   THEN {"Rejected"} ELSE {})

\* The states a claimed operation may be left in.  Once its window is over,
\* it is closed one way or the other.
Outcomes(o) ==
  IF target[o] # "reviewed" THEN {"NeedsReview"}
  ELSE {"Succeeded", "NeedsReview"}
         \union (IF o \in overdue THEN {} ELSE {"Verifying"})
         \union (IF o \notin overdue /\ state[o] = "Executing"
                   THEN {"Failed"} ELSE {})

Settle(p, o) ==
  /\ At(p, o, "settle")
  /\ \E s \in Outcomes(o) : state' = [state EXCEPT ![o] = s]
  /\ Goto(p, "reread")
  /\ UNCHANGED <<overdue, claim, queue, waiting>>

\* A call failed, with or without its effect, or the API server refused the
\* patch for a reason that is retried: back to the queue, rate limited.
MayFail(p, o) ==
  \/ At(p, o, "reconcile") /\ api = "flaky"
  \/ /\ At(p, o, "settle")
     /\ \/ api = "flaky"
        \/ target[o] = "reviewed" /\ o \notin overdue /\ state[o] = "Executing"

Effects(p, o) ==
  \/ UNCHANGED records
  \/ /\ At(p, o, "reconcile") /\ state[o] = "Planned" /\ o \in overdue
     /\ state' = [state EXCEPT ![o] = "Expired"] /\ UNCHANGED <<overdue, claim>>
  \/ /\ At(p, o, "settle") /\ api = "flaky"
     /\ \E s \in Outcomes(o) : state' = [state EXCEPT ![o] = s]
     /\ UNCHANGED <<overdue, claim>>

Retry(p, o) ==
  /\ MayFail(p, o) /\ Effects(p, o)
  /\ waiting' = [waiting EXCEPT ![p] = @ \union {o}]
  /\ job' = [job EXCEPT ![p] = Idle]
  /\ UNCHANGED queue

MutRevisit(p, o) ==
  /\ At(p, o, "reread")
  /\ job' = [job EXCEPT ![p] = Idle]
  /\ UNCHANGED <<records, queue, waiting>>

\* After a reconcile without error the record is read once more, and visited
\* again in three seconds unless it is terminal ...
Revisit(p, o) ==
  /\ At(p, o, "reread")
  /\ waiting' = [waiting EXCEPT ![p] =
                   IF state[o] \in Pending THEN @ \union {o} ELSE @]
  /\ job' = [job EXCEPT ![p] = Idle]
  /\ UNCHANGED <<records, queue>>

\* ... or unless that read fails.
Forget(p, o) ==
  /\ At(p, o, "reread") /\ api = "flaky"
  /\ job' = [job EXCEPT ![p] = Idle]
  /\ UNCHANGED <<records, queue, waiting>>

WorkerStep(p) ==
  /\ \E o \in Op :
       \/ Skip(p, o) \/ Expire(p, o) \/ Claim(p, o) \/ Settle(p, o)
       \/ Retry(p, o) \/ Revisit(p, o) \/ Forget(p, o)
  /\ UNCHANGED <<world, processes, informers>>

-----------------------------------------------------------------------------
Next ==
  \/ ApiFails \/ ApiRecovers \/ LeaseExpires
  \/ \E o \in Op :
       Plan(o) \/ Approve(o) \/ TimePasses(o) \/ ClaimExpires(o)
         \/ TargetChanges(o)
  \/ \E p \in Process :
       \/ Start(p) \/ StepDown(p) \/ Crash(p) \/ WorkerStep(p)
       \/ \E o \in Op :
            RecordEvent(p, o) \/ DeploymentEvent(p, o) \/ TimerFires(p, o)
              \/ Get(p, o)

\* Clocks run, leases and claims run out, processes are restarted, events and
\* timers arrive, workers work, and the API is reachable again some day.  The
\* queue is first in first out, so every item has its turn although others
\* come in between.  Nobody needs to approve, and nothing needs to fail.
Fairness ==
  /\ WF_vars(ApiRecovers) /\ WF_vars(LeaseExpires)
  /\ \A o \in Op : WF_vars(TimePasses(o)) /\ WF_vars(ClaimExpires(o))
  /\ \A p \in Process :
       /\ WF_vars(Start(p)) /\ WF_vars(StepDown(p)) /\ WF_vars(WorkerStep(p))
       /\ \A o \in Op :
            /\ WF_vars(RecordEvent(p, o)) /\ WF_vars(DeploymentEvent(p, o))
            /\ WF_vars(TimerFires(p, o)) /\ SF_vars(Get(p, o))

Spec == Init /\ [][Next]_vars

FairSpec == Spec /\ Fairness

-----------------------------------------------------------------------------
(* Properties.                                                              *)

\* Processes that do not work hold nothing, and a worker is at one item.
TypeOK ==
  /\ state \in [Op -> State] /\ overdue \subseteq Op
  /\ claim \in [Op -> Process \union {None, Former}]
  /\ target \in [Op -> {"reviewed", "gone", "replaced"}]
  /\ deletions \in [Op -> Nat]
  /\ api \in {"up", "flaky"} /\ outages \in Nat
  /\ lease \in Process \union {None, Former} /\ crashes \in Nat
  /\ status \in [Process -> {"standby", "working"}]
  /\ cached \in [Process -> [Op -> State]]
  /\ watched \in [Process -> SUBSET Op]
  /\ queue \in [Process -> SUBSET Op] /\ waiting \in [Process -> SUBSET Op]
  /\ job \in [Process -> [op : Op, at : {"reconcile", "settle", "reread"}]
                            \union {Idle}]

\* What will bring an operation to the worker of a process: an item, a timer,
\* the reconcile in progress, or an event that is still to be delivered.
Scheduled(p, o) ==
  \/ o \in queue[p] \union waiting[p]
  \/ job[p].op = o
  \/ cached[p][o] # state[o]

\* While every API call succeeds, nothing a working process has to follow is
\* forgotten, whichever events are coalesced or filtered, whatever the other
\* processes write, and although the target may be deleted for good.
NothingForgotten ==
  outages = 0 =>
    \A p \in Process, o \in Op :
      Working(p) /\ state[o] \in Pending => Scheduled(p, o)

\* Whoever is about to change the state of an operation owns its claim, and
\* has it executing or verifying: the claim of a former leader is waited for,
\* and two processes never settle the same operation, even while a suspended
\* leader has been replaced.
SettlesOwnClaim ==
  \A p \in Process, o \in Op :
    At(p, o, "settle") => claim[o] = p /\ state[o] \in Underway

\* Whatever brings an operation back to a worker, and whichever process that
\* is, its record moves as the abstract lifecycle says.  Whether the change
\* was made is not in this module: steps that ask for it may be taken.
Lifecycle == INSTANCE OperationLifecycle WITH applied <- Op

FollowsLifecycle == [][Lifecycle!Next]_state

\* Every plan and every approved operation comes to an end, through crashes,
\* changes of leader and outages, as long as its target exists: the resync of
\* the Deployment brings back what a failed read had dropped.
OperationsEnd ==
  \A o \in Op :
    (state[o] \in Pending /\ target[o] # "gone")
      ~> (state[o] \in Terminal \/ target[o] = "gone")

\* As long as no call fails, approved work comes to an end even when its target
\* is deleted for good and nothing but the timers brings it back.
WorkEndsWithoutOutages ==
  \A o \in Op :
    state[o] \in Claimable ~> (state[o] \in Terminal \/ outages > 0)

\* docs/durable-operations.md: "Work that has not established recovery within
\* ten minutes of approval goes to review when the API becomes reachable
\* again", whether or not its target still exists.
WorkGoesToReview ==
  \A o \in Op : state[o] \in Claimable ~> state[o] \in Terminal
=============================================================================
