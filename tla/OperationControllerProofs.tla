----------------------- MODULE OperationControllerProofs -----------------------
(***************************************************************************)
(* Proofs about OperationController: nothing pending is forgotten while    *)
(* calls succeed, and only the owner of a claim settles an operation, for  *)
(* any number of processes, operations, crashes, outages and deletions,    *)
(* elected or active-active.                                               *)
(***************************************************************************)
EXTENDS OperationController, TLAPS

USE DEF Terminal, Claimable, Underway, Pending, State, records, world,
        processes, informers, items

\* The four things a worker, an event or a process can do to a job.
LEMMA JobSteps ==
  ASSUME TypeOK, NEW p \in Process, NEW o \in Op, NEW place,
         NEW next \in {"reread", "settle"},
         At(p, o, place), Goto(p, next)
  PROVE  /\ job' = [job EXCEPT ![p] = [op |-> o, at |-> next]]
         /\ job' \in [Process -> [op : Op, at : {"reconcile", "settle", "reread"}]
                                    \union {Idle}]
<1>1. [job[p] EXCEPT !.at = next] = [op |-> o, at |-> next]
  BY DEF At
<1>2. job' = [job EXCEPT ![p] = [op |-> o, at |-> next]]
  BY <1>1 DEF Goto
<1> QED
  BY <1>2 DEF TypeOK

LEMMA OutcomesAreStates ==
  ASSUME NEW o \in Op
  PROVE  Outcomes(o) \subseteq {"Succeeded", "NeedsReview", "Verifying", "Failed"}
  BY DEF Outcomes

LEMMA TypeInit == Init => TypeOK
  BY ControllerNames DEF Init, TypeOK, Idle

LEMMA TypeWorker ==
  ASSUME TypeOK, NEW p \in Process, WorkerStep(p)
  PROVE  TypeOK'
<1> PICK o \in Op :
      \/ Skip(p, o) \/ Expire(p, o) \/ Claim(p, o) \/ Settle(p, o)
      \/ Retry(p, o) \/ Revisit(p, o) \/ Forget(p, o)
  BY DEF WorkerStep
<1> UNCHANGED <<world, processes, informers>>
  BY DEF WorkerStep
<1>1. CASE Skip(p, o)
  BY <1>1, JobSteps DEF Skip, TypeOK
<1>2. CASE Expire(p, o)
  BY <1>2, JobSteps DEF Expire, TypeOK
<1>3. CASE Claim(p, o)
  <2>1. state' \in [Op -> State] /\ claim' \in [Op -> Process \union {None, Former}]
    BY <1>3 DEF Claim, TypeOK
  <2> QED
    BY <1>3, <2>1, JobSteps DEF Claim, TypeOK
<1>4. CASE Settle(p, o)
  BY <1>4, JobSteps, OutcomesAreStates DEF Settle, TypeOK
<1>5. CASE Retry(p, o)
  <2>1. state' \in [Op -> State]
    BY <1>5, OutcomesAreStates DEF Retry, Effects, TypeOK
  <2>2. claim' = claim /\ overdue' = overdue
    BY <1>5 DEF Retry, Effects
  <2>3. waiting' \in [Process -> SUBSET Op]
    BY <1>5 DEF Retry, TypeOK
  <2> QED
    BY <1>5, <2>1, <2>2, <2>3 DEF Retry, TypeOK
<1>6. CASE Revisit(p, o)
  <2>1. waiting' \in [Process -> SUBSET Op]
    BY <1>6 DEF Revisit, TypeOK
  <2> QED
    BY <1>6, <2>1 DEF Revisit, TypeOK
<1>7. CASE Forget(p, o)
  BY <1>7 DEF Forget, TypeOK
<1> QED
  BY <1>1, <1>2, <1>3, <1>4, <1>5, <1>6, <1>7

LEMMA TypeExit ==
  ASSUME TypeOK, NEW p \in Process, Exit(p), crashes' \in Nat
  PROVE  TypeOK'
<1>1. claim' \in [Op -> Process \union {None, Former}]
  BY DEF Exit, TypeOK
<1>2. /\ cached' \in [Process -> [Op -> State]]
      /\ status' \in [Process -> {"standby", "working"}]
      /\ lease' \in Process \union {None, Former}
  BY DEF Exit, TypeOK
<1>3. /\ watched' \in [Process -> SUBSET Op]
      /\ queue' \in [Process -> SUBSET Op]
      /\ waiting' \in [Process -> SUBSET Op]
      /\ job' \in [Process -> [op : Op, at : {"reconcile", "settle", "reread"}]
                                 \union {Idle}]
  BY DEF Exit, TypeOK
<1> QED
  BY <1>1, <1>2, <1>3 DEF Exit, TypeOK

LEMMA TypeStep == TypeOK /\ [Next]_vars => TypeOK'
<1> SUFFICES ASSUME TypeOK, [Next]_vars PROVE TypeOK'
  OBVIOUS
<1>1. CASE ApiFails
  BY <1>1 DEF ApiFails, TypeOK
<1>2. CASE ApiRecovers
  BY <1>2 DEF ApiRecovers, TypeOK
<1>3. CASE LeaseExpires
  BY <1>3 DEF LeaseExpires, TypeOK
<1>4. ASSUME NEW o \in Op, Plan(o) PROVE TypeOK'
  BY <1>4 DEF Plan, TypeOK
<1>5. ASSUME NEW o \in Op, Approve(o) PROVE TypeOK'
  <2>1. state' \in [Op -> State]
    BY <1>5 DEF Approve, TypeOK
  <2> QED
    BY <1>5, <2>1 DEF Approve, TypeOK
<1>6. ASSUME NEW o \in Op, TimePasses(o) PROVE TypeOK'
  BY <1>6 DEF TimePasses, TypeOK
<1>7. ASSUME NEW o \in Op, ClaimExpires(o) PROVE TypeOK'
  BY <1>7 DEF ClaimExpires, TypeOK
<1>8. ASSUME NEW o \in Op, TargetChanges(o) PROVE TypeOK'
  <2>1. target' \in [Op -> {"reviewed", "gone", "replaced"}]
    BY <1>8 DEF TargetChanges, TypeOK
  <2>2. deletions[o] + 1 \in Nat
    BY DEF TypeOK
  <2>3. deletions' \in [Op -> Nat]
    BY <1>8, <2>2 DEF TargetChanges, TypeOK
  <2> QED
    BY <1>8, <2>1, <2>3 DEF TargetChanges, TypeOK
<1>9. ASSUME NEW p \in Process, Start(p) PROVE TypeOK'
  <2>1. /\ queue' \in [Process -> SUBSET Op] /\ watched' \in [Process -> SUBSET Op]
        /\ lease' \in Process \union {None, Former}
        /\ cached' \in [Process -> [Op -> State]]
    BY <1>9 DEF Start, TypeOK
  <2> QED
    BY <1>9, <2>1 DEF Start, TypeOK
<1>10. ASSUME NEW p \in Process, StepDown(p) PROVE TypeOK'
  BY <1>10, TypeExit DEF StepDown, TypeOK
<1>11. ASSUME NEW p \in Process, Crash(p) PROVE TypeOK'
  BY <1>11, TypeExit DEF Crash, TypeOK
<1>12. ASSUME NEW p \in Process, WorkerStep(p) PROVE TypeOK'
  BY <1>12, TypeWorker
<1>13. ASSUME NEW p \in Process, NEW o \in Op, RecordEvent(p, o) PROVE TypeOK'
  <2>1. /\ queue' \in [Process -> SUBSET Op]
        /\ cached' \in [Process -> [Op -> State]]
    BY <1>13 DEF RecordEvent, TypeOK
  <2> QED
    BY <1>13, <2>1 DEF RecordEvent, TypeOK
<1>14. ASSUME NEW p \in Process, NEW o \in Op, DeploymentEvent(p, o) PROVE TypeOK'
  <2>1. queue' \in [Process -> SUBSET Op] /\ watched' \in [Process -> SUBSET Op]
    BY <1>14 DEF DeploymentEvent, TypeOK
  <2> QED
    BY <1>14, <2>1 DEF DeploymentEvent, TypeOK
<1>15. ASSUME NEW p \in Process, NEW o \in Op, TimerFires(p, o) PROVE TypeOK'
  BY <1>15 DEF TimerFires, TypeOK
<1>16. ASSUME NEW p \in Process, NEW o \in Op, Get(p, o) PROVE TypeOK'
  BY <1>16 DEF Get, TypeOK
<1>17. CASE UNCHANGED vars
  BY <1>17 DEF vars, TypeOK
<1> QED
  BY <1>1, <1>2, <1>3, <1>4, <1>5, <1>6, <1>7, <1>8, <1>9, <1>10, <1>11,
     <1>12, <1>13, <1>14, <1>15, <1>16, <1>17 DEF Next

\* Every variable keeps its type: standby processes and idle workers included.
THEOREM ControllerTypes == Spec => []TypeOK
  BY TypeInit, TypeStep, PTL DEF Spec

-----------------------------------------------------------------------------
(* A worker that is about to settle an operation owns its claim: claims are *)
(* only taken from nobody or from oneself, they do not expire under the     *)
(* reconcile that took them, and an exit leaves the worker idle.            *)

LEMMA OwnershipWorker ==
  ASSUME TypeOK, SettlesOwnClaim, NEW p \in Process, WorkerStep(p)
  PROVE  SettlesOwnClaim'
<1> SUFFICES ASSUME NEW q \in Process, NEW x \in Op, At(q, x, "settle")'
             PROVE  claim'[x] = q /\ state'[x] \in Underway
  BY DEF SettlesOwnClaim
<1> PICK o \in Op :
      \/ Skip(p, o) \/ Expire(p, o) \/ Claim(p, o) \/ Settle(p, o)
      \/ Retry(p, o) \/ Revisit(p, o) \/ Forget(p, o)
  BY DEF WorkerStep
<1>1. At(q, x, "settle") => claim[x] = q /\ state[x] \in Underway
  BY DEF SettlesOwnClaim
<1>2. CASE Skip(p, o)
  <2>1. q # p /\ At(q, x, "settle")
    BY <1>2, JobSteps DEF Skip, At, TypeOK
  <2> QED
    BY <1>1, <1>2, <2>1 DEF Skip
<1>3. CASE Expire(p, o)
  <2>1. q # p /\ At(q, x, "settle")
    BY <1>3, JobSteps DEF Expire, At, TypeOK
  <2> QED
    BY <1>1, <1>3, <2>1 DEF Expire, TypeOK
<1>4. CASE Claim(p, o)
  <2>1. CASE q = p
    <3>1. x = o
      BY <1>4, <2>1, JobSteps DEF Claim, At, TypeOK
    <3> QED
      BY <1>4, <2>1, <3>1 DEF Claim, TypeOK
  <2>2. CASE q # p
    <3>1. At(q, x, "settle")
      BY <1>4, <2>2, JobSteps DEF Claim, At, TypeOK
    <3>2. x # o
      BY <1>1, <1>4, <2>2, <3>1, ControllerNames DEF Claim, ClaimedByOther
    <3> QED
      BY <1>1, <1>4, <3>1, <3>2 DEF Claim, TypeOK
  <2> QED
    BY <2>1, <2>2
<1>5. CASE Settle(p, o)
  <2>1. q # p /\ At(q, x, "settle")
    BY <1>5, JobSteps DEF Settle, At, TypeOK
  <2>2. claim[o] = p
    BY <1>5 DEF Settle, SettlesOwnClaim
  <2> QED
    BY <1>1, <1>5, <2>1, <2>2 DEF Settle, TypeOK
<1>6. CASE Retry(p, o)
  <2>1. q # p /\ At(q, x, "settle")
    BY <1>6 DEF Retry, At, Idle, TypeOK
  <2>2. At(p, o, "settle") => claim[o] = p
    BY DEF SettlesOwnClaim
  <2>3. state[o] = "Planned" => x # o
    BY <1>1, <2>1
  <2> QED
    BY <1>1, <1>6, <2>1, <2>2, <2>3 DEF Retry, Effects, TypeOK
<1>7. CASE Revisit(p, o)
  <2>1. q # p /\ At(q, x, "settle")
    BY <1>7 DEF Revisit, At, Idle, TypeOK
  <2> QED
    BY <1>1, <1>7, <2>1 DEF Revisit
<1>8. CASE Forget(p, o)
  <2>1. q # p /\ At(q, x, "settle")
    BY <1>8 DEF Forget, At, Idle, TypeOK
  <2> QED
    BY <1>1, <1>8, <2>1 DEF Forget
<1> QED
  BY <1>2, <1>3, <1>4, <1>5, <1>6, <1>7, <1>8

LEMMA OwnershipExit ==
  ASSUME TypeOK, SettlesOwnClaim, NEW p \in Process, Exit(p)
  PROVE  SettlesOwnClaim'
<1> SUFFICES ASSUME NEW q \in Process, NEW x \in Op, At(q, x, "settle")'
             PROVE  claim'[x] = q /\ state'[x] \in Underway
  BY DEF SettlesOwnClaim
<1>1. q # p /\ At(q, x, "settle")
  BY DEF Exit, At, Idle, TypeOK
<1> QED
  BY <1>1 DEF Exit, SettlesOwnClaim, TypeOK

LEMMA OwnershipStep ==
  TypeOK /\ SettlesOwnClaim /\ [Next]_vars => SettlesOwnClaim'
<1> SUFFICES ASSUME TypeOK, SettlesOwnClaim, [Next]_vars
             PROVE  SettlesOwnClaim'
  OBVIOUS
<1>1. CASE ApiFails \/ ApiRecovers \/ LeaseExpires \/ UNCHANGED vars
  BY <1>1 DEF ApiFails, ApiRecovers, LeaseExpires, vars, SettlesOwnClaim, At
<1>2. ASSUME NEW o \in Op, Plan(o) \/ Approve(o) PROVE SettlesOwnClaim'
  <2> SUFFICES ASSUME NEW q \in Process, NEW x \in Op, At(q, x, "settle")
               PROVE  claim'[x] = q /\ state'[x] \in Underway
    BY <1>2 DEF Plan, Approve, SettlesOwnClaim, At
  <2>1. claim[x] = q /\ state[x] \in Underway
    BY DEF SettlesOwnClaim
  <2>2. claim' = claim /\ x # o
    BY <1>2, <2>1 DEF Plan, Approve
  <2> QED
    BY <1>2, <2>1, <2>2 DEF Plan, Approve, TypeOK
<1>3. ASSUME NEW o \in Op, TimePasses(o) \/ TargetChanges(o)
      PROVE  SettlesOwnClaim'
  BY <1>3 DEF TimePasses, TargetChanges, SettlesOwnClaim, At
<1>4. ASSUME NEW o \in Op, ClaimExpires(o) PROVE SettlesOwnClaim'
  BY <1>4 DEF ClaimExpires, SettlesOwnClaim, At, TypeOK
<1>5. ASSUME NEW p \in Process, Start(p) PROVE SettlesOwnClaim'
  BY <1>5 DEF Start, SettlesOwnClaim, At
<1>6. ASSUME NEW p \in Process, StepDown(p) \/ Crash(p) PROVE SettlesOwnClaim'
  BY <1>6, OwnershipExit DEF StepDown, Crash
<1>7. ASSUME NEW p \in Process, WorkerStep(p) PROVE SettlesOwnClaim'
  BY <1>7, OwnershipWorker
<1>8. ASSUME NEW p \in Process, NEW o \in Op,
             RecordEvent(p, o) \/ DeploymentEvent(p, o) \/ TimerFires(p, o)
      PROVE  SettlesOwnClaim'
  BY <1>8 DEF RecordEvent, DeploymentEvent, TimerFires, SettlesOwnClaim, At
<1>9. ASSUME NEW p \in Process, NEW o \in Op, Get(p, o) PROVE SettlesOwnClaim'
  BY <1>9 DEF Get, SettlesOwnClaim, At, TypeOK
<1> QED
  BY <1>1, <1>2, <1>3, <1>4, <1>5, <1>6, <1>7, <1>8, <1>9 DEF Next

LEMMA OwnershipInit == Init => SettlesOwnClaim
  BY DEF Init, SettlesOwnClaim, At, Idle

\* Whoever is about to change the state of an operation owns its claim and
\* has it executing or verifying, with a suspended former leader or with every
\* process at work.
THEOREM SettlersOwnClaims == Spec => []SettlesOwnClaim
  BY TypeInit, TypeStep, OwnershipInit, OwnershipStep, PTL DEF Spec
-----------------------------------------------------------------------------
(* Nothing is forgotten.  An operation that is scheduled in a process stays *)
(* scheduled as long as its state stands.  When its state moves, the cache  *)
(* of the process is behind it, since states only move forward, so the      *)
(* event is still to come.                                                  *)

Rank(s) ==
  IF s \in Terminal THEN 5
  ELSE IF s = "Verifying" THEN 4
  ELSE IF s = "Executing" THEN 3
  ELSE IF s = "Approved" THEN 2
  ELSE IF s = "Planned" THEN 1 ELSE 0

CachesAreBehind ==
  \A p \in Process, o \in Op :
    Working(p) => \/ cached[p][o] = state[o]
                  \/ Rank(cached[p][o]) < Rank(state[o])

OutagesAreCounted == api = "flaky" => outages > 0

WakeInv == CachesAreBehind /\ OutagesAreCounted /\ NothingForgotten

Moved(o) == state'[o] = state[o] \/ Rank(state[o]) < Rank(state'[o])

LEMMA StatesMoveForward ==
  ASSUME TypeOK, SettlesOwnClaim, [Next]_vars, NEW x \in Op
  PROVE  Moved(x)
<1>1. ASSUME NEW o \in Op, Plan(o) \/ Approve(o) PROVE Moved(x)
  BY <1>1 DEF Plan, Approve, Moved, Rank, TypeOK
<1>2. ASSUME NEW p \in Process, WorkerStep(p) PROVE Moved(x)
  <2> PICK o \in Op :
        \/ Skip(p, o) \/ Expire(p, o) \/ Claim(p, o) \/ Settle(p, o)
        \/ Retry(p, o) \/ Revisit(p, o) \/ Forget(p, o)
    BY <1>2 DEF WorkerStep
  <2>1. CASE Skip(p, o) \/ Revisit(p, o) \/ Forget(p, o)
    BY <2>1 DEF Skip, Revisit, Forget, Moved
  <2>2. CASE Expire(p, o) \/ Claim(p, o)
    BY <2>2 DEF Expire, Claim, Moved, Rank, TypeOK
  <2>3. ASSUME At(p, o, "settle"),
               \E s \in Outcomes(o) : state' = [state EXCEPT ![o] = s]
        PROVE  Moved(x)
    <3>1. PICK s \in Outcomes(o) : state' = [state EXCEPT ![o] = s]
      BY <2>3
    <3>2. s \in Terminal \union {"Verifying"}
      BY OutcomesAreStates
    <3>3. state[o] \in Underway
      BY <2>3 DEF SettlesOwnClaim
    <3> QED
      BY <3>1, <3>2, <3>3 DEF Moved, Rank, TypeOK
  <2>4. CASE Settle(p, o)
    BY <2>3, <2>4 DEF Settle
  <2>5. CASE Retry(p, o)
    <3>1. CASE UNCHANGED records
      BY <3>1 DEF Moved
    <3>2. CASE state[o] = "Planned" /\ state' = [state EXCEPT ![o] = "Expired"]
      BY <3>2 DEF Moved, Rank, TypeOK
    <3> QED
      BY <2>3, <2>5, <3>1, <3>2 DEF Retry, Effects
  <2> QED
    BY <2>1, <2>2, <2>4, <2>5
<1>3. CASE ApiFails \/ ApiRecovers \/ LeaseExpires \/ UNCHANGED vars
  BY <1>3 DEF ApiFails, ApiRecovers, LeaseExpires, vars, Moved
<1>4. ASSUME NEW o \in Op, TimePasses(o) \/ ClaimExpires(o) \/ TargetChanges(o)
      PROVE  Moved(x)
  BY <1>4 DEF TimePasses, ClaimExpires, TargetChanges, Moved
<1>5. ASSUME NEW p \in Process, Start(p) \/ StepDown(p) \/ Crash(p)
      PROVE  Moved(x)
  BY <1>5 DEF Start, StepDown, Crash, Exit, Moved
<1>6. ASSUME NEW p \in Process, NEW o \in Op,
             \/ RecordEvent(p, o) \/ DeploymentEvent(p, o)
             \/ TimerFires(p, o) \/ Get(p, o)
      PROVE  Moved(x)
  BY <1>6 DEF RecordEvent, DeploymentEvent, TimerFires, Get, Moved
<1> QED
  BY <1>1, <1>2, <1>3, <1>4, <1>5, <1>6 DEF Next

\* A cache keeps what it knows or learns the state of the moment.
LEMMA CacheSteps ==
  ASSUME TypeOK, [Next]_vars, NEW p \in Process, NEW o \in Op, Working(p)'
  PROVE  \/ cached'[p][o] = state[o]
         \/ Working(p) /\ cached'[p][o] = cached[p][o]
<1> DEFINE Kept == Working(p) /\ cached'[p][o] = cached[p][o]
           Goal == cached'[p][o] = state[o] \/ Kept
<1>1. CASE ApiFails \/ ApiRecovers \/ LeaseExpires \/ UNCHANGED vars
  BY <1>1 DEF ApiFails, ApiRecovers, LeaseExpires, vars, Working
<1>2. ASSUME NEW x \in Op, \/ Plan(x) \/ Approve(x) \/ TimePasses(x)
                           \/ ClaimExpires(x) \/ TargetChanges(x)
      PROVE  Goal
  BY <1>2 DEF Plan, Approve, TimePasses, ClaimExpires, TargetChanges, Working
<1>3. ASSUME NEW q \in Process, Start(q) PROVE Goal
  BY <1>3 DEF Start, Working, TypeOK
<1>4. ASSUME NEW q \in Process, Exit(q) PROVE Goal
  BY <1>4 DEF Exit, Working, TypeOK
<1>5. ASSUME NEW q \in Process, WorkerStep(q) PROVE Goal
  BY <1>5 DEF WorkerStep, Working
<1>6. ASSUME NEW q \in Process, NEW x \in Op, RecordEvent(q, x) PROVE Goal
  BY <1>6 DEF RecordEvent, Working, TypeOK
<1>7. ASSUME NEW q \in Process, NEW x \in Op,
             DeploymentEvent(q, x) \/ TimerFires(q, x) \/ Get(q, x)
      PROVE  Goal
  BY <1>7 DEF DeploymentEvent, TimerFires, Get, Working
<1> QED
  BY <1>1, <1>2, <1>3, <1>4, <1>5, <1>6, <1>7 DEF Next, StepDown, Crash

LEMMA RanksOrder ==
  \A a, b, c : Rank(a) < Rank(b) /\ Rank(b) < Rank(c) => Rank(a) < Rank(c)
  BY DEF Rank

LEMMA RanksDiffer == \A a, b : Rank(a) < Rank(b) => a # b
  BY DEF Rank

LEMMA CachesStep ==
  ASSUME TypeOK, SettlesOwnClaim, CachesAreBehind, [Next]_vars
  PROVE  CachesAreBehind'
<1> SUFFICES ASSUME NEW p \in Process, NEW o \in Op, Working(p)'
             PROVE  \/ cached'[p][o] = state'[o]
                    \/ Rank(cached'[p][o]) < Rank(state'[o])
  BY DEF CachesAreBehind, Rank
<1>1. state'[o] = state[o] \/ Rank(state[o]) < Rank(state'[o])
  BY StatesMoveForward DEF Moved
<1>2. CASE cached'[p][o] = state[o]
  BY <1>1, <1>2
<1>3. CASE Working(p) /\ cached'[p][o] = cached[p][o]
  BY <1>1, <1>3, RanksOrder DEF CachesAreBehind
<1> QED
  BY <1>2, <1>3, CacheSteps

LEMMA OutagesStep ==
  ASSUME TypeOK, OutagesAreCounted, [Next]_vars
  PROVE  OutagesAreCounted' /\ outages' >= outages
<1>1. CASE ApiFails
  BY <1>1 DEF ApiFails, OutagesAreCounted, TypeOK
<1>2. CASE ApiRecovers
  BY <1>2 DEF ApiRecovers, OutagesAreCounted, TypeOK
<1>3. CASE UNCHANGED <<api, outages>>
  BY <1>3 DEF OutagesAreCounted, TypeOK
<1> QED
  BY <1>1, <1>2, <1>3
  DEF Next, vars, LeaseExpires, Plan, Approve, TimePasses, ClaimExpires,
      TargetChanges, Start, StepDown, Crash, Exit, WorkerStep, RecordEvent,
      DeploymentEvent, TimerFires, Get

\* While its state stands, what is scheduled stays scheduled.
LEMMA WorkerKeepsSchedule ==
  ASSUME TypeOK, api = "up", NEW q \in Process, WorkerStep(q),
         NEW p \in Process, NEW o \in Op,
         state'[o] = state[o], state[o] \in Pending, Scheduled(p, o)
  PROVE  Scheduled(p, o)'
<1> PICK x \in Op :
      \/ Skip(q, x) \/ Expire(q, x) \/ Claim(q, x) \/ Settle(q, x)
      \/ Retry(q, x) \/ Revisit(q, x) \/ Forget(q, x)
  BY DEF WorkerStep
<1>1. cached' = cached
  BY DEF WorkerStep
<1>2. CASE Skip(q, x) \/ Expire(q, x) \/ Claim(q, x) \/ Settle(q, x)
  <2>1. queue' = queue /\ waiting' = waiting
    BY <1>2 DEF Skip, Expire, Claim, Settle
  <2>2. job'[p].op = job[p].op
    <3>1. /\ At(q, x, "reconcile") \/ At(q, x, "settle")
          /\ Goto(q, "reread") \/ Goto(q, "settle")
      BY <1>2 DEF Skip, Expire, Claim, Settle
    <3>2. \/ job' = [job EXCEPT ![q] = [op |-> x, at |-> "reread"]]
          \/ job' = [job EXCEPT ![q] = [op |-> x, at |-> "settle"]]
      BY <3>1, JobSteps
    <3> QED
      BY <3>1, <3>2 DEF At, TypeOK
  <2> QED
    BY <1>1, <2>1, <2>2 DEF Scheduled
<1>3. CASE Retry(q, x) \/ Revisit(q, x)
  <2>1. job[q].op = x /\ queue' = queue
    BY <1>3 DEF Retry, MayFail, Revisit, At
  <2>2. p # q => job'[p] = job[p] /\ waiting'[p] = waiting[p]
    BY <1>3 DEF Retry, Revisit, TypeOK
  <2>3. waiting[p] \subseteq waiting'[p]
    <3>1. CASE Retry(q, x)
      BY <3>1 DEF Retry, TypeOK
    <3>2. CASE Revisit(q, x)
      BY <3>2 DEF Revisit, TypeOK
    <3> QED
      BY <1>3, <3>1, <3>2
  <2>4. p = q /\ o = x => o \in waiting'[p]
    BY <1>3 DEF Retry, Revisit, TypeOK
  <2> QED
    BY <1>1, <2>1, <2>2, <2>3, <2>4 DEF Scheduled
<1>4. CASE Forget(q, x)
  BY <1>4 DEF Forget
<1> QED
  BY <1>2, <1>3, <1>4

LEMMA ScheduleStep ==
  ASSUME TypeOK, api = "up", [Next]_vars, NEW p \in Process, NEW o \in Op,
         Working(p)', state'[o] = state[o], state[o] \in Pending,
         Scheduled(p, o)
  PROVE  Scheduled(p, o)'
<1>1. CASE ApiFails \/ ApiRecovers \/ LeaseExpires \/ UNCHANGED vars
  BY <1>1 DEF ApiFails, ApiRecovers, LeaseExpires, vars, Scheduled
<1>2. ASSUME NEW x \in Op, \/ Plan(x) \/ Approve(x) \/ TimePasses(x)
                           \/ ClaimExpires(x) \/ TargetChanges(x)
      PROVE  Scheduled(p, o)'
  BY <1>2 DEF Plan, Approve, TimePasses, ClaimExpires, TargetChanges, Scheduled
<1>3. ASSUME NEW q \in Process, Start(q) PROVE Scheduled(p, o)'
  <2>1. CASE p = q
    BY <1>3, <2>1 DEF Start, Scheduled, TypeOK
  <2>2. CASE p # q
    BY <1>3, <2>2 DEF Start, Scheduled, TypeOK
  <2> QED
    BY <2>1, <2>2
<1>4. ASSUME NEW q \in Process, Exit(q) PROVE Scheduled(p, o)'
  <2>1. p # q
    BY <1>4 DEF Exit, Working, TypeOK
  <2> QED
    BY <1>4, <2>1 DEF Exit, Scheduled, TypeOK
<1>5. ASSUME NEW q \in Process, WorkerStep(q) PROVE Scheduled(p, o)'
  BY <1>5, WorkerKeepsSchedule
<1>6. ASSUME NEW q \in Process, NEW x \in Op, RecordEvent(q, x)
      PROVE  Scheduled(p, o)'
  <2>1. queue[p] \subseteq queue'[p] /\ waiting' = waiting /\ job' = job
    BY <1>6 DEF RecordEvent, TypeOK
  <2>2. CASE p = q /\ o = x
    BY <1>6, <2>2 DEF RecordEvent, Scheduled, TypeOK
  <2>3. CASE p # q \/ o # x
    <3>1. cached'[p][o] = cached[p][o]
      BY <1>6, <2>3 DEF RecordEvent, TypeOK
    <3> QED
      BY <2>1, <3>1 DEF Scheduled
  <2> QED
    BY <2>2, <2>3
<1>7. ASSUME NEW q \in Process, NEW x \in Op, DeploymentEvent(q, x)
      PROVE  Scheduled(p, o)'
  <2>1. queue[p] \subseteq queue'[p]
    BY <1>7 DEF DeploymentEvent, TypeOK
  <2> QED
    BY <1>7, <2>1 DEF DeploymentEvent, Scheduled
<1>8. ASSUME NEW q \in Process, NEW x \in Op, TimerFires(q, x)
      PROVE  Scheduled(p, o)'
  <2>1. queue[p] \union waiting[p] = queue'[p] \union waiting'[p]
    BY <1>8 DEF TimerFires, TypeOK
  <2> QED
    BY <1>8, <2>1 DEF TimerFires, Scheduled
<1>9. ASSUME NEW q \in Process, NEW x \in Op, Get(q, x)
      PROVE  Scheduled(p, o)'
  <2>1. CASE p = q /\ o = x
    BY <1>9, <2>1 DEF Get, Scheduled, TypeOK
  <2>2. CASE p # q
    BY <1>9, <2>2 DEF Get, Scheduled, TypeOK
  <2>3. CASE p = q /\ o # x
    <3>1. job[p].op # o
      BY <1>9, <2>3, ControllerNames DEF Get, Idle
    <3> QED
      BY <1>9, <2>3, <3>1 DEF Get, Scheduled, TypeOK
  <2> QED
    BY <2>1, <2>2, <2>3
<1> QED
  BY <1>1, <1>2, <1>3, <1>4, <1>5, <1>6, <1>7, <1>8, <1>9
  DEF Next, StepDown, Crash

LEMMA NothingForgottenStep ==
  ASSUME TypeOK, SettlesOwnClaim, WakeInv, [Next]_vars
  PROVE  NothingForgotten'
<1> SUFFICES ASSUME outages' = 0, NEW p \in Process, NEW o \in Op,
                    Working(p)', state'[o] \in Pending
             PROVE  Scheduled(p, o)'
  BY DEF NothingForgotten
<1>1. outages = 0 /\ api = "up"
  BY OutagesStep DEF WakeInv, OutagesAreCounted, TypeOK
<1>2. CASE state'[o] # state[o]
  <2>1. Rank(state[o]) < Rank(state'[o])
    BY <1>2, StatesMoveForward DEF Moved
  <2>2. cached'[p][o] = state[o] \/ Rank(cached'[p][o]) < Rank(state[o])
    BY CacheSteps DEF WakeInv, CachesAreBehind
  <2>3. cached'[p][o] # state'[o]
    BY <1>2, <2>1, <2>2, RanksOrder, RanksDiffer
  <2> QED
    BY <2>3 DEF Scheduled
<1>3. CASE state'[o] = state[o] /\ Working(p)
  <2>1. Scheduled(p, o)
    BY <1>1, <1>3 DEF WakeInv, NothingForgotten
  <2> QED
    BY <1>1, <1>3, <2>1, ScheduleStep
<1>4. CASE state'[o] = state[o] /\ ~Working(p)
  <2>1. status'[p] # status[p]
    BY <1>4 DEF Working
  <2>2. Start(p)
    <3>1. PICK q \in Process : Start(q) \/ Exit(q)
      BY <2>1
      DEF Next, vars, ApiFails, ApiRecovers, LeaseExpires, Plan, Approve,
          TimePasses, ClaimExpires, TargetChanges, StepDown, Crash,
          WorkerStep, RecordEvent, DeploymentEvent, TimerFires, Get
    <3>2. CASE Start(q)
      BY <2>1, <3>2 DEF Start, TypeOK
    <3>3. CASE Exit(q)
      BY <1>4, <2>1, <3>3 DEF Exit, Working, TypeOK
    <3> QED
      BY <3>1, <3>2, <3>3
  <2>3. o \in queue'[p]
    BY <1>4, <2>2 DEF Start, TypeOK
  <2> QED
    BY <2>3 DEF Scheduled
<1> QED
  BY <1>2, <1>3, <1>4

LEMMA WakeInit == Init => WakeInv
  BY DEF Init, WakeInv, CachesAreBehind, OutagesAreCounted, NothingForgotten,
         Working

LEMMA WakeStep ==
  TypeOK /\ SettlesOwnClaim /\ WakeInv /\ [Next]_vars => WakeInv'
  BY CachesStep, OutagesStep, NothingForgottenStep DEF WakeInv

LEMMA WakeInvIsEnough == WakeInv => NothingForgotten
  BY DEF WakeInv

\* While calls succeed, no working process loses sight of an operation that
\* is planned or under way, however events, timers and restarts interleave.
THEOREM NothingIsForgotten == Spec => []NothingForgotten
<1>1. Spec => []TypeOK
  BY ControllerTypes
<1>2. Spec => []SettlesOwnClaim
  BY SettlersOwnClaims
<1>3. Spec => []WakeInv
  BY <1>1, <1>2, WakeInit, WakeStep, PTL DEF Spec
<1> QED
  BY <1>3, WakeInvIsEnough, PTL
-----------------------------------------------------------------------------
(* The states follow the lifecycle.  A reconcile that was cut off, repeated *)
(* or overtaken may write an outcome late, but the claim it still owns      *)
(* keeps the record executing or verifying until then.                      *)

LEMMA ClosedAsLifecycle ==
  ASSUME TypeOK, SettlesOwnClaim, NEW p \in Process, NEW o \in Op,
         At(p, o, "settle"), NEW s \in Outcomes(o),
         state' = [state EXCEPT ![o] = s]
  PROVE  Lifecycle!Next \/ UNCHANGED state
<1>1. state[o] \in {"Executing", "Verifying"}
  BY DEF SettlesOwnClaim
<1>2. CASE s = "Succeeded"
  <2>1. Lifecycle!Succeed(o)
    BY <1>1, <1>2 DEF Lifecycle!Succeed, Lifecycle!Move
  <2> QED
    BY <2>1 DEF Lifecycle!Next
<1>3. CASE s = "NeedsReview"
  <2>1. Lifecycle!Review(o)
    BY <1>1, <1>3 DEF Lifecycle!Review, Lifecycle!Move
  <2> QED
    BY <2>1 DEF Lifecycle!Next
<1>4. CASE s = "Verifying" /\ state[o] = "Executing"
  <2>1. Lifecycle!Verify(o)
    BY <1>4 DEF Lifecycle!Verify, Lifecycle!Move
  <2> QED
    BY <2>1 DEF Lifecycle!Next
<1>5. CASE s = "Verifying" /\ state[o] = "Verifying"
  BY <1>5 DEF TypeOK
<1>6. CASE s = "Failed"
  <2>1. state[o] = "Executing"
    BY <1>6 DEF Outcomes
  <2>2. Lifecycle!Fail(o)
    BY <1>6, <2>1 DEF Lifecycle!Fail, Lifecycle!Move
  <2> QED
    BY <2>2 DEF Lifecycle!Next
<1> QED
  BY <1>1, <1>2, <1>3, <1>4, <1>5, <1>6, OutcomesAreStates

LEMMA ExpiredAsLifecycle ==
  ASSUME NEW o \in Op, state[o] = "Planned",
         state' = [state EXCEPT ![o] = "Expired"]
  PROVE  Lifecycle!Next
<1>1. Lifecycle!Expire(o)
  BY DEF Lifecycle!Expire, Lifecycle!Move
<1> QED
  BY <1>1 DEF Lifecycle!Next

LEMMA WorkerFollowsLifecycle ==
  ASSUME TypeOK, SettlesOwnClaim, NEW p \in Process, WorkerStep(p)
  PROVE  Lifecycle!Next \/ UNCHANGED state
<1> PICK o \in Op :
      \/ Skip(p, o) \/ Expire(p, o) \/ Claim(p, o) \/ Settle(p, o)
      \/ Retry(p, o) \/ Revisit(p, o) \/ Forget(p, o)
  BY DEF WorkerStep
<1>1. CASE Skip(p, o) \/ Revisit(p, o) \/ Forget(p, o)
  BY <1>1 DEF Skip, Revisit, Forget
<1>2. CASE Expire(p, o)
  BY <1>2, ExpiredAsLifecycle DEF Expire
<1>3. CASE Claim(p, o)
  <2>1. CASE state[o] = "Approved"
    <3>1. Lifecycle!Execute(o)
      BY <1>3, <2>1 DEF Claim, Lifecycle!Execute, Lifecycle!Move
    <3> QED
      BY <3>1 DEF Lifecycle!Next
  <2>2. CASE state[o] # "Approved"
    BY <1>3, <2>2 DEF Claim, TypeOK
  <2> QED
    BY <2>1, <2>2
<1>4. CASE Settle(p, o)
  BY <1>4, ClosedAsLifecycle DEF Settle
<1>5. CASE Retry(p, o)
  BY <1>5, ExpiredAsLifecycle, ClosedAsLifecycle DEF Retry, Effects
<1> QED
  BY <1>1, <1>2, <1>3, <1>4, <1>5

LEMMA LifecycleStep ==
  ASSUME TypeOK, SettlesOwnClaim, [Next]_vars
  PROVE  [Lifecycle!Next]_state
<1>1. ASSUME NEW o \in Op, Plan(o) PROVE Lifecycle!Next
  <2>1. Lifecycle!Plan(o)
    BY <1>1 DEF Plan, Lifecycle!Plan, Lifecycle!Move
  <2> QED
    BY <2>1 DEF Lifecycle!Next
<1>2. ASSUME NEW o \in Op, Approve(o) PROVE Lifecycle!Next
  <2>1. CASE o \in overdue
    BY <1>2, <2>1, ExpiredAsLifecycle DEF Approve
  <2>2. CASE o \notin overdue
    <3>1. Lifecycle!Approve(o)
      BY <1>2, <2>2 DEF Approve, Lifecycle!Approve, Lifecycle!Move
    <3> QED
      BY <3>1 DEF Lifecycle!Next
  <2> QED
    BY <2>1, <2>2
<1>3. ASSUME NEW p \in Process, WorkerStep(p)
      PROVE  Lifecycle!Next \/ UNCHANGED state
  BY <1>3, WorkerFollowsLifecycle
<1>4. CASE ApiFails \/ ApiRecovers \/ LeaseExpires \/ UNCHANGED vars
  BY <1>4 DEF ApiFails, ApiRecovers, LeaseExpires, vars
<1>5. ASSUME NEW o \in Op, TimePasses(o) \/ ClaimExpires(o) \/ TargetChanges(o)
      PROVE  UNCHANGED state
  BY <1>5 DEF TimePasses, ClaimExpires, TargetChanges
<1>6. ASSUME NEW p \in Process, Start(p) \/ StepDown(p) \/ Crash(p)
      PROVE  UNCHANGED state
  BY <1>6 DEF Start, StepDown, Crash, Exit
<1>7. ASSUME NEW p \in Process, NEW o \in Op,
             \/ RecordEvent(p, o) \/ DeploymentEvent(p, o)
             \/ TimerFires(p, o) \/ Get(p, o)
      PROVE  UNCHANGED state
  BY <1>7 DEF RecordEvent, DeploymentEvent, TimerFires, Get
<1> QED
  BY <1>1, <1>2, <1>3, <1>4, <1>5, <1>6, <1>7 DEF Next

\* However many processes, crashes, leaders and retries bring an operation to
\* a worker, its record takes the steps of the abstract lifecycle only: no
\* outcome is written over another, and nothing closed is opened again.
THEOREM StatesFollowLifecycle == Spec => FollowsLifecycle
  BY TypeInit, TypeStep, OwnershipInit, OwnershipStep, LifecycleStep, PTL
  DEF Spec, FollowsLifecycle
=============================================================================
