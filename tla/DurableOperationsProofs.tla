----------------------- MODULE DurableOperationsProofs -----------------------
(***************************************************************************)
(* Machine-checked proofs about DurableOperations, for every set of        *)
(* operations, workers, requests and users, every clock skew and every     *)
(* bound.                                                                  *)
(***************************************************************************)
EXTENDS DurableOperations, TLAPS

USE DEF Terminal, Claimable, Sending

-----------------------------------------------------------------------------
(* Types.                                                                   *)

\* A frame that is not Idle holds an operation and a saved record.
LEMMA BusyFrame ==
  ASSUME NEW f \in Frame \union {Idle}, f.pc # "idle"
  PROVE  f \in Frame
BY DEF Idle

\* A record that was planned is a saved one.
LEMMA PlannedIsSaved ==
  ASSUME NEW r \in Saved \union {NoRecord}, r.state # "Absent"
  PROVE  r \in Saved
BY DEF NoRecord

\* A clock reading is a natural number.
LEMMA ClockType ==
  ASSUME TypeOK, NEW t \in Clock
  PROVE  t \in Nat
BY Durations DEF TypeOK, Clock

\* A compare-and-swap stores a saved record or nothing.
LEMMA UpdateType ==
  ASSUME TypeOK, NEW f \in Frame, Update(f)
  PROVE  record' \in [Op -> Saved \union {NoRecord}]
<1> DEFINE stored == [f.rec EXCEPT !.version = @ + 1]
<1>1. f.op \in Op /\ f.rec \in Saved
  BY DEF Frame
<1>2. stored \in Saved
  BY <1>1 DEF Saved
<1>3. CASE Current(f)
  BY <1>1, <1>2, <1>3 DEF TypeOK, Update
<1>4. CASE ~Current(f)
  BY <1>4 DEF TypeOK, Update
<1> QED BY <1>3, <1>4

\* Writing the fields that a patch or an edit writes leaves a Deployment.
LEMMA WrittenType ==
  ASSUME NEW d \in Object, NEW v \in Nat \ {0}, NEW m \in Op \union {None},
         NEW r \in Replicas, NEW t \in Template, NEW b \in BOOLEAN
  PROVE  [d EXCEPT !.rv = v, !.marker = m, !.replicas = r, !.template = t,
                   !.observed = b] \in Object
BY DEF Object

\* A patch leaves a Deployment and counts its effect.
LEMMA ApplyPatchType ==
  ASSUME TypeOK, NEW f \in Frame, ApplyPatch(f)
  PROVE  target' \in Object /\ effects' \in [Op -> Nat]
<1> DEFINE replicas == IF f.rec.action = "scale" THEN f.rec.replicas
                                                 ELSE target.replicas
           template == IF f.rec.action = "scale" THEN target.template
                                                 ELSE f.rec.template
           observed == target.observed /\ replicas = target.replicas
                                       /\ template = target.template
<1>1. f.op \in Op /\ f.rec \in Saved
  BY DEF Frame
<1>2. replicas \in Replicas /\ template \in Template
  BY <1>1 DEF Saved, TypeOK, Object
<1>3. observed \in BOOLEAN
  OBVIOUS
<1>4. target \in Object /\ target.rv + 1 \in Nat \ {0}
  BY DEF TypeOK, Object
<1>5. Patched(target, f.op, f.rec) =
        [target EXCEPT !.rv = target.rv + 1, !.marker = f.op,
                       !.replicas = replicas, !.template = template,
                       !.observed = observed]
  BY DEF Patched
<1> HIDE DEF replicas, template, observed
<1>6. [target EXCEPT !.rv = target.rv + 1, !.marker = f.op,
                      !.replicas = replicas, !.template = template,
                      !.observed = observed] \in Object
  BY <1>1, <1>2, <1>3, <1>4, WrittenType
<1> QED BY <1>1, <1>5, <1>6 DEF TypeOK, ApplyPatch

LEMMA ClaimedType ==
  ASSUME NEW r \in Saved, Reconciled(r), NEW w \in Worker, NEW t \in Nat
  PROVE  Claimed(r, w, t) \in Saved
<1> DEFINE epoch == IF r.owner # w \/ t > r.claimUntil THEN r.epoch + 1
                                                       ELSE r.epoch
           state == IF r.state = "Approved" THEN "Executing" ELSE r.state
<1>1. epoch \in Nat
  BY DEF Saved
<1>2. state \in Claimable
  BY DEF Reconciled
<1>3. t + ClaimDuration \in Nat
  BY Durations
<1>4. Claimed(r, w, t) = [r EXCEPT !.epoch = epoch, !.owner = w,
                                   !.claimUntil = t + ClaimDuration,
                                   !.state = state]
  BY DEF Claimed
<1> HIDE DEF epoch, state
<1> QED BY <1>1, <1>2, <1>3, <1>4 DEF Saved

\* Everyone else leaves a Deployment as well.
LEMMA ExternalWriteType ==
  ASSUME NEW d \in Object, NEW e, ExternalWrite(d, e)
  PROVE  e \in Object
<1>0. d.rv + 1 \in Nat \ {0} /\ d.uid + 1 \in Nat \ {0} /\ d.marker \in Op \union {None}
  BY DEF Object
<1>1. CASE Edited(d, e)
  <2>1. PICK m \in {d.marker, None}, r \in Replicas, t \in Template, p \in BOOLEAN :
          e = [d EXCEPT !.rv = d.rv + 1, !.marker = m, !.replicas = r,
                        !.template = t, !.paused = p,
                        !.observed = d.observed /\ r = d.replicas
                                       /\ t = d.template /\ p = d.paused]
    BY <1>1 DEF Edited
  <2> DEFINE b == d.observed /\ r = d.replicas /\ t = d.template /\ p = d.paused
  <2>2. b \in BOOLEAN
    OBVIOUS
  <2>3. e = [d EXCEPT !.rv = d.rv + 1, !.marker = m, !.replicas = r,
                      !.template = t, !.paused = p, !.observed = b]
    BY <2>1
  <2> HIDE DEF b
  <2> QED BY <1>0, <2>2, <2>3 DEF Object
<1>2. CASE StatusReported(d, e)
  <2>1. PICK b \in {d.observed, TRUE}, h \in Health :
          e = [d EXCEPT !.rv = d.rv + 1, !.observed = b, !.health = h]
    BY <1>2 DEF StatusReported
  <2>2. b \in BOOLEAN
    BY DEF Object
  <2> QED BY <1>0, <2>1, <2>2 DEF Object
<1>3. CASE Deleted(d, e)
  BY <1>0, <1>3 DEF Deleted, Object
<1>4. CASE Recreated(d, e)
  BY <1>0, <1>4 DEF Recreated, Object, Health
<1> QED BY <1>1, <1>2, <1>3, <1>4 DEF ExternalWrite

\* Whom a process step concerns is left out of the frames' types: a frame is
\* put in, moved on or taken away without touching the others.
LEMMA ProcType ==
  ASSUME TypeOK, NEW p \in Process, NEW f \in Frame \union {Idle},
         proc' = [proc EXCEPT ![p] = f],
         p \in Worker => f.pc # "approve",
         p \in Request => f.pc \in {"idle", "approve", "finish"}
  PROVE  /\ proc' \in [Process -> Frame \union {Idle}]
         /\ \A w \in Worker : proc'[w].pc # "approve"
         /\ \A q \in Request : proc'[q].pc \in {"idle", "approve", "finish"}
BY DEF TypeOK, Process

\* The frames a worker may be left with.
Left(w) ==
  \E f \in Frame \union {Idle} : /\ f.pc # "approve"
                                 /\ proc' = [proc EXCEPT ![w] = f]

\* The next call keeps operation and record.
LEMMA ProceedType ==
  ASSUME TypeOK, NEW w \in Worker, proc[w] \in Frame,
         proc[w].pc \notin {"finish", "approve"},
         NEW pc \in Sending \union {"reread", "inspect", "dryrun", "recheck",
                                    "prepare"},
         pc # "approve", Proceed(w, pc)
  PROVE  Left(w)
<1> DEFINE f == [proc[w] EXCEPT !.pc = pc]
<1>1. w \in Process
  BY DEF Process
<1>2. proc' = [proc EXCEPT ![w] = f]
  BY <1>1 DEF Proceed, TypeOK
<1>3. f \in Frame /\ f.pc = pc
  BY DEF Frame
<1> QED BY <1>2, <1>3 DEF Left

\* So does the final update, apart from the state it stores.
LEMMA FinishType ==
  ASSUME TypeOK, NEW w \in Worker, proc[w] \in Frame,
         NEW s \in Claimable \union Terminal, Finish(w, s)
  PROVE  Left(w)
<1> DEFINE r == [proc[w].rec EXCEPT !.state = s]
           f == [proc[w] EXCEPT !.pc = "finish", !.rec = r]
<1>1. w \in Process /\ proc[w].rec \in Saved
  BY DEF Process, Frame
<1>2. r \in Saved
  BY <1>1 DEF Saved
<1>3. f \in Frame /\ f.pc = "finish"
  BY <1>2 DEF Frame
<1>4. proc' = [proc EXCEPT ![w] = f]
  BY <1>1 DEF Finish, TypeOK
<1> QED BY <1>3, <1>4 DEF Left

LEMMA ReturnType ==
  ASSUME NEW w \in Worker, Return(w)
  PROVE  Left(w)
BY DEF Left, Return, Idle

\* A worker's step is well typed if what it leaves and writes is.
LEMMA WorkerType ==
  ASSUME TypeOK, NEW w \in Worker, Left(w),
         record' \in [Op -> Saved \union {NoRecord}], target' \in Object,
         effects' \in [Op -> Nat], recovered' \subseteq Op,
         UNCHANGED <<now, orphans, acks>>
  PROVE  TypeOK'
<1>1. PICK f \in Frame \union {Idle} : f.pc # "approve"
                                       /\ proc' = [proc EXCEPT ![w] = f]
  BY DEF Left
<1>2. w \in Process /\ w \notin Request
  BY SeparateProcesses DEF Process
<1> QED BY <1>1, <1>2, ProcType DEF TypeOK

LEMMA TypeInit == Init => TypeOK
<1> SUFFICES ASSUME Init PROVE TypeOK
  OBVIOUS
<1>1. target \in Object
  BY DEF Init, Fresh, Object, Health
<1> QED BY <1>1 DEF Init, TypeOK, Process, Idle

\* A step that leaves the frames of workers and requests well typed, and
\* writes records, the Deployment and the histories as the actions do.
LEMMA TypeStep == TypeOK /\ [Next]_vars => TypeOK'
<1> SUFFICES ASSUME TypeOK, [Next]_vars PROVE TypeOK'
  OBVIOUS
<1>1. CASE UNCHANGED vars
  BY <1>1 DEF vars, TypeOK
<1> SUFFICES ASSUME Next PROVE TypeOK'
  BY <1>1
<1>r. recovered' \subseteq Op
  BY DEF Next, Observe, TypeOK
<1>2. ASSUME NEW o \in Op, SaveDurablePlan(o) PROVE TypeOK'
  <2>0. PICK t \in Clock : \E r \in Plans(target, t) :
                             record' = [record EXCEPT ![o] = r]
    BY <1>2 DEF SaveDurablePlan
  <2>1. PICK r \in Plans(target, t) : record' = [record EXCEPT ![o] = r]
    BY <2>0
  <2>2. t \in Nat
    BY ClockType
  <2>3. target.uid \in Nat \ {0} /\ target.rv \in Nat \ {0}
    BY DEF TypeOK, Object
  <2>4. r \in Saved
    BY <2>2, <2>3 DEF Plans, Saved
  <2> QED BY <1>2, <1>r, <2>1, <2>4 DEF SaveDurablePlan, TypeOK
<1>3. ASSUME NEW q \in Request, NEW a \in Actor, NEW o \in Op, ApproveRead(q, a, o)
      PROVE  TypeOK'
  <2>0. acks' = acks \/ acks' = acks \union {<<a, o>>}
    BY <1>3 DEF ApproveRead
  <2>1. acks' \subseteq Actor \X Op
    BY <2>0 DEF TypeOK
  <2>2. CASE UNCHANGED proc
    BY <1>3, <1>r, <2>1, <2>2 DEF ApproveRead, TypeOK
  <2>3. CASE ~UNCHANGED proc
    <3>1. record[o].state = "Planned"
      BY <1>3, <2>3 DEF ApproveRead
    <3>2. record[o] \in Saved
      BY <3>1, PlannedIsSaved DEF TypeOK
    <3>3. PICK t \in Clock :
            \/ Call(q, "finish", o, [record[o] EXCEPT !.state = "Expired"])
            \/ Call(q, "approve", o, [record[o] EXCEPT !.state = "Approved",
                                                       !.actor = a,
                                                       !.approvedAt = t])
      BY <1>3, <2>3 DEF ApproveRead
    <3>4. t \in Nat
      BY ClockType
    <3>5. /\ [record[o] EXCEPT !.state = "Expired"] \in Saved
          /\ [record[o] EXCEPT !.state = "Approved", !.actor = a,
                               !.approvedAt = t] \in Saved
      BY <3>2, <3>4 DEF Saved
    <3>6. PICK f \in Frame : /\ f.pc \in {"finish", "approve"}
                             /\ proc' = [proc EXCEPT ![q] = f]
      <4>1. [record[o] EXCEPT !.state = "Approved", !.actor = a,
                              !.approvedAt = t].actor = a
        BY <3>2 DEF Saved
      <4> QED BY <3>3, <3>5, <4>1, DistinctNames DEF Call, Frame
    <3>7. q \in Process /\ q \notin Worker
      BY SeparateProcesses DEF Process
    <3> QED BY <1>3, <1>r, <2>1, <3>6, <3>7, ProcType DEF ApproveRead, TypeOK
  <2> QED BY <2>2, <2>3
<1>4. ASSUME NEW q \in Request, ApproveWrite(q) PROVE TypeOK'
  <2>1. q \in Process /\ proc[q] \in Frame /\ proc[q].pc = "approve"
    BY <1>4, BusyFrame DEF ApproveWrite, TypeOK, Process
  <2>2. record' \in [Op -> Saved \union {NoRecord}]
    BY <1>4, <2>1, UpdateType DEF ApproveWrite
  <2>3. acks' \subseteq Actor \X Op
    <3>1. proc[q].op \in Op /\ proc[q].rec.actor \in Actor
      BY <2>1 DEF Frame, Saved
    <3> QED BY <1>4, <3>1 DEF ApproveWrite, TypeOK
  <2>4. Idle.pc = "idle" /\ proc' = [proc EXCEPT ![q] = Idle]
    BY <1>4 DEF Idle, ApproveWrite, Return
  <2> QED BY <1>4, <1>r, <2>1, <2>2, <2>3, <2>4, ProcType DEF ApproveWrite, TypeOK
<1>5. ASSUME NEW w \in Worker, NEW o \in Op, Start(w, o) PROVE TypeOK'
  <2>1. PICK t \in Clock :
          \/ /\ record[o].state = "Planned"
             /\ Call(w, "finish", o, [record[o] EXCEPT !.state = "Expired"])
          \/ /\ Reconciled(record[o])
             /\ Call(w, "claim", o, Claimed(record[o], w, t))
    BY <1>5 DEF Start
  <2>2. t \in Nat
    BY ClockType
  <2>3. record[o] \in Saved
    BY <2>1, PlannedIsSaved DEF TypeOK, Reconciled
  <2>4. [record[o] EXCEPT !.state = "Expired"] \in Saved
    BY <2>3 DEF Saved
  <2>5. Claimed(record[o], w, t).owner = w /\ w # None
    BY <2>3, DistinctNames DEF Claimed, Saved
  <2>6. Reconciled(record[o]) => Claimed(record[o], w, t) \in Saved
    BY <2>2, <2>3, ClaimedType
  <2>7. Left(w)
    BY <2>1, <2>4, <2>5, <2>6 DEF Call, Frame, Left
  <2> QED BY <1>5, <1>r, <2>7, WorkerType DEF Start, TypeOK
<1>w. ASSUME NEW w \in Worker, proc[w].pc # "idle"
      PROVE  /\ proc[w] \in Frame /\ proc[w].op \in Op /\ proc[w].rec \in Saved
             /\ w \in Process
  BY <1>w, BusyFrame DEF TypeOK, Process, Frame
<1>6. ASSUME NEW w \in Worker, ClaimWrite(w) PROVE TypeOK'
  <2>1. record' \in [Op -> Saved \union {NoRecord}]
    BY <1>6, <1>w, UpdateType DEF ClaimWrite
  <2>2. Left(w)
    BY <1>6, <1>w, ProceedType, ReturnType DEF ClaimWrite
  <2> QED BY <1>6, <1>r, <2>1, <2>2, WorkerType DEF ClaimWrite, TypeOK
<1>7. ASSUME NEW w \in Worker, Reread(w) PROVE TypeOK'
  <2> DEFINE f == proc[w]
             r == record[f.op]
  <2>1. f.pc = "reread" /\ f \in Frame /\ f.op \in Op /\ f.rec.owner # None
    BY <1>7, <1>w DEF Reread, Frame
  <2>2. CASE HoldsClaim(f)
    <3>1. r \in Saved /\ r.owner # None
      BY <2>1, <2>2 DEF HoldsClaim, TypeOK, NoRecord
    <3>2. [r EXCEPT !.state = "NeedsReview"] \in Saved
      BY <3>1 DEF Saved
    <3>3. PICK pc \in {"finish", "inspect"}, s \in Saved :
            /\ s.owner # None
            /\ proc' = [proc EXCEPT ![w].pc = pc, ![w].rec = s]
      <4>1. [r EXCEPT !.state = "NeedsReview"].owner = r.owner
        BY <3>1 DEF Saved
      <4> QED BY <1>7, <2>2, <3>1, <3>2, <4>1 DEF Reread
    <3>4. proc' = [proc EXCEPT ![w] = [f EXCEPT !.pc = pc, !.rec = s]]
      BY <1>7, <1>w, <3>3 DEF TypeOK, Reread
    <3>5. [f EXCEPT !.pc = pc, !.rec = s] \in Frame
          /\ [f EXCEPT !.pc = pc, !.rec = s].pc = pc
      BY <2>1, <3>3 DEF Frame
    <3>6. Left(w)
      BY <3>4, <3>5 DEF Left
    <3> QED BY <1>7, <1>r, <3>6, WorkerType DEF Reread, TypeOK
  <2>3. CASE ~HoldsClaim(f)
    BY <1>7, <1>r, <2>3, ReturnType, WorkerType DEF Reread, TypeOK
  <2> QED BY <2>2, <2>3
<1>8. ASSUME NEW w \in Worker, Inspect(w) PROVE TypeOK'
  <2>1. proc[w].pc = "inspect" /\ proc[w] \in Frame
    BY <1>8, <1>w DEF Inspect
  <2>2. \/ \E s \in Claimable \union Terminal : Finish(w, s)
        \/ Proceed(w, "dryrun") \/ Return(w)
    BY <1>8 DEF Inspect
  <2>3. Left(w)
    BY <2>1, <2>2, FinishType, ProceedType, ReturnType
  <2> QED BY <1>8, <1>r, <2>3, WorkerType DEF Inspect, TypeOK
<1>9. ASSUME NEW w \in Worker, DryRun(w) PROVE TypeOK'
  <2>1. proc[w].pc = "dryrun" /\ proc[w] \in Frame
    BY <1>9, <1>w DEF DryRun
  <2>2. Left(w)
    BY <1>9, <2>1, FinishType, ProceedType DEF DryRun
  <2> QED BY <1>9, <1>r, <2>2, WorkerType DEF DryRun, TypeOK
<1>10. ASSUME NEW w \in Worker, Recheck(w) PROVE TypeOK'
  <2>1. proc[w].pc = "recheck" /\ proc[w] \in Frame
    BY <1>10, <1>w DEF Recheck
  <2>2. Proceed(w, "prepare") \/ Return(w)
    BY <1>10 DEF Recheck
  <2>3. Left(w)
    BY <2>1, <2>2, ReturnType, ProceedType
  <2> QED BY <1>10, <1>r, <2>3, WorkerType DEF Recheck, TypeOK
<1>11. ASSUME NEW w \in Worker, Prepare(w) PROVE TypeOK'
  <2> DEFINE f == [proc[w] EXCEPT !.pc = "patch", !.annRv = target.rv]
  <2>1. proc[w].pc = "prepare" /\ proc[w] \in Frame /\ w \in Process
    BY <1>11, <1>w DEF Prepare
  <2>2. f \in Frame /\ f.pc = "patch"
    BY <2>1 DEF Frame, TypeOK, Object
  <2>3. proc' = [proc EXCEPT ![w] = f]
    BY <1>11, <2>1 DEF Prepare, TypeOK
  <2>4. Left(w)
    BY <2>2, <2>3 DEF Left
  <2> QED BY <1>11, <1>r, <2>4, WorkerType DEF Prepare, TypeOK
<1>12. ASSUME NEW w \in Worker, Patch(w) PROVE TypeOK'
  <2>1. proc[w].pc = "patch" /\ proc[w] \in Frame
    BY <1>12, <1>w DEF Patch
  <2>2. target' \in Object /\ effects' \in [Op -> Nat]
    BY <1>12, <2>1, ApplyPatchType DEF Patch
  <2>3. Finish(w, "Verifying") \/ Return(w)
    BY <1>12 DEF Patch
  <2>4. Left(w)
    BY <2>1, <2>3, FinishType, ReturnType
  <2> QED BY <1>12, <1>r, <2>2, <2>4, WorkerType DEF Patch, TypeOK
<1>13. ASSUME NEW p \in Process, FinishWrite(p) PROVE TypeOK'
  <2>1. proc[p].pc = "finish" /\ proc[p] \in Frame
    BY <1>13, BusyFrame DEF FinishWrite, TypeOK
  <2>2. record' \in [Op -> Saved \union {NoRecord}]
    BY <1>13, <2>1, UpdateType DEF FinishWrite
  <2>3. proc' = [proc EXCEPT ![p] = Idle] /\ Idle.pc = "idle"
    BY <1>13 DEF FinishWrite, Return, Idle
  <2> QED BY <1>13, <1>r, <2>2, <2>3, ProcType DEF FinishWrite, TypeOK
<1>14. ASSUME NEW p \in Process, GiveUp(p) PROVE TypeOK'
  <2>1. proc' = [proc EXCEPT ![p] = Idle] /\ Idle.pc = "idle"
    BY <1>14 DEF GiveUp, Return, Idle
  <2>2. proc[p] \in Frame
    BY <1>14 DEF GiveUp, TypeOK
  <2>3. orphans' \subseteq {f \in Frame : f.pc \in Sending}
    BY <1>14, <2>2 DEF GiveUp, Abandon, TypeOK
  <2> QED BY <1>14, <1>r, <2>1, <2>3, ProcType DEF GiveUp, TypeOK
<1>15. ASSUME NEW f \in orphans, OrphanLands(f) PROVE TypeOK'
  <2>1. f \in Frame /\ orphans' \subseteq {g \in Frame : g.pc \in Sending}
    BY <1>15 DEF OrphanLands, TypeOK
  <2>2. record' \in [Op -> Saved \union {NoRecord}]
    BY <1>15, <2>1, UpdateType DEF OrphanLands, TypeOK
  <2>3. target' \in Object /\ effects' \in [Op -> Nat]
    BY <1>15, <2>1, ApplyPatchType DEF OrphanLands, TypeOK
  <2> QED BY <1>15, <1>r, <2>1, <2>2, <2>3 DEF OrphanLands, TypeOK
<1>16. ASSUME TargetChanges PROVE TypeOK'
  <2>1. target' \in Object
    BY <1>16, ExternalWriteType DEF TargetChanges, TypeOK
  <2> QED BY <1>16, <1>r, <2>1 DEF TargetChanges, TypeOK
<1>17. ASSUME Tick PROVE TypeOK'
  BY <1>17, <1>r DEF Tick, TypeOK
<1> QED
  BY <1>2, <1>3, <1>4, <1>5, <1>6, <1>7, <1>8, <1>9, <1>10, <1>11, <1>12, <1>13,
     <1>14, <1>15, <1>16, <1>17
  DEF Next, Step, RequestStep, WorkerStep, Process

\* Every stored record is a valid one, whatever is in flight is well formed,
\* and only requests approve, in every reachable state.
THEOREM TypeCorrect == Spec => []TypeOK
<1>1. Init => TypeOK
  BY TypeInit
<1>2. TypeOK /\ [Next]_vars => TypeOK'
  BY TypeStep
<1> QED BY <1>1, <1>2, PTL DEF Spec

-----------------------------------------------------------------------------
(* What a step does to the frames, the records and the Deployment.  The     *)
(* invariants below speak of all frames alike, those of processes and those *)
(* of abandoned requests.                                                   *)

Frames == {proc[p] : p \in {q \in Process : proc[q] # Idle}} \union orphans

\* A record is created.
Creates ==
  \E o \in Op, t \in Nat :
    /\ record[o] = NoRecord
    /\ target.exists
    /\ \E r \in Plans(target, t) : record' = [record EXCEPT ![o] = r]

\* The update of f is accepted.
Stores(f) ==
  /\ f.pc \in {"approve", "claim", "finish"}
  /\ Current(f)
  /\ record' = [record EXCEPT ![f.op] = [f.rec EXCEPT !.version = @ + 1]]

\* The patch of f takes effect.
TakesEffect(f) ==
  /\ f.pc = "patch"
  /\ PatchTestsPass(target, f.rec)
  /\ target' = Patched(target, f.op, f.rec)
  /\ effects' = [effects EXCEPT ![f.op] = @ + 1]

\* g is the first frame of an approval, of an expiry or of a claim.
Opened(g) ==
  LET r == record[g.op] IN
  /\ r # NoRecord
  /\ \/ /\ g.pc = "finish" /\ r.state = "Planned"
        /\ g.rec = [r EXCEPT !.state = "Expired"]
     \/ /\ g.pc = "approve" /\ r.state = "Planned"
        /\ \E a \in Actor, t \in Nat :
             /\ ~PlanExpired(r, t)
             /\ g.rec = [r EXCEPT !.state = "Approved", !.actor = a,
                                  !.approvedAt = t]
     \/ /\ g.pc = "claim" /\ Reconciled(r)
        /\ \E w \in Worker, t \in Clock :
             ~ClaimHeld(r, w, t) /\ g.rec = Claimed(r, w, t)

\* g goes on with the record of f.
Continues(f, g) ==
  /\ g.rec = f.rec
  /\ \/ f.pc = "inspect" /\ g.pc = "dryrun" /\ f.rec.state # "Verifying"
     \/ f.pc = "dryrun" /\ g.pc = "recheck"
     \/ f.pc = "recheck" /\ g.pc = "prepare"
     \/ f.pc = "prepare" /\ g.pc = "patch" /\ g.annRv = target.rv

\* g goes on with the record that f reads back.
Rereads(f, g) ==
  /\ f.pc = "reread" /\ HoldsClaim(f)
  /\ \/ g.pc = "inspect" /\ g.rec = record[f.op]
     \/ g.pc = "finish" /\ g.rec = [record[f.op] EXCEPT !.state = "NeedsReview"]

\* g stores the verdict s on the operation of f.
Concludes(f, g, s) ==
  /\ g.pc = "finish"
  /\ g.rec = [f.rec EXCEPT !.state = s]
  /\ \/ f.pc = "inspect" /\ s = "NeedsReview"
     \/ f.pc = "inspect" /\ s = "Succeeded" /\ VerifiedBy(target, f.op, f.rec)
     \/ /\ f.pc = "inspect" /\ s = "Verifying" /\ target.marker = f.op
        /\ f.rec.state # "Verifying"
     \/ f.pc = "dryrun" /\ s = "Failed"

\* How a frame comes about, and what else changes in that step.
Born(g) ==
  \/ UNCHANGED <<record, target, effects>> /\ Opened(g)
  \/ \E f \in Frames :
       /\ g.op = f.op
       /\ \/ /\ UNCHANGED <<target, effects>>
             /\ f.pc = "claim" /\ Stores(f)
             /\ g.pc = "reread" /\ g.rec = f.rec
          \/ /\ UNCHANGED <<record, target, effects>>
             /\ \/ Continues(f, g) \/ Rereads(f, g)
                \/ \E s \in Claimable \union Terminal : Concludes(f, g, s)
          \/ /\ UNCHANGED record
             /\ TakesEffect(f) /\ g.pc = "finish"
             /\ g.rec = [f.rec EXCEPT !.state = "Verifying"]

\* Frames are well formed.
LEMMA FramesType ==
  ASSUME TypeOK, NEW f \in Frames
  PROVE  f \in Frame /\ f.op \in Op /\ f.rec \in Saved
BY DEF TypeOK, Frames, Frame

\* A process step adds at most the frame it leaves behind.
LEMMA FramesOfProc ==
  ASSUME TypeOK, NEW p \in Process, NEW x, proc' = [proc EXCEPT ![p] = x],
         orphans' \subseteq Frames, NEW g \in Frames'
  PROVE  g \in Frames \/ (g = x /\ x # Idle)
BY DEF Frames, TypeOK

\* The frame of a process that opens a reconcile or an approval.
LEMMA CallFrame ==
  ASSUME NEW p, NEW pc, NEW o, NEW rec, Call(p, pc, o, rec)
  PROVE  \E x : /\ x.pc = pc /\ x.op = o /\ x.rec = rec
                /\ proc' = [proc EXCEPT ![p] = x]
<1> DEFINE x == [pc |-> pc, op |-> o, rec |-> rec, annRv |-> 0]
<1>1. x.pc = pc /\ x.op = o /\ x.rec = rec
  OBVIOUS
<1>2. proc' = [proc EXCEPT ![p] = x]
  BY DEF Call
<1> HIDE DEF x
<1> QED BY <1>1, <1>2

\* The frame of a process that goes on to its next call.
LEMMA ProceedFrame ==
  ASSUME TypeOK, NEW p \in Process, proc[p] \in Frame, NEW pc, Proceed(p, pc)
  PROVE  \E x : /\ x.pc = pc /\ x.op = proc[p].op /\ x.rec = proc[p].rec
                /\ proc' = [proc EXCEPT ![p] = x]
<1> DEFINE x == [proc[p] EXCEPT !.pc = pc]
<1>1. x.pc = pc /\ x.op = proc[p].op /\ x.rec = proc[p].rec
  BY DEF Frame
<1>2. proc' = [proc EXCEPT ![p] = x]
  BY DEF Proceed, TypeOK
<1> HIDE DEF x
<1> QED BY <1>1, <1>2

\* The frame of a process that stores its verdict.
LEMMA FinishFrame ==
  ASSUME TypeOK, NEW p \in Process, proc[p] \in Frame, NEW s, Finish(p, s)
  PROVE  \E x : /\ x.pc = "finish" /\ x.op = proc[p].op
                /\ x.rec = [proc[p].rec EXCEPT !.state = s]
                /\ proc' = [proc EXCEPT ![p] = x]
<1> DEFINE r == [proc[p].rec EXCEPT !.state = s]
           x == [proc[p] EXCEPT !.pc = "finish", !.rec = r]
<1>1. x.pc = "finish" /\ x.op = proc[p].op /\ x.rec = r
  BY DEF Frame
<1>2. proc' = [proc EXCEPT ![p] = x]
  BY DEF Finish, TypeOK
<1> HIDE DEF x
<1> QED BY <1>1, <1>2

\* Every new frame is born in one of these ways.
LEMMA FrameStep ==
  ASSUME TypeOK, Step, NEW g \in Frames'
  PROVE  g \in Frames \/ Born(g)
<1>0. orphans \subseteq Frames
  BY DEF Frames
<1>w. ASSUME NEW w \in Process, proc[w].pc # "idle"
      PROVE  /\ proc[w] \in Frames /\ proc[w] \in Frame
             /\ proc[w].op \in Op /\ proc[w].rec \in Saved
  BY <1>w, BusyFrame DEF TypeOK, Frame, Frames, Idle
<1>p. Worker \subseteq Process /\ Request \subseteq Process
  BY DEF Process
<1>1. ASSUME NEW o \in Op, SaveDurablePlan(o) PROVE g \in Frames
  BY <1>1 DEF SaveDurablePlan, Frames
<1>2. ASSUME NEW q \in Request, NEW a \in Actor, NEW o \in Op, ApproveRead(q, a, o)
      PROVE  g \in Frames \/ Born(g)
  <2>1. CASE UNCHANGED proc
    BY <1>2, <2>1 DEF ApproveRead, Frames
  <2>2. CASE ~UNCHANGED proc
    <3>1. record[o].state = "Planned"
      BY <1>2, <2>2 DEF ApproveRead
    <3>2. PICK t \in Clock :
            \/ Call(q, "finish", o, [record[o] EXCEPT !.state = "Expired"])
            \/ /\ ~PlanExpired(record[o], t)
               /\ Call(q, "approve", o, [record[o] EXCEPT !.state = "Approved",
                                                          !.actor = a,
                                                          !.approvedAt = t])
      BY <1>2, <2>2 DEF ApproveRead
    <3>3. t \in Nat
      BY ClockType
    <3>4. PICK pc, rec :
            /\ Call(q, pc, o, rec)
            /\ \/ pc = "finish" /\ rec = [record[o] EXCEPT !.state = "Expired"]
               \/ /\ pc = "approve" /\ ~PlanExpired(record[o], t)
                  /\ rec = [record[o] EXCEPT !.state = "Approved", !.actor = a,
                                             !.approvedAt = t]
      BY <3>2
    <3>x. PICK x : /\ x.pc = pc /\ x.op = o /\ x.rec = rec
                   /\ proc' = [proc EXCEPT ![q] = x]
      BY <3>4, CallFrame
    <3>5. record[o] # NoRecord
      BY <3>1 DEF NoRecord
    <3>6. Opened(x)
      BY <3>1, <3>3, <3>4, <3>x, <3>5 DEF Opened
    <3>7. g \in Frames \/ g = x
      BY <1>2, <1>0, <1>p, <3>x, FramesOfProc DEF ApproveRead
    <3> QED BY <1>2, <3>6, <3>7 DEF Born, ApproveRead
  <2> QED BY <2>1, <2>2
<1>3. ASSUME NEW q \in Request, ApproveWrite(q) PROVE g \in Frames
  BY <1>3, <1>0, <1>p, FramesOfProc DEF ApproveWrite, Return
<1>4. ASSUME NEW w \in Worker, NEW o \in Op, Start(w, o)
      PROVE  g \in Frames \/ Born(g)
  <2>1. PICK t \in Clock :
          \/ /\ record[o].state = "Planned"
             /\ Call(w, "finish", o, [record[o] EXCEPT !.state = "Expired"])
          \/ /\ Reconciled(record[o])
             /\ ~ClaimHeld(record[o], w, t)
             /\ Call(w, "claim", o, Claimed(record[o], w, t))
    BY <1>4 DEF Start
  <2>3. record[o] # NoRecord
    BY <2>1 DEF NoRecord, Reconciled
  <2>4. PICK pc, rec :
          /\ Call(w, pc, o, rec)
          /\ \/ /\ pc = "finish" /\ record[o].state = "Planned"
                /\ rec = [record[o] EXCEPT !.state = "Expired"]
             \/ /\ pc = "claim" /\ Reconciled(record[o])
                /\ ~ClaimHeld(record[o], w, t)
                /\ rec = Claimed(record[o], w, t)
    BY <2>1
  <2>x. PICK x : /\ x.pc = pc /\ x.op = o /\ x.rec = rec
                 /\ proc' = [proc EXCEPT ![w] = x]
    BY <2>4, CallFrame
  <2>5. Opened(x)
    BY <2>3, <2>4, <2>x DEF Opened
  <2>6. g \in Frames \/ g = x
    BY <1>4, <1>0, <1>p, <2>x, FramesOfProc DEF Start
  <2> QED BY <1>4, <2>5, <2>6 DEF Born, Start
<1>5. ASSUME NEW w \in Worker, ClaimWrite(w) PROVE g \in Frames \/ Born(g)
  <2> DEFINE f == proc[w]
  <2>1. f \in Frames /\ f \in Frame /\ f.pc = "claim"
    BY <1>5, <1>w, <1>p DEF ClaimWrite
  <2>2. CASE Current(f)
    <3>1. Stores(f)
      BY <1>5, <2>1, <2>2 DEF ClaimWrite, Update, Stores
    <3>2. PICK x : /\ x.pc = "reread" /\ x.op = f.op /\ x.rec = f.rec
                   /\ proc' = [proc EXCEPT ![w] = x]
      BY <1>5, <1>p, <2>1, <2>2, ProceedFrame DEF ClaimWrite
    <3>3. g \in Frames \/ g = x
      BY <1>5, <1>0, <1>p, <3>2, FramesOfProc DEF ClaimWrite
    <3> QED BY <1>5, <2>1, <3>1, <3>2, <3>3 DEF Born, ClaimWrite
  <2>3. CASE ~Current(f)
    BY <1>5, <1>0, <1>p, <2>3, FramesOfProc DEF ClaimWrite, Return
  <2> QED BY <2>2, <2>3
<1>6. ASSUME NEW w \in Worker, Reread(w) PROVE g \in Frames \/ Born(g)
  <2> DEFINE f == proc[w]
  <2>1. f \in Frames /\ f \in Frame /\ f.pc = "reread"
    BY <1>6, <1>w, <1>p DEF Reread
  <2>2. CASE HoldsClaim(f)
    <3>1. PICK pc, rec :
            /\ \/ pc = "finish" /\ rec = [record[f.op] EXCEPT !.state = "NeedsReview"]
               \/ pc = "inspect" /\ rec = record[f.op]
            /\ proc' = [proc EXCEPT ![w].pc = pc, ![w].rec = rec]
      BY <1>6, <2>2 DEF Reread
    <3> DEFINE x == [f EXCEPT !.pc = pc, !.rec = rec]
    <3>2. x.pc = pc /\ x.op = f.op /\ x.rec = rec
      BY <2>1 DEF Frame
    <3>3. proc' = [proc EXCEPT ![w] = x]
      BY <1>p, <3>1 DEF TypeOK
    <3> HIDE DEF x
    <3>4. g \in Frames \/ g = x
      BY <1>6, <1>0, <1>p, <3>3, FramesOfProc DEF Reread
    <3>5. Rereads(f, x)
      BY <2>1, <2>2, <3>1, <3>2 DEF Rereads
    <3> QED BY <1>6, <2>1, <3>2, <3>4, <3>5 DEF Born, Reread
  <2>3. CASE ~HoldsClaim(f)
    BY <1>6, <1>0, <1>p, <2>3, FramesOfProc DEF Reread, Return
  <2> QED BY <2>2, <2>3
<1>7. ASSUME NEW w \in Worker, Inspect(w) PROVE g \in Frames \/ Born(g)
  <2> DEFINE f == proc[w]
  <2>1. f \in Frames /\ f \in Frame /\ f.pc = "inspect"
    BY <1>7, <1>w, <1>p DEF Inspect
  <2>2. \/ Proceed(w, "dryrun") /\ f.rec.state # "Verifying"
        \/ Return(w)
        \/ \E s : /\ Finish(w, s)
                  /\ \/ s = "NeedsReview"
                     \/ s = "Succeeded" /\ VerifiedBy(target, f.op, f.rec)
                     \/ /\ s = "Verifying" /\ target.marker = f.op
                        /\ f.rec.state # "Verifying"
    BY <1>7 DEF Inspect, Recovering, MayApply, Applied
  <2>3. UNCHANGED <<record, target, effects, orphans>>
    BY <1>7 DEF Inspect
  <2>4. CASE Proceed(w, "dryrun") /\ f.rec.state # "Verifying"
    <3>1. PICK x : /\ x.pc = "dryrun" /\ x.op = f.op /\ x.rec = f.rec
                   /\ proc' = [proc EXCEPT ![w] = x]
      BY <1>p, <2>1, <2>4, ProceedFrame
    <3>2. g \in Frames \/ g = x
      BY <2>3, <1>0, <1>p, <3>1, FramesOfProc
    <3>3. Continues(f, x)
      BY <2>1, <2>4, <3>1 DEF Continues
    <3> QED BY <2>1, <2>3, <3>1, <3>2, <3>3 DEF Born
  <2>5. CASE Return(w)
    BY <2>3, <1>0, <1>p, <2>5, FramesOfProc DEF Return
  <2>6. ASSUME NEW s, Finish(w, s),
               \/ s = "NeedsReview"
               \/ s = "Succeeded" /\ VerifiedBy(target, f.op, f.rec)
               \/ s = "Verifying" /\ target.marker = f.op /\ f.rec.state # "Verifying"
        PROVE  g \in Frames \/ Born(g)
    <3>1. PICK x : /\ x.pc = "finish" /\ x.op = f.op
                   /\ x.rec = [f.rec EXCEPT !.state = s]
                   /\ proc' = [proc EXCEPT ![w] = x]
      BY <1>p, <2>1, <2>6, FinishFrame
    <3>2. g \in Frames \/ g = x
      BY <2>3, <1>0, <1>p, <3>1, FramesOfProc
    <3>3. Concludes(f, x, s) /\ s \in Claimable \union Terminal
      BY <2>1, <2>6, <3>1 DEF Concludes
    <3> QED BY <2>1, <2>3, <3>1, <3>2, <3>3 DEF Born
  <2> QED BY <2>2, <2>4, <2>5, <2>6
<1>8. ASSUME NEW w \in Worker, DryRun(w) PROVE g \in Frames \/ Born(g)
  <2> DEFINE f == proc[w]
  <2>1. f \in Frames /\ f \in Frame /\ f.pc = "dryrun"
    BY <1>8, <1>w, <1>p DEF DryRun
  <2>2. UNCHANGED <<record, target, effects, orphans>>
    BY <1>8 DEF DryRun
  <2>3. CASE Proceed(w, "recheck")
    <3>1. PICK x : /\ x.pc = "recheck" /\ x.op = f.op /\ x.rec = f.rec
                   /\ proc' = [proc EXCEPT ![w] = x]
      BY <1>p, <2>1, <2>3, ProceedFrame
    <3>2. g \in Frames \/ g = x
      BY <2>2, <1>0, <1>p, <3>1, FramesOfProc
    <3>3. Continues(f, x)
      BY <2>1, <3>1 DEF Continues
    <3> QED BY <2>1, <2>2, <3>1, <3>2, <3>3 DEF Born
  <2>4. CASE Finish(w, "Failed")
    <3>1. PICK x : /\ x.pc = "finish" /\ x.op = f.op
                   /\ x.rec = [f.rec EXCEPT !.state = "Failed"]
                   /\ proc' = [proc EXCEPT ![w] = x]
      BY <1>p, <2>1, <2>4, FinishFrame
    <3>2. g \in Frames \/ g = x
      BY <2>2, <1>0, <1>p, <3>1, FramesOfProc
    <3>3. Concludes(f, x, "Failed")
      BY <2>1, <3>1 DEF Concludes
    <3> QED BY <2>1, <2>2, <3>1, <3>2, <3>3 DEF Born
  <2> QED BY <1>8, <2>3, <2>4 DEF DryRun
<1>9. ASSUME NEW w \in Worker, Recheck(w) PROVE g \in Frames \/ Born(g)
  <2> DEFINE f == proc[w]
  <2>1. f \in Frames /\ f \in Frame /\ f.pc = "recheck"
    BY <1>9, <1>w, <1>p DEF Recheck
  <2>2. UNCHANGED <<record, target, effects, orphans>>
    BY <1>9 DEF Recheck
  <2>3. CASE Proceed(w, "prepare")
    <3>1. PICK x : /\ x.pc = "prepare" /\ x.op = f.op /\ x.rec = f.rec
                   /\ proc' = [proc EXCEPT ![w] = x]
      BY <1>p, <2>1, <2>3, ProceedFrame
    <3>2. g \in Frames \/ g = x
      BY <2>2, <1>0, <1>p, <3>1, FramesOfProc
    <3>3. Continues(f, x)
      BY <2>1, <3>1 DEF Continues
    <3> QED BY <2>1, <2>2, <3>1, <3>2, <3>3 DEF Born
  <2>4. CASE Return(w)
    BY <2>2, <1>0, <1>p, <2>4, FramesOfProc DEF Return
  <2> QED BY <1>9, <2>3, <2>4 DEF Recheck
<1>10. ASSUME NEW w \in Worker, Prepare(w) PROVE g \in Frames \/ Born(g)
  <2> DEFINE f == proc[w]
             x == [f EXCEPT !.pc = "patch", !.annRv = target.rv]
  <2>1. f \in Frames /\ f \in Frame /\ f.pc = "prepare"
    BY <1>10, <1>w, <1>p DEF Prepare
  <2>2. x.pc = "patch" /\ x.op = f.op /\ x.rec = f.rec /\ x.annRv = target.rv
    BY <2>1 DEF Frame
  <2>3. proc' = [proc EXCEPT ![w] = x]
    BY <1>10, <1>p DEF Prepare, TypeOK
  <2> HIDE DEF x
  <2>4. g \in Frames \/ g = x
    BY <1>10, <1>0, <1>p, <2>3, FramesOfProc DEF Prepare
  <2>5. Continues(f, x)
    BY <2>1, <2>2 DEF Continues
  <2> QED BY <1>10, <2>1, <2>2, <2>4, <2>5 DEF Born, Prepare
<1>11. ASSUME NEW w \in Worker, Patch(w) PROVE g \in Frames \/ Born(g)
  <2> DEFINE f == proc[w]
  <2>1. f \in Frames /\ f \in Frame /\ f.pc = "patch"
    BY <1>11, <1>w, <1>p DEF Patch
  <2>2. CASE PatchTestsPass(target, f.rec)
    <3>1. TakesEffect(f) /\ Finish(w, "Verifying")
      BY <1>11, <2>1, <2>2 DEF Patch, ApplyPatch, TakesEffect
    <3>2. PICK x : /\ x.pc = "finish" /\ x.op = f.op
                   /\ x.rec = [f.rec EXCEPT !.state = "Verifying"]
                   /\ proc' = [proc EXCEPT ![w] = x]
      BY <1>p, <2>1, <3>1, FinishFrame
    <3>3. g \in Frames \/ g = x
      BY <1>11, <1>0, <1>p, <3>2, FramesOfProc DEF Patch
    <3> QED BY <1>11, <2>1, <3>1, <3>2, <3>3 DEF Born, Patch
  <2>3. CASE ~PatchTestsPass(target, f.rec)
    BY <1>11, <1>0, <1>p, <2>3, FramesOfProc DEF Patch, Return
  <2> QED BY <2>2, <2>3
<1>12. ASSUME NEW p \in Process, FinishWrite(p) PROVE g \in Frames
  BY <1>12, <1>0, FramesOfProc DEF FinishWrite, Return
<1>13. ASSUME NEW p \in Process, GiveUp(p) PROVE g \in Frames
  <2>1. orphans' \subseteq Frames
    BY <1>13, <1>0 DEF GiveUp, Abandon, Frames
  <2> QED BY <1>13, <2>1, FramesOfProc DEF GiveUp, Return
<1>14. ASSUME NEW f \in orphans, OrphanLands(f) PROVE g \in Frames
  BY <1>14 DEF OrphanLands, Frames
<1>15. CASE TargetChanges
  BY <1>15 DEF TargetChanges, Frames
<1>16. CASE Tick
  BY <1>16 DEF Tick, Frames
<1> QED
  BY <1>p, <1>1, <1>2, <1>3, <1>4, <1>5, <1>6, <1>7, <1>8, <1>9, <1>10, <1>11,
     <1>12, <1>13, <1>14, <1>15, <1>16
  DEF Step, RequestStep, WorkerStep

\* A step creates a record, stores one update or leaves the records alone.
LEMMA RecordStep ==
  ASSUME TypeOK, Step
  PROVE  \/ UNCHANGED record
         \/ UNCHANGED <<target, effects>> /\ Creates
         \/ UNCHANGED <<target, effects>> /\ \E f \in Frames : Stores(f)
<1>p. ASSUME NEW p \in Process, proc[p].pc \in {"claim", "approve", "finish"},
             Update(proc[p])
      PROVE  UNCHANGED record \/ \E f \in Frames : Stores(f)
  <2>1. proc[p] \in Frames
    BY <1>p DEF Frames, Idle
  <2>2. CASE Current(proc[p])
    BY <1>p, <2>1, <2>2 DEF Update, Stores
  <2>3. CASE ~Current(proc[p])
    BY <1>p, <2>3 DEF Update
  <2> QED BY <2>2, <2>3
<1>1. ASSUME NEW o \in Op, SaveDurablePlan(o) PROVE UNCHANGED <<target, effects>> /\ Creates
  <2>1. PICK t \in Clock : \E r \in Plans(target, t) :
                             record' = [record EXCEPT ![o] = r]
    BY <1>1 DEF SaveDurablePlan
  <2>2. t \in Nat
    BY ClockType
  <2> QED BY <1>1, <2>1, <2>2 DEF SaveDurablePlan, Creates
<1>2. ASSUME NEW q \in Request, RequestStep(q)
      PROVE  /\ UNCHANGED <<target, effects>>
             /\ UNCHANGED record \/ \E f \in Frames : Stores(f)
  BY <1>2, <1>p DEF RequestStep, ApproveRead, ApproveWrite, FinishWrite, Process
<1>3. ASSUME NEW w \in Worker, WorkerStep(w), ~Patch(w)
      PROVE  /\ UNCHANGED <<target, effects>>
             /\ UNCHANGED record \/ \E f \in Frames : Stores(f)
  BY <1>3, <1>p DEF WorkerStep, Start, ClaimWrite, Reread, Inspect, DryRun, Recheck,
                    Prepare, FinishWrite, Process
<1>4. ASSUME NEW f \in orphans, OrphanLands(f)
      PROVE  \/ UNCHANGED record
             \/ UNCHANGED <<target, effects>> /\ \E h \in Frames : Stores(h)
  BY <1>4 DEF OrphanLands, Update, Stores, Frames, TypeOK, Frame
<1> QED
  BY <1>1, <1>2, <1>3, <1>4
  DEF Step, Patch, GiveUp, TargetChanges, Tick

\* A step applies one patch, or somebody else writes to the Deployment, or it
\* stays as it is.
LEMMA TargetStep ==
  ASSUME TypeOK, Step
  PROVE  \/ UNCHANGED <<target, effects>>
         \/ UNCHANGED <<record, effects>> /\ ExternalWrite(target, target')
         \/ UNCHANGED record /\ \E f \in Frames : TakesEffect(f)
<1>1. ASSUME NEW w \in Worker, Patch(w)
      PROVE  \/ UNCHANGED <<target, effects>>
             \/ UNCHANGED record /\ \E f \in Frames : TakesEffect(f)
  BY <1>1 DEF Patch, ApplyPatch, TakesEffect, Frames, Process, Idle
<1>2. ASSUME NEW f \in orphans, OrphanLands(f)
      PROVE  \/ UNCHANGED <<target, effects>>
             \/ UNCHANGED record /\ \E h \in Frames : TakesEffect(h)
  BY <1>2 DEF OrphanLands, ApplyPatch, TakesEffect, Frames
<1>3. ASSUME NEW w \in Worker, WorkerStep(w), ~Patch(w)
      PROVE  UNCHANGED <<target, effects>>
  BY <1>3 DEF WorkerStep, Start, ClaimWrite, Reread, Inspect, DryRun, Recheck,
              Prepare, FinishWrite
<1> QED
  BY <1>1, <1>2, <1>3
  DEF Step, SaveDurablePlan, RequestStep, ApproveRead, ApproveWrite, FinishWrite,
      GiveUp, TargetChanges, Tick

-----------------------------------------------------------------------------
(* At most one effect, of the reviewed intent.                              *)

\* What a record keeps from its plan on.
SamePlan(r, s) ==
  /\ r.action = s.action /\ r.uid = s.uid /\ r.rv = s.rv
  /\ r.replicas = s.replicas /\ r.template = s.template
  /\ r.createdAt = s.createdAt

\* d still is what the plan r was made for, in the half of the intent that the
\* patch does not write.
AsReviewed(d, r) ==
  /\ d.uid = r.uid
  /\ IF r.action = "scale" THEN d.template = r.template
                           ELSE d.replicas = r.replicas /\ ~d.paused

\* Every copy of a record agrees with it on the plan.
PlanAgreement ==
  \A f \in Frames : record[f.op] # NoRecord /\ SamePlan(f.rec, record[f.op])

\* A record never knows a later Deployment than the live one, knows that one
\* as reviewed, and knows an earlier one once its patch has taken effect: the
\* resourceVersion test can pass only once.
PlanIsPast ==
  \A o \in Op :
    /\ record[o] # NoRecord =>
         /\ record[o].rv <= target.rv
         /\ record[o].rv = target.rv => AsReviewed(target, record[o])
    /\ effects[o] > 0 => record[o] # NoRecord /\ record[o].rv < target.rv

\* The annotations of a patch were read after the plan.
AnnotationsAreRecent ==
  \A f \in Frames : f.pc = "patch" =>
    record[f.op].rv <= f.annRv /\ f.annRv <= target.rv

EffectInv == /\ TypeOK /\ PlanAgreement /\ PlanIsPast /\ AnnotationsAreRecent
             /\ AtMostOneEffect

\* Neither a transition nor a claim touches the plan.
LEMMA Transitioned ==
  ASSUME NEW r \in Saved, NEW s
  PROVE  SamePlan([r EXCEPT !.state = s], r)
BY DEF Saved, SamePlan

LEMMA ClaimedBy ==
  ASSUME NEW r \in Saved, NEW w, NEW t
  PROVE  SamePlan(Claimed(r, w, t), r)
BY DEF Saved, SamePlan, Claimed

\* Whatever is written to it, the Deployment gets a new resourceVersion.
LEMMA TargetGrows ==
  ASSUME TypeOK, Step
  PROVE  target' = target \/ target'.rv = target.rv + 1
<1>1. ASSUME ExternalWrite(target, target') PROVE target'.rv = target.rv + 1
  <2>0. target \in Object
    BY DEF TypeOK
  <2>1. CASE Edited(target, target')
    BY <2>0, <2>1 DEF Edited, Object
  <2>2. CASE StatusReported(target, target')
    BY <2>0, <2>2 DEF StatusReported, Object
  <2>3. CASE Deleted(target, target')
    BY <2>0, <2>3 DEF Deleted, Object
  <2>4. CASE Recreated(target, target')
    BY <2>4 DEF Recreated
  <2> QED BY <1>1, <2>1, <2>2, <2>3, <2>4 DEF ExternalWrite
<1>2. ASSUME NEW f \in Frames, TakesEffect(f) PROVE target'.rv = target.rv + 1
  <2>0. target \in Object
    BY DEF TypeOK
  <2> QED BY <1>2, <2>0 DEF TakesEffect, Patched, Object
<1> QED BY <1>1, <1>2, TargetStep

\* A plan, once recorded, is never rewritten.
LEMMA PlanStable ==
  ASSUME TypeOK, PlanAgreement, Step, NEW o \in Op, record[o] # NoRecord
  PROVE  record'[o] # NoRecord /\ SamePlan(record'[o], record[o])
<1>1. record[o] \in Saved
  BY DEF TypeOK
<1>2. CASE UNCHANGED record
  BY <1>2 DEF SamePlan
<1>3. CASE Creates
  BY <1>3 DEF Creates, SamePlan, TypeOK
<1>4. ASSUME NEW f \in Frames, Stores(f)
      PROVE  record'[o] # NoRecord /\ SamePlan(record'[o], record[o])
  <2> DEFINE new == [f.rec EXCEPT !.version = f.rec.version + 1]
  <2>1. f.op \in Op /\ f.rec \in Saved /\ SamePlan(f.rec, record[f.op])
    BY FramesType DEF PlanAgreement
  <2>2. new \in Saved /\ SamePlan(new, f.rec)
    BY <2>1 DEF Saved, SamePlan
  <2>3. record' = [record EXCEPT ![f.op] = new]
    BY <1>4 DEF Stores
  <2> HIDE DEF new
  <2>4. CASE o = f.op
    BY <2>1, <2>2, <2>3, <2>4 DEF TypeOK, SamePlan, Saved, NoRecord
  <2>5. CASE o # f.op
    BY <2>1, <2>3, <2>5 DEF TypeOK, SamePlan
  <2> QED BY <2>4, <2>5
<1> QED BY <1>2, <1>3, <1>4, RecordStep

\* A new frame works on a planned operation, and agrees with it on the plan.
LEMMA BornAgrees ==
  ASSUME TypeOK, PlanAgreement, NEW g, g.op \in Op, Born(g)
  PROVE  record[g.op] # NoRecord /\ SamePlan(g.rec, record[g.op])
<1>1. CASE Opened(g)
  <2>1. record[g.op] \in Saved
    BY <1>1 DEF Opened, TypeOK
  <2>2. ASSUME g.rec = [record[g.op] EXCEPT !.state = "Expired"]
        PROVE  SamePlan(g.rec, record[g.op])
    BY <2>1, <2>2, Transitioned
  <2>3. ASSUME NEW a, NEW t,
               g.rec = [record[g.op] EXCEPT !.state = "Approved", !.actor = a,
                                            !.approvedAt = t]
        PROVE  SamePlan(g.rec, record[g.op])
    BY <2>1, <2>3 DEF Saved, SamePlan
  <2>4. ASSUME NEW w, NEW t, g.rec = Claimed(record[g.op], w, t)
        PROVE  SamePlan(g.rec, record[g.op])
    BY <2>1, <2>4, ClaimedBy
  <2> QED BY <1>1, <2>2, <2>3, <2>4 DEF Opened
<1>2. ASSUME NEW f \in Frames, g.op = f.op,
             \/ g.rec = f.rec
             \/ g.rec = record[f.op]
             \/ \E s : g.rec = [record[f.op] EXCEPT !.state = s]
             \/ \E s : g.rec = [f.rec EXCEPT !.state = s]
      PROVE  record[g.op] # NoRecord /\ SamePlan(g.rec, record[g.op])
  <2>1. /\ f.rec \in Saved /\ record[f.op] \in Saved
        /\ SamePlan(f.rec, record[f.op]) /\ record[f.op] # NoRecord
    BY FramesType DEF PlanAgreement, TypeOK
  <2>2. CASE g.rec = f.rec \/ g.rec = record[f.op]
    BY <1>2, <2>1, <2>2 DEF SamePlan
  <2>3. ASSUME NEW s, g.rec = [record[f.op] EXCEPT !.state = s]
        PROVE  SamePlan(g.rec, record[f.op])
    BY <2>1, <2>3, Transitioned
  <2>4. ASSUME NEW s, g.rec = [f.rec EXCEPT !.state = s]
        PROVE  SamePlan(g.rec, record[f.op])
    <3>1. SamePlan(g.rec, f.rec)
      BY <2>1, <2>4, Transitioned
    <3> QED BY <2>1, <3>1 DEF SamePlan
  <2> QED BY <1>2, <2>1, <2>2, <2>3, <2>4
<1>3. CASE ~Opened(g)
  <2>1. PICK f \in Frames :
          /\ g.op = f.op
          /\ \/ g.rec = f.rec
             \/ g.rec = record[f.op]
             \/ \E s : g.rec = [record[f.op] EXCEPT !.state = s]
             \/ \E s : g.rec = [f.rec EXCEPT !.state = s]
    BY <1>3 DEF Born, Continues, Rereads, Concludes
  <2> QED BY <1>2, <2>1
<1> QED BY <1>1, <1>3

LEMMA PlanAgreementStep ==
  ASSUME TypeOK, TypeOK', PlanAgreement, Step
  PROVE  PlanAgreement'
<1> SUFFICES ASSUME NEW g \in Frames'
             PROVE  record'[g.op] # NoRecord /\ SamePlan(g.rec, record'[g.op])
  BY DEF PlanAgreement
<1>1. g.op \in Op
  BY DEF TypeOK, Frames, Frame
<1>2. record[g.op] # NoRecord /\ SamePlan(g.rec, record[g.op])
  BY <1>1, FrameStep, BornAgrees DEF PlanAgreement
<1>3. record'[g.op] # NoRecord /\ SamePlan(record'[g.op], record[g.op])
  BY <1>1, <1>2, PlanStable
<1> QED BY <1>2, <1>3 DEF SamePlan

\* An effect is that of a patch of a planned operation, whose target is live
\* as it was planned.
LEMMA EffectStep ==
  ASSUME TypeOK, PlanAgreement, Step, NEW o \in Op, effects'[o] # effects[o]
  PROVE  /\ UNCHANGED record
         /\ record[o] # NoRecord /\ record[o].rv = target.rv
         /\ target'.rv = target.rv + 1
         /\ effects'[o] = effects[o] + 1
         /\ \E f \in Frames : f.op = o /\ TakesEffect(f)
<1>1. PICK f \in Frames : TakesEffect(f) /\ UNCHANGED record
  BY TargetStep
<1>2. f.op \in Op /\ f.rec \in Saved
  BY FramesType
<1>3. f.op = o /\ effects'[o] = effects[o] + 1
  BY <1>1, <1>2 DEF TakesEffect, TypeOK
<1>4. record[o] # NoRecord /\ f.rec.rv = record[o].rv
  BY <1>1, <1>3 DEF PlanAgreement, SamePlan
<1>5. f.rec.rv = target.rv
  BY <1>1 DEF TakesEffect, PatchTestsPass
<1>6. target'.rv = target.rv + 1
  BY <1>1, <1>2 DEF TakesEffect, Patched, TypeOK, Object
<1> QED BY <1>1, <1>3, <1>4, <1>5, <1>6

\* A record that appears is a plan made for the live Deployment.
LEMMA CreationStep ==
  ASSUME TypeOK, PlanAgreement, Step, NEW o \in Op,
         record[o] = NoRecord, record'[o] # NoRecord
  PROVE  /\ UNCHANGED target
         /\ record'[o].state = "Planned" /\ record'[o].rv = target.rv
         /\ AsReviewed(target, record'[o])
<1>1. ASSUME NEW f \in Frames, Stores(f) PROVE FALSE
  <2>1. f.op \in Op /\ f.op # o
    BY FramesType DEF PlanAgreement
  <2> QED BY <1>1, <2>1 DEF Stores, TypeOK
<1>2. Creates /\ UNCHANGED target
  BY <1>1, RecordStep
<1>3. PICK q \in Op, t \in Nat : \E r \in Plans(target, t) :
        record' = [record EXCEPT ![q] = r]
  BY <1>2 DEF Creates
<1>4. PICK r \in Plans(target, t) : record' = [record EXCEPT ![q] = r]
  BY <1>3
<1>5. record'[o] = r
  BY <1>4 DEF TypeOK
<1> QED BY <1>2, <1>5 DEF Plans, AsReviewed

LEMMA PlanIsPastStep ==
  ASSUME TypeOK, TypeOK', PlanAgreement, PlanIsPast, Step
  PROVE  PlanIsPast'
<1> SUFFICES ASSUME NEW o \in Op
             PROVE  /\ record'[o] # NoRecord =>
                         /\ record'[o].rv <= target'.rv
                         /\ record'[o].rv = target'.rv =>
                              AsReviewed(target', record'[o])
                    /\ effects'[o] > 0 =>
                         record'[o] # NoRecord /\ record'[o].rv < target'.rv
  BY DEF PlanIsPast, AsReviewed
<1>0. /\ target.rv \in Nat /\ target'.rv \in Nat
      /\ effects[o] \in Nat /\ record[o] \in Saved \union {NoRecord}
  BY DEF TypeOK, Object
<1>1. CASE record[o] # NoRecord
  <2>1. record'[o] # NoRecord /\ SamePlan(record'[o], record[o])
    BY <1>1, PlanStable
  <2>2. record[o].rv \in Nat /\ record'[o].rv = record[o].rv
    BY <1>0, <1>1, <2>1 DEF Saved, SamePlan
  <2>3. record[o].rv <= target.rv
    BY <1>1 DEF PlanIsPast
  <2>4. CASE target' = target
    <3>1. effects'[o] = effects[o]
      BY <1>0, <2>4, EffectStep
    <3> QED BY <1>1, <2>1, <2>2, <2>4, <3>1 DEF PlanIsPast, AsReviewed, SamePlan
  <2>5. CASE target'.rv = target.rv + 1
    BY <1>0, <2>1, <2>2, <2>3, <2>5
  <2> QED BY <2>4, <2>5, TargetGrows
<1>2. CASE record[o] = NoRecord
  <2>1. effects'[o] = effects[o] /\ ~(effects[o] > 0)
    BY <1>2, EffectStep DEF PlanIsPast
  <2>2. record'[o] # NoRecord => /\ record'[o].rv = target'.rv
                                 /\ AsReviewed(target', record'[o])
    BY <1>2, CreationStep
  <2> QED BY <1>0, <2>1, <2>2
<1> QED BY <1>1, <1>2

LEMMA AnnotationsStep ==
  ASSUME TypeOK, TypeOK', PlanAgreement, PlanIsPast, AnnotationsAreRecent, Step
  PROVE  AnnotationsAreRecent'
<1> SUFFICES ASSUME NEW g \in Frames', g.pc = "patch"
             PROVE  record'[g.op].rv <= g.annRv /\ g.annRv <= target'.rv
  BY DEF AnnotationsAreRecent
<1>1. g \in Frame /\ g.op \in Op /\ g.annRv \in Nat
  BY DEF TypeOK, Frames, Frame
<1>2. target.rv \in Nat /\ target'.rv \in Nat /\ target.rv <= target'.rv
  BY TargetGrows DEF TypeOK, Object
<1>3. record[g.op] # NoRecord /\ record'[g.op].rv = record[g.op].rv
  BY <1>1, FrameStep, BornAgrees, PlanStable DEF PlanAgreement, SamePlan
<1>4. CASE g \in Frames
  BY <1>1, <1>2, <1>3, <1>4 DEF AnnotationsAreRecent
<1>5. CASE Born(g)
  <2>1. g.annRv = target.rv
    BY <1>5 DEF Born, Opened, Continues, Rereads, Concludes
  <2>2. record[g.op].rv <= target.rv
    BY <1>1, <1>3 DEF PlanIsPast
  <2> QED BY <1>2, <1>3, <2>1, <2>2
<1> QED BY <1>4, <1>5, FrameStep

LEMMA AtMostOneEffectStep ==
  ASSUME TypeOK, PlanAgreement, PlanIsPast, AtMostOneEffect, Step
  PROVE  AtMostOneEffect'
<1> SUFFICES ASSUME NEW o \in Op, effects'[o] # effects[o] PROVE effects'[o] <= 1
  BY DEF AtMostOneEffect
<1>1. /\ record[o] # NoRecord /\ record[o].rv = target.rv
      /\ effects'[o] = effects[o] + 1
  BY EffectStep
<1>2. effects[o] \in Nat /\ target.rv \in Nat
  BY DEF TypeOK, Object
<1>3. effects[o] = 0
  BY <1>1, <1>2 DEF PlanIsPast
<1> QED BY <1>1, <1>3

LEMMA EffectInvInit == Init => EffectInv
<1> SUFFICES ASSUME Init PROVE EffectInv
  OBVIOUS
<1>1. TypeOK
  BY TypeInit
<1>2. Frames = {} /\ \A o \in Op : record[o] = NoRecord /\ effects[o] = 0
  BY DEF Init, Frames
<1> QED BY <1>1, <1>2
        DEF EffectInv, PlanAgreement, PlanIsPast, AnnotationsAreRecent,
            AtMostOneEffect

LEMMA EffectInvStep == EffectInv /\ [Next]_vars => EffectInv'
<1> SUFFICES ASSUME EffectInv, [Next]_vars PROVE EffectInv'
  OBVIOUS
<1>1. TypeOK'
  BY TypeStep DEF EffectInv
<1>2. CASE UNCHANGED vars
  BY <1>2 DEF vars, EffectInv, TypeOK, PlanAgreement, PlanIsPast, AsReviewed,
              AnnotationsAreRecent, AtMostOneEffect, Frames
<1>3. CASE Next
  BY <1>1, <1>3, PlanAgreementStep, PlanIsPastStep, AnnotationsStep,
     AtMostOneEffectStep
  DEF Next, EffectInv
<1> QED BY <1>2, <1>3

LEMMA EffectInvHolds == Spec => []EffectInv
BY EffectInvInit, EffectInvStep, PTL DEF Spec

\* The patch of an operation takes effect at most once, whoever crashes,
\* retries or arrives late: the first effect moves the Deployment past the
\* resourceVersion that every copy of the operation's record tests for.
THEOREM EffectOnce == Spec => []AtMostOneEffect
<1>1. EffectInv => AtMostOneEffect
  BY DEF EffectInv
<1> QED BY <1>1, EffectInvHolds, PTL

\* A patch that can still take effect carries the live annotations: they were
\* read between the plan and now, and nothing has changed in between.
THEOREM AnnotationsKept == Spec => []NoLostAnnotations
<1>1. EffectInv => NoLostAnnotations
  <2> SUFFICES ASSUME EffectInv, NEW f \in InFlight, f.pc = "patch",
                      PatchTestsPass(target, f.rec)
               PROVE  f.annRv = target.rv
    BY DEF NoLostAnnotations
  <2>1. f \in Frames
    BY DEF InFlight, Frames, Idle
  <2>2. f \in Frame /\ target.rv \in Nat /\ f.annRv \in Nat
    BY <2>1, FramesType DEF EffectInv, TypeOK, Object, Frame
  <2>3. record[f.op].rv = target.rv
    BY <2>1 DEF EffectInv, PlanAgreement, SamePlan, PatchTestsPass
  <2> QED BY <2>1, <2>2, <2>3 DEF EffectInv, AnnotationsAreRecent
<1> QED BY <1>1, EffectInvHolds, PTL

\* When the patch takes effect, the Deployment as a whole becomes the reviewed
\* one, although the patch writes only half of the intent.
THEOREM ReviewedIntentApplied == Spec => EffectIsReviewedIntent
<1> DEFINE Good ==
      \A o \in Op : effects'[o] # effects[o] =>
        /\ target'.uid = record[o].uid /\ target'.marker = o
        /\ target'.replicas = record[o].replicas
        /\ target'.template = record[o].template
        /\ target'.paused => record[o].action = "scale"
<1>1. EffectInv /\ [Next]_vars => [Good]_vars
  <2> SUFFICES ASSUME EffectInv, Next PROVE Good
    BY DEF vars
  <2> SUFFICES ASSUME NEW o \in Op, effects'[o] # effects[o]
               PROVE  /\ target'.uid = record[o].uid /\ target'.marker = o
                      /\ target'.replicas = record[o].replicas
                      /\ target'.template = record[o].template
                      /\ target'.paused => record[o].action = "scale"
    OBVIOUS
  <2>1. TypeOK /\ PlanAgreement /\ PlanIsPast /\ Step
    BY DEF EffectInv, Next
  <2>2. /\ record[o] # NoRecord /\ record[o].rv = target.rv
        /\ \E f \in Frames : f.op = o /\ TakesEffect(f)
    BY <2>1, EffectStep
  <2>3. PICK f \in Frames : f.op = o /\ TakesEffect(f)
    BY <2>2
  <2>4. SamePlan(f.rec, record[o])
    BY <2>1, <2>3 DEF PlanAgreement
  <2>5. AsReviewed(target, record[o])
    BY <2>1, <2>2 DEF PlanIsPast
  <2>6. target \in Object /\ target' = Patched(target, o, f.rec)
    BY <2>1, <2>3 DEF TypeOK, TakesEffect
  <2> QED BY <2>4, <2>5, <2>6 DEF SamePlan, AsReviewed, Patched, Object
<1> QED BY <1>1, EffectInvHolds, PTL DEF Spec, EffectIsReviewedIntent
=============================================================================
