------------------------- MODULE DurableRecordProofs -------------------------
(***************************************************************************)
(* Proofs about the records of DurableOperations: claims are fenced,       *)
(* terminal records final, effects approved, successes founded, and the    *)
(* whole implements OperationLifecycle and ReviewedChange.                 *)
(*                                                                         *)
(* They rest on one invariant about copies.  A record is only written by   *)
(* compare-and-swap, so a copy whose version is no longer stored cannot    *)
(* do any harm, and one whose version is stored was computed from exactly  *)
(* the record it would replace (CopiesAreCurrentOrStale).                  *)
(***************************************************************************)
EXTENDS DurableOperationsProofs

\* An approved operation that some worker has claimed: its change may have been
\* sent.
Underway == {"Executing", "Verifying"}

Started == Underway \union {"Succeeded", "Failed", "NeedsReview"}

SameClaim(r, s) ==
  r.owner = s.owner /\ r.epoch = s.epoch /\ r.claimUntil = s.claimUntil

SameApproval(r, s) == r.actor = s.actor /\ r.approvedAt = s.approvedAt

\* A change of owner is fenced by a new epoch and waits for the claim's end.
Fenced(s, r, t) ==
  /\ s.epoch >= r.epoch
  /\ s.owner # r.owner => s.epoch > r.epoch /\ r.claimUntil <= t + Skew

\* How the copy in g relates to the record r it was computed from, according
\* to what g is about to do with it, at time t.
Derives(g, r, t) ==
  \/ /\ g.pc = "approve" /\ r.state = "Planned" /\ g.rec.state = "Approved"
     /\ SameClaim(g.rec, r)
     /\ g.rec.approvedAt - r.createdAt <= PlanWindow
  \/ /\ g.pc = "claim" /\ r.state \in Claimable
     /\ g.rec.state = IF r.state = "Approved" THEN "Executing" ELSE r.state
     /\ SameApproval(g.rec, r) /\ Fenced(g.rec, r, t)
  \/ /\ g.pc = "finish" /\ SameClaim(g.rec, r) /\ SameApproval(g.rec, r)
     /\ \/ r.state = "Planned" /\ g.rec.state = "Expired"
        \/ /\ r.state \in Underway
           /\ g.rec.state \in {"Verifying", "Succeeded", "Failed", "NeedsReview"}
           /\ g.rec.state \in {"Verifying", "Failed"} => r.state = "Executing"
  \/ /\ g.pc \in {"inspect", "dryrun", "recheck", "prepare", "patch"}
     /\ SameClaim(g.rec, r) /\ SameApproval(g.rec, r)
     /\ g.rec.state = r.state /\ r.state \in Underway
     /\ g.pc # "inspect" => r.state = "Executing"

\* A frame works on a version that once was stored, and as long as that is the
\* stored one it is computed from it.
CopiesAreCurrentOrStale ==
  \A g \in Frames :
    /\ g.rec.version <= record[g.op].version
    /\ g.rec.version = record[g.op].version => Derives(g, record[g.op], now)

\* Whoever has read the claim it wrote, or is about to, works on an operation
\* that was executing.
StartedFrames ==
  \A g \in Frames :
    g.pc \in {"reread", "inspect", "dryrun", "recheck", "prepare", "patch"} =>
      record[g.op].state \in Started

\* A verdict that claims an effect is based on one.
VerdictsAreFounded ==
  \A g \in Frames : g.pc = "finish" =>
    /\ g.rec.state \in {"Verifying", "Succeeded"} => effects[g.op] > 0
    /\ g.rec.state = "Succeeded" => g.op \in recovered

\* Processes only work under their own name, one call at a time.
ProcessesOwnTheirCopies ==
  \A p \in Process : proc[p].rec.owner \in {p, None}

\* While a claim is read back, every older request of its worker is outdated,
\* and the claim is either still stored or fenced off for good.
ClaimsAreReadBack ==
  \A f \in Frames : f.pc = "reread" =>
    LET r == record[f.op] IN
    /\ \A g \in Frames : g.op = f.op /\ g.rec.owner = f.rec.owner =>
                            g.rec.version <= f.rec.version
    /\ f.rec.version < r.version
    /\ f.rec.epoch <= r.epoch
    /\ f.rec.epoch = r.epoch => f.rec.owner = r.owner /\ r.state \in Underway

\* What the state of a record says about its other fields, the effects of its
\* operation and the marker.
RecordsAreConsistent ==
  \A o \in Op :
    LET r == record[o] IN
    /\ r.owner = None => r.claimUntil = 0
    /\ r.state \notin Started => r.owner = None
    /\ IF r.state \in {"Absent", "Planned", "Expired"}
         THEN r.actor = None
         ELSE r.actor # None /\ r.approvedAt - r.createdAt <= PlanWindow
    /\ r.state \in {"Verifying", "Succeeded"} => effects[o] > 0
    /\ r.state = "Succeeded" => o \in recovered
    /\ effects[o] > 0 => r.state \in Started
    /\ target.marker = o => effects[o] > 0

RecordInv == /\ EffectInv
             /\ CopiesAreCurrentOrStale /\ StartedFrames /\ VerdictsAreFounded
             /\ ProcessesOwnTheirCopies /\ ClaimsAreReadBack
             /\ RecordsAreConsistent /\ AckedApproverIsRecorded

USE DEF Terminal, Claimable, Sending, Underway, Started

-----------------------------------------------------------------------------
(* What a step does to one record, and to what only grows.                  *)

\* s is what the update of h stores.
Written(h, s) ==
  /\ s.version = h.rec.version + 1 /\ s.state = h.rec.state
  /\ SameClaim(s, h.rec) /\ SameApproval(s, h.rec) /\ SamePlan(s, h.rec)

NewPlan(r) ==
  /\ r.state = "Planned" /\ r.version = 1 /\ r.actor = None
  /\ r.owner = None /\ r.epoch = 0 /\ r.claimUntil = 0

LEMMA CreatedPlan ==
  ASSUME TypeOK, Creates, NEW o \in Op, record'[o] # record[o]
  PROVE  record[o] = NoRecord /\ NewPlan(record'[o])
<1>1. PICK q \in Op, t \in Nat :
        record[q] = NoRecord /\ \E r \in Plans(target, t) :
          record' = [record EXCEPT ![q] = r]
  BY DEF Creates
<1>2. PICK r \in Plans(target, t) : record' = [record EXCEPT ![q] = r]
  BY <1>1
<1>3. q = o /\ record'[o] = r
  BY <1>2 DEF TypeOK
<1> QED BY <1>1, <1>3 DEF Plans, NewPlan

\* A record changes when its plan is stored, or by the update of a copy that
\* was computed from it.
LEMMA StoreStep ==
  ASSUME TypeOK, PlanAgreement, CopiesAreCurrentOrStale, Step,
         NEW o \in Op, record'[o] # record[o]
  PROVE  /\ UNCHANGED <<target, effects>>
         /\ \/ record[o] = NoRecord /\ NewPlan(record'[o])
            \/ /\ record[o] \in Saved
               /\ \E h \in Frames :
                    /\ h.op = o /\ h.rec.version = record[o].version
                    /\ Stores(h)
                    /\ Derives(h, record[o], now) /\ Written(h, record'[o])
<1>1. CASE UNCHANGED <<target, effects>> /\ Creates
  BY <1>1, CreatedPlan
<1>2. ASSUME NEW h \in Frames, Stores(h), UNCHANGED <<target, effects>>
      PROVE  /\ record[o] \in Saved
             /\ h.op = o /\ h.rec.version = record[o].version
             /\ Derives(h, record[o], now) /\ Written(h, record'[o])
  <2> DEFINE new == [h.rec EXCEPT !.version = h.rec.version + 1]
  <2>1. h.op \in Op /\ h.rec \in Saved
    BY FramesType
  <2>2. Written(h, new)
    BY <2>1 DEF Written, Saved, SameClaim, SameApproval, SamePlan
  <2>3. record' = [record EXCEPT ![h.op] = new]
    BY <1>2 DEF Stores
  <2> HIDE DEF new
  <2>4. h.op = o /\ record'[o] = new
    BY <2>1, <2>3 DEF TypeOK
  <2>5. record[o] \in Saved
    BY <2>4 DEF PlanAgreement, TypeOK
  <2>6. h.rec.version = record[o].version
    BY <1>2, <2>4 DEF Stores, Current
  <2> QED BY <2>2, <2>4, <2>5, <2>6 DEF CopiesAreCurrentOrStale
<1> QED BY <1>1, <1>2, RecordStep

\* Time goes on.
LEMMA NowStep ==
  ASSUME TypeOK, Step
  PROVE  now \in Nat /\ now' \in Nat /\ now <= now'
<1>1. ASSUME NEW w \in Worker, WorkerStep(w) PROVE UNCHANGED now
  BY <1>1 DEF WorkerStep, Start, ClaimWrite, Reread, Inspect, DryRun, Recheck,
              Prepare, Patch, FinishWrite
<1>2. ASSUME NEW q \in Request, RequestStep(q) PROVE UNCHANGED now
  BY <1>2 DEF RequestStep, ApproveRead, ApproveWrite, FinishWrite
<1>3. ASSUME NEW f, OrphanLands(f) PROVE UNCHANGED now
  BY <1>3 DEF OrphanLands
<1>4. UNCHANGED now \/ now' = now + 1
  BY <1>1, <1>2, <1>3
  DEF Step, SaveDurablePlan, GiveUp, TargetChanges, Tick
<1> QED BY <1>4 DEF TypeOK

\* Nobody but a process sends a request, so whatever is left behind was its.
LEMMA OrphansStep ==
  ASSUME TypeOK, Step
  PROVE  orphans' \subseteq Frames
<1>1. orphans \subseteq Frames
  BY DEF Frames
<1>2. ASSUME NEW p \in Process, GiveUp(p) PROVE orphans' \subseteq Frames
  BY <1>1, <1>2 DEF GiveUp, Abandon, Frames
<1> QED
  BY <1>1, <1>2
  DEF Step, SaveDurablePlan, RequestStep, ApproveRead, ApproveWrite,
      WorkerStep, Start, ClaimWrite, Reread, Inspect, DryRun, Recheck, Prepare,
      Patch, FinishWrite, OrphanLands, TargetChanges, Tick

\* No effect is undone.
LEMMA EffectsStep ==
  ASSUME TypeOK, PlanAgreement, Step, NEW o \in Op, effects[o] > 0
  PROVE  effects'[o] > 0
BY EffectStep DEF TypeOK

\* A record's version grows with every change.
LEMMA VersionStep ==
  ASSUME TypeOK, PlanAgreement, CopiesAreCurrentOrStale, Step, NEW o \in Op
  PROVE  /\ record[o].version \in Nat
         /\ \/ record'[o] = record[o]
            \/ record'[o].version = record[o].version + 1
<1>1. record[o] \in Saved \/ record[o] = NoRecord
  BY DEF TypeOK
<1> QED BY <1>1, StoreStep DEF NewPlan, NoRecord, Saved, Written

\* An operation that was started stays so.
LEMMA StartedStep ==
  ASSUME TypeOK, PlanAgreement, CopiesAreCurrentOrStale, Step,
         NEW o \in Op, record[o].state \in Started
  PROVE  record'[o].state \in Started
<1>1. record[o] # NoRecord
  BY DEF NoRecord
<1>2. ASSUME NEW h, Derives(h, record[o], now), Written(h, record'[o])
      PROVE  record'[o].state \in Started
  BY <1>2 DEF Derives, Written
<1> QED BY <1>1, <1>2, StoreStep

-----------------------------------------------------------------------------
(* Records.                                                                 *)

LEMMA RecordsStep ==
  ASSUME EffectInv, TypeOK', CopiesAreCurrentOrStale, StartedFrames,
         VerdictsAreFounded, RecordsAreConsistent, Next
  PROVE  RecordsAreConsistent'
<1> SUFFICES ASSUME NEW o \in Op
             PROVE  LET r == record'[o] IN
                    /\ r.owner = None => r.claimUntil = 0
                    /\ r.state \notin Started => r.owner = None
                    /\ IF r.state \in {"Absent", "Planned", "Expired"}
                         THEN r.actor = None
                         ELSE /\ r.actor # None
                              /\ r.approvedAt - r.createdAt <= PlanWindow
                    /\ r.state \in {"Verifying", "Succeeded"} => effects'[o] > 0
                    /\ r.state = "Succeeded" => o \in recovered'
                    /\ effects'[o] > 0 => r.state \in Started
                    /\ target'.marker = o => effects'[o] > 0
  BY DEF RecordsAreConsistent
<1>0. TypeOK /\ PlanAgreement /\ Step /\ recovered \subseteq recovered'
  BY DEF EffectInv, Next, Observe
<1>1. effects[o] \in Nat /\ effects'[o] \in Nat
  BY DEF TypeOK, EffectInv
<1>2. target'.marker = o => effects'[o] > 0
  <2>1. ASSUME ExternalWrite(target, target'), target'.marker = o
        PROVE  target.marker = o
    <3>1. target \in Object /\ o # None
      BY <1>0, DistinctNames DEF TypeOK
    <3>2. CASE Edited(target, target')
      BY <2>1, <3>1, <3>2 DEF Edited, Object
    <3>3. CASE StatusReported(target, target')
      BY <2>1, <3>1, <3>3 DEF StatusReported, Object
    <3>4. CASE Deleted(target, target')
      BY <2>1, <3>1, <3>4 DEF Deleted, Object
    <3>5. CASE Recreated(target, target')
      BY <2>1, <3>1, <3>5 DEF Recreated
    <3> QED BY <2>1, <3>2, <3>3, <3>4, <3>5 DEF ExternalWrite
  <2>2. ASSUME NEW f \in Frames, TakesEffect(f), target'.marker = o
        PROVE  effects'[o] > 0
    <3>1. f.op \in Op /\ target'.marker = f.op
      BY <1>0, <2>2, FramesType DEF TakesEffect, Patched, TypeOK, Object
    <3> QED BY <1>0, <1>1, <2>2, <3>1 DEF TakesEffect, TypeOK
  <2>3. target.marker = o => effects[o] > 0
    BY DEF RecordsAreConsistent
  <2> QED BY <1>0, <2>1, <2>2, <2>3, TargetStep
<1>3. CASE record'[o] = record[o]
  <2>1. CASE effects'[o] = effects[o]
    BY <1>0, <1>2, <1>3, <2>1 DEF RecordsAreConsistent
  <2>2. CASE effects'[o] # effects[o]
    <3>1. PICK f \in Frames : f.op = o /\ TakesEffect(f)
      BY <1>0, <2>2, EffectStep
    <3>2. record[o].state \in Started
      BY <3>1 DEF StartedFrames, TakesEffect
    <3>3. effects'[o] > 0
      BY <1>0, <1>1, <2>2, EffectStep
    <3> QED BY <1>0, <1>3, <3>2, <3>3 DEF RecordsAreConsistent
  <2> QED BY <2>1, <2>2
<1>4. CASE record'[o] # record[o]
  <2>0. UNCHANGED <<target, effects>>
    BY <1>0, <1>4, StoreStep
  <2>1. CASE record[o] = NoRecord /\ NewPlan(record'[o])
    <3>1. effects[o] = 0
      BY <1>1, <2>1 DEF RecordsAreConsistent, NoRecord
    <3> QED BY <1>2, <2>0, <2>1, <3>1 DEF NewPlan
  <2>2. ASSUME NEW h \in Frames, h.op = o, Stores(h), Derives(h, record[o], now),
               Written(h, record'[o])
        PROVE  LET r == record'[o] IN
               /\ r.owner = None => r.claimUntil = 0
               /\ r.state \notin Started => r.owner = None
               /\ IF r.state \in {"Absent", "Planned", "Expired"}
                    THEN r.actor = None
                    ELSE /\ r.actor # None
                         /\ r.approvedAt - r.createdAt <= PlanWindow
               /\ r.state \in {"Verifying", "Succeeded"} => effects'[o] > 0
               /\ r.state = "Succeeded" => o \in recovered'
               /\ effects'[o] > 0 => r.state \in Started
    <3> DEFINE r == record[o]
               s == record'[o]
    <3>1. h.rec.createdAt = r.createdAt /\ s.createdAt = r.createdAt
      BY <1>0, <2>2 DEF PlanAgreement, SamePlan, Written
    <3>2. /\ s.state = h.rec.state /\ s.owner = h.rec.owner
          /\ s.claimUntil = h.rec.claimUntil
          /\ s.actor = h.rec.actor /\ s.approvedAt = h.rec.approvedAt
      BY <2>2 DEF Written, SameClaim, SameApproval
    <3>3. /\ h.pc = "approve" => h.rec.actor # None
          /\ h.pc = "claim" => h.rec.owner # None
      BY <1>0, FramesType DEF Frame
    <3>4. /\ r.owner = None => r.claimUntil = 0
          /\ r.state \notin Started => r.owner = None
          /\ IF r.state \in {"Absent", "Planned", "Expired"}
               THEN r.actor = None
               ELSE r.actor # None /\ r.approvedAt - r.createdAt <= PlanWindow
          /\ r.state \in {"Verifying", "Succeeded"} => effects[o] > 0
          /\ effects[o] > 0 => r.state \in Started
      BY DEF RecordsAreConsistent
    <3>5. CASE h.pc = "approve"
      BY <2>0, <2>2, <3>1, <3>2, <3>3, <3>4, <3>5 DEF Derives, SameClaim
    <3>6. CASE h.pc = "claim"
      <4>1. /\ r.state \in Claimable
            /\ s.state = IF r.state = "Approved" THEN "Executing" ELSE r.state
            /\ s.actor = r.actor /\ s.approvedAt = r.approvedAt
        BY <2>2, <3>2, <3>6 DEF Derives, SameApproval
      <4>2. s.owner # None /\ s.createdAt = r.createdAt
        BY <3>1, <3>2, <3>3, <3>6
      <4>3. s.state \in Underway /\ (s.state = "Verifying" => r.state = "Verifying")
        BY <4>1
      <4>4. r.actor # None /\ r.approvedAt - r.createdAt <= PlanWindow
        BY <3>4, <4>1
      <4> HIDE DEF r, s
      <4>5. /\ s.owner = None => s.claimUntil = 0
            /\ s.actor # None /\ s.approvedAt - s.createdAt <= PlanWindow
            /\ s.state = "Verifying" => effects'[o] > 0
        BY <2>0, <3>4, <4>1, <4>2, <4>3, <4>4
      <4> QED BY <4>3, <4>5 DEF s
    <3>7. CASE h.pc = "finish"
      <4>1. /\ h.rec.state \in {"Verifying", "Succeeded"} => effects[o] > 0
            /\ h.rec.state = "Succeeded" => o \in recovered
        BY <2>2, <3>7 DEF VerdictsAreFounded
      <4> QED BY <1>0, <2>0, <2>2, <3>1, <3>2, <3>4, <3>7, <4>1
              DEF Derives, SameApproval, SameClaim
    <3>8. h.pc \in {"approve", "claim", "finish"}
      BY <2>2 DEF Stores
    <3> QED BY <3>5, <3>6, <3>7, <3>8
  <2> QED BY <1>0, <1>2, <1>4, <2>1, <2>2, StoreStep
<1> QED BY <1>3, <1>4

-----------------------------------------------------------------------------
(* Copies.                                                                  *)

LEMMA DerivesLater ==
  ASSUME NEW g, NEW r, NEW t \in Nat, NEW u \in Nat, t <= u,
         r.claimUntil \in Nat, Derives(g, r, t)
  PROVE  Derives(g, r, u)
BY Durations DEF Derives, Fenced

LEMMA RecordFields ==
  ASSUME TypeOK, NEW o \in Op
  PROVE  /\ record[o].version \in Nat /\ record[o].epoch \in Nat
         /\ record[o].claimUntil \in Nat /\ record[o].createdAt \in Nat
         /\ record[o].approvedAt \in Nat
BY DEF TypeOK, Saved, NoRecord

\* A copy that opens an approval, an expiry or a claim.
LEMMA OpenedDerives ==
  ASSUME TypeOK, RecordsAreConsistent, NEW g, g.op \in Op, Opened(g)
  PROVE  Derives(g, record[g.op], now) /\ g.rec.version = record[g.op].version
<1> DEFINE r == record[g.op]
<1>1. r \in Saved
  BY DEF Opened, TypeOK
<1>2. CASE g.pc = "finish"
  <2>1. g.rec = [r EXCEPT !.state = "Expired"] /\ r.state = "Planned"
    BY <1>2 DEF Opened
  <2> QED BY <1>1, <1>2, <2>1 DEF Saved, Derives, SameClaim, SameApproval
<1>3. CASE g.pc = "approve"
  <2>1. PICK a \in Actor, t \in Nat :
          /\ r.state = "Planned" /\ ~PlanExpired(r, t)
          /\ g.rec = [r EXCEPT !.state = "Approved", !.actor = a,
                               !.approvedAt = t]
    BY <1>3 DEF Opened
  <2>2. t - r.createdAt <= PlanWindow
    BY <1>1, <2>1, Durations DEF PlanExpired, Saved
  <2> QED BY <1>1, <1>3, <2>1, <2>2 DEF Saved, Derives, SameClaim
<1>4. CASE g.pc = "claim"
  <2>1. PICK w \in Worker, t \in Clock :
          ~ClaimHeld(r, w, t) /\ g.rec = Claimed(r, w, t)
    BY <1>4 DEF Opened
  <2>2. r.state \in Claimable
    BY <1>4 DEF Opened, Reconciled
  <2>3. t \in Nat /\ t <= now + Skew /\ now + Skew \in Nat
    BY <2>1, ClockType, Durations DEF Clock, TypeOK
  <2>4. r.owner # w => r.claimUntil <= now + Skew
    <3>1. r.owner = None => r.claimUntil = 0
      BY DEF RecordsAreConsistent
    <3>2. r.claimUntil \in Nat
      BY RecordFields
    <3> QED BY <2>1, <2>3, <3>1, <3>2 DEF ClaimHeld
  <2> DEFINE epoch == IF r.owner # w \/ t > r.claimUntil THEN r.epoch + 1
                                                         ELSE r.epoch
             state == IF r.state = "Approved" THEN "Executing" ELSE r.state
  <2>5. epoch \in Nat /\ epoch >= r.epoch /\ (r.owner # w => epoch > r.epoch)
    BY <1>1 DEF Saved
  <2>6. g.rec = [r EXCEPT !.epoch = epoch, !.owner = w,
                          !.claimUntil = t + ClaimDuration, !.state = state]
    BY <2>1 DEF Claimed
  <2> HIDE DEF epoch
  <2>7. /\ g.rec.epoch = epoch /\ g.rec.owner = w /\ g.rec.state = state
        /\ g.rec.version = r.version /\ SameApproval(g.rec, r)
    BY <1>1, <2>6 DEF Saved, SameApproval
  <2>8. Fenced(g.rec, r, now)
    BY <2>4, <2>5, <2>7 DEF Fenced
  <2> QED BY <1>4, <2>2, <2>7, <2>8 DEF Derives
<1> QED BY <1>2, <1>3, <1>4 DEF Opened

\* A copy that somebody goes on with.
LEMMA BornDerives ==
  ASSUME TypeOK, CopiesAreCurrentOrStale, ClaimsAreReadBack,
         RecordsAreConsistent, NEW g, g.op \in Op, Born(g),
         UNCHANGED record
  PROVE  /\ g.rec.version <= record[g.op].version
         /\ g.rec.version = record[g.op].version => Derives(g, record[g.op], now)
<1>0. record[g.op].version \in Nat
  BY RecordFields
<1>1. CASE Opened(g)
  BY <1>0, <1>1, OpenedDerives
<1>2. ASSUME NEW f \in Frames, g.op = f.op, f.pc = "claim", Stores(f)
      PROVE  FALSE
  <2>1. f.op \in Op /\ f.rec \in Saved
    BY <1>2, FramesType
  <2>2. record'[f.op].version = f.rec.version + 1 /\ record[f.op].version = f.rec.version
    BY <1>2, <2>1 DEF Stores, Current, TypeOK, Saved
  <2> QED BY <2>1, <2>2 DEF Saved
<1>3. ASSUME NEW f \in Frames, g.op = f.op, Continues(f, g)
      PROVE  /\ g.rec.version <= record[g.op].version
             /\ g.rec.version = record[g.op].version =>
                  Derives(g, record[g.op], now)
  <2>1. /\ f.rec.version <= record[g.op].version
        /\ f.rec.version = record[g.op].version => Derives(f, record[g.op], now)
    BY <1>3 DEF CopiesAreCurrentOrStale
  <2>2. Derives(f, record[g.op], now) => Derives(g, record[g.op], now)
    BY <1>3 DEF Continues, Derives
  <2> QED BY <1>3, <2>1, <2>2 DEF Continues
<1>4. ASSUME NEW f \in Frames, g.op = f.op, Rereads(f, g)
      PROVE  /\ g.rec.version <= record[g.op].version
             /\ Derives(g, record[g.op], now)
  <2> DEFINE r == record[f.op]
  <2>1. r.state \in Underway
    BY <1>4 DEF Rereads, HoldsClaim, ClaimsAreReadBack
  <2>2. r \in Saved
    BY <1>4, <2>1 DEF TypeOK, NoRecord
  <2>3. CASE g.pc = "inspect"
    BY <1>4, <2>1, <2>2, <2>3, <1>0
    DEF Rereads, Derives, SameClaim, SameApproval
  <2>4. CASE g.pc = "finish"
    <3>1. g.rec = [r EXCEPT !.state = "NeedsReview"]
      BY <1>4, <2>4 DEF Rereads
    <3> QED BY <1>4, <1>0, <2>1, <2>2, <2>4, <3>1
            DEF Saved, Derives, SameClaim, SameApproval
  <2> QED BY <1>4, <2>3, <2>4 DEF Rereads
<1>5. ASSUME NEW f \in Frames, g.op = f.op, g.pc = "finish",
             NEW s, g.rec = [f.rec EXCEPT !.state = s],
             f.pc \in {"inspect", "dryrun", "patch"},
             s \in {"Verifying", "Succeeded", "Failed", "NeedsReview"},
             f.pc = "inspect" => /\ s # "Failed"
                                 /\ s = "Verifying" => f.rec.state # "Verifying"
      PROVE  /\ g.rec.version <= record[g.op].version
             /\ g.rec.version = record[g.op].version =>
                  Derives(g, record[g.op], now)
  <2>1. f.rec \in Saved
    BY FramesType
  <2>2. /\ g.rec.version = f.rec.version /\ g.rec.state = s
        /\ SameClaim(g.rec, f.rec) /\ SameApproval(g.rec, f.rec)
    BY <1>5, <2>1 DEF Saved, SameClaim, SameApproval
  <2>3. /\ f.rec.version <= record[g.op].version
        /\ f.rec.version = record[g.op].version => Derives(f, record[g.op], now)
    BY <1>5 DEF CopiesAreCurrentOrStale
  <2>4. Derives(f, record[g.op], now) => Derives(g, record[g.op], now)
    BY <1>5, <2>2 DEF Derives, SameClaim, SameApproval
  <2> QED BY <2>2, <2>3, <2>4
<1>6. ASSUME NEW f \in Frames, g.op = f.op,
             NEW s \in Claimable \union Terminal, Concludes(f, g, s)
      PROVE  /\ g.rec.version <= record[g.op].version
             /\ g.rec.version = record[g.op].version =>
                  Derives(g, record[g.op], now)
  BY <1>5, <1>6 DEF Concludes
<1>7. ASSUME NEW f \in Frames, g.op = f.op, TakesEffect(f), g.pc = "finish",
             g.rec = [f.rec EXCEPT !.state = "Verifying"]
      PROVE  /\ g.rec.version <= record[g.op].version
             /\ g.rec.version = record[g.op].version =>
                  Derives(g, record[g.op], now)
  BY <1>5, <1>7 DEF TakesEffect
<1> QED BY <1>1, <1>2, <1>3, <1>4, <1>6, <1>7 DEF Born

LEMMA CopiesStep ==
  ASSUME EffectInv, TypeOK', CopiesAreCurrentOrStale, ClaimsAreReadBack,
         RecordsAreConsistent, Step
  PROVE  CopiesAreCurrentOrStale'
<1> SUFFICES ASSUME NEW g \in Frames'
             PROVE  /\ g.rec.version <= record'[g.op].version
                    /\ g.rec.version = record'[g.op].version =>
                         Derives(g, record'[g.op], now')
  BY DEF CopiesAreCurrentOrStale
<1>0. TypeOK /\ PlanAgreement
  BY DEF EffectInv
<1>1. g.op \in Op /\ g.rec.version \in Nat
  BY DEF TypeOK, Frames, Frame, Saved
<1>2. /\ record[g.op].version \in Nat
      /\ \/ record'[g.op] = record[g.op]
         \/ record'[g.op].version = record[g.op].version + 1
  BY <1>0, <1>1, VersionStep
<1>3. ASSUME g.rec.version <= record[g.op].version,
             g.rec.version = record[g.op].version => Derives(g, record[g.op], now)
      PROVE  /\ g.rec.version <= record'[g.op].version
             /\ g.rec.version = record'[g.op].version =>
                  Derives(g, record'[g.op], now')
  <2>1. CASE record'[g.op] = record[g.op]
    <3>1. record[g.op].claimUntil \in Nat
      BY <1>0, <1>1, RecordFields
    <3> QED BY <1>0, <1>3, <2>1, <3>1, NowStep, DerivesLater
  <2>2. CASE record'[g.op].version = record[g.op].version + 1
    BY <1>1, <1>2, <1>3, <2>2
  <2> QED BY <1>2, <2>1, <2>2
<1>4. CASE g \in Frames
  BY <1>3, <1>4 DEF CopiesAreCurrentOrStale
<1>5. CASE Born(g) /\ UNCHANGED record
  BY <1>0, <1>1, <1>3, <1>5, BornDerives
<1>6. CASE Born(g) /\ ~UNCHANGED record
  <2>1. PICK f \in Frames : g.op = f.op /\ Stores(f) /\ g.rec = f.rec
    BY <1>6 DEF Born
  <2>2. record'[g.op].version = g.rec.version + 1
    BY <1>0, <1>1, <2>1, FramesType DEF Stores, TypeOK, Saved
  <2> QED BY <1>1, <2>2
<1> QED BY <1>0, <1>4, <1>5, <1>6, FrameStep

-----------------------------------------------------------------------------
(* Verdicts, started operations, claims read back, names and answers.       *)

LEMMA StartedFramesStep ==
  ASSUME EffectInv, TypeOK', CopiesAreCurrentOrStale, StartedFrames, Step
  PROVE  StartedFrames'
<1> SUFFICES ASSUME NEW g \in Frames',
                    g.pc \in {"reread", "inspect", "dryrun", "recheck",
                              "prepare", "patch"}
             PROVE  record'[g.op].state \in Started
  BY DEF StartedFrames
<1>0. TypeOK /\ PlanAgreement /\ g.op \in Op
  BY DEF EffectInv, TypeOK, Frames, Frame
<1>1. CASE g \in Frames
  BY <1>0, <1>1, StartedStep DEF StartedFrames
<1>2. ASSUME NEW f \in Frames, g.op = f.op, f.pc = "claim", Stores(f)
      PROVE  record'[g.op].state \in Started
  <2>1. f.op \in Op /\ f.rec \in Saved /\ record[f.op].version = f.rec.version
    BY <1>0, <1>2, FramesType DEF Stores, Current
  <2>2. Derives(f, record[f.op], now)
    BY <1>2, <2>1 DEF CopiesAreCurrentOrStale
  <2>3. f.rec.state \in Started
    BY <1>2, <2>2 DEF Derives
  <2>4. record'[g.op].state = f.rec.state
    BY <1>0, <1>2, <2>1 DEF Stores, TypeOK, Saved
  <2> QED BY <2>3, <2>4
<1>3. ASSUME NEW f \in Frames, g.op = f.op,
             f.pc \in {"reread", "inspect", "dryrun", "recheck", "prepare"}
      PROVE  record'[g.op].state \in Started
  BY <1>0, <1>3, StartedStep DEF StartedFrames
<1>4. CASE Born(g)
  BY <1>2, <1>3, <1>4 DEF Born, Opened, Continues, Rereads, Concludes
<1> QED BY <1>0, <1>1, <1>4, FrameStep

LEMMA VerdictsStep ==
  ASSUME EffectInv, TypeOK', VerdictsAreFounded, RecordsAreConsistent, Next
  PROVE  VerdictsAreFounded'
<1> SUFFICES ASSUME NEW g \in Frames', g.pc = "finish"
             PROVE  /\ g.rec.state \in {"Verifying", "Succeeded"} =>
                         effects'[g.op] > 0
                    /\ g.rec.state = "Succeeded" => g.op \in recovered'
  BY DEF VerdictsAreFounded
<1>0. /\ TypeOK /\ PlanAgreement /\ Step /\ g.op \in Op
      /\ recovered \subseteq recovered'
  BY DEF EffectInv, TypeOK, Frames, Frame, Next, Observe
<1>1. CASE g \in Frames
  BY <1>0, <1>1, EffectsStep DEF VerdictsAreFounded
<1>2. CASE Opened(g)
  <2>1. record[g.op] \in Saved
    BY <1>0, <1>2 DEF Opened, TypeOK
  <2>2. g.rec.state = "Expired"
    BY <1>2, <2>1 DEF Opened, Saved
  <2> QED BY <2>2
<1>3. ASSUME NEW f \in Frames, g.op = f.op, Rereads(f, g)
      PROVE  g.rec.state = "NeedsReview"
  <2>1. record[f.op] \in Saved
    BY <1>0, <1>3 DEF PlanAgreement, TypeOK
  <2> QED BY <1>3, <2>1 DEF Rereads, Saved
<1>4. ASSUME NEW f \in Frames, g.op = f.op, UNCHANGED <<record, target, effects>>,
             NEW s, Concludes(f, g, s)
      PROVE  /\ g.rec.state \in {"Verifying", "Succeeded"} =>
                  effects'[g.op] > 0
             /\ g.rec.state = "Succeeded" => g.op \in recovered'
  <2>1. f.rec \in Saved /\ f.op \in Op
    BY <1>0, FramesType
  <2>2. g.rec.state = s
    BY <1>4, <2>1 DEF Concludes, Saved
  <2>3. s \in {"Verifying", "Succeeded"} => target.marker = f.op
    BY <1>4 DEF Concludes, VerifiedBy, Applied
  <2>4. target.marker = f.op => effects[f.op] > 0
    BY <2>1 DEF RecordsAreConsistent
  <2>5. ASSUME s = "Succeeded" PROVE f.op \in recovered'
    <3>1. VerifiedBy(target, f.op, f.rec)
      BY <1>4, <2>5 DEF Concludes
    <3>2. SamePlan(f.rec, record[f.op])
      BY <1>0 DEF PlanAgreement
    <3>3. InFullHealth(target', f.op, record'[f.op])
      BY <1>4, <3>1, <3>2
      DEF VerifiedBy, Applied, IsTarget, HoldsIntent, Recovered, InFullHealth,
          SamePlan
    <3> QED BY <2>1, <3>3 DEF Next, Observe
  <2> QED BY <1>4, <2>2, <2>3, <2>4, <2>5
<1>5. ASSUME NEW f \in Frames, g.op = f.op, TakesEffect(f),
             g.rec = [f.rec EXCEPT !.state = "Verifying"]
      PROVE  g.rec.state = "Verifying" /\ effects'[g.op] > 0
  <2>1. f.rec \in Saved /\ f.op \in Op /\ effects[f.op] \in Nat
    BY <1>0, FramesType DEF TypeOK
  <2>2. effects'[f.op] = effects[f.op] + 1
    BY <1>0, <1>5, <2>1 DEF TakesEffect, TypeOK
  <2> QED BY <1>5, <2>1, <2>2 DEF Saved
<1>6. CASE Born(g)
  BY <1>2, <1>3, <1>4, <1>5, <1>6 DEF Born, Continues
<1> QED BY <1>0, <1>1, <1>6, FrameStep

\* A process sends nothing in another's name.
LEMMA NamesStep ==
  ASSUME EffectInv, TypeOK', RecordsAreConsistent, ProcessesOwnTheirCopies, Step
  PROVE  ProcessesOwnTheirCopies'
<1>0. TypeOK /\ proc \in [Process -> Frame \union {Idle}]
  BY DEF EffectInv, TypeOK
<1>i. Idle.rec.owner = None
  BY DEF Idle, NoRecord
<1>p. Worker \subseteq Process /\ Request \subseteq Process
  BY DEF Process
<1>x. ASSUME NEW p \in Process, NEW x, proc' = [proc EXCEPT ![p] = x],
             x.rec.owner \in {p, None}
      PROVE  ProcessesOwnTheirCopies'
  BY <1>0, <1>x DEF ProcessesOwnTheirCopies
<1>r. ASSUME NEW p \in Process, Return(p) PROVE ProcessesOwnTheirCopies'
  BY <1>i, <1>r, <1>x DEF Return
<1>u. ASSUME UNCHANGED proc PROVE ProcessesOwnTheirCopies'
  BY <1>u DEF ProcessesOwnTheirCopies
<1>k. ASSUME NEW p \in Process, proc[p].pc # "idle", NEW pc, Proceed(p, pc)
      PROVE  ProcessesOwnTheirCopies'
  <2>1. proc[p] \in Frame
    BY <1>0, <1>k, BusyFrame
  <2>2. PICK x : x.rec = proc[p].rec /\ proc' = [proc EXCEPT ![p] = x]
    BY <1>0, <1>k, <2>1, ProceedFrame
  <2> QED BY <1>x, <2>2 DEF ProcessesOwnTheirCopies
<1>f. ASSUME NEW p \in Process, proc[p].pc # "idle", NEW s, Finish(p, s)
      PROVE  ProcessesOwnTheirCopies'
  <2>1. proc[p] \in Frame
    BY <1>0, <1>f, BusyFrame
  <2>2. PICK x : /\ x.rec = [proc[p].rec EXCEPT !.state = s]
                 /\ proc' = [proc EXCEPT ![p] = x]
    BY <1>0, <1>f, <2>1, FinishFrame
  <2>3. x.rec.owner = proc[p].rec.owner
    BY <2>1, <2>2 DEF Frame, Saved
  <2> QED BY <1>x, <2>2, <2>3 DEF ProcessesOwnTheirCopies
<1>c. ASSUME NEW p \in Process, NEW pc, NEW o, NEW rec, Call(p, pc, o, rec),
             rec.owner \in {p, None}
      PROVE  ProcessesOwnTheirCopies'
  <2>1. PICK x : x.rec = rec /\ proc' = [proc EXCEPT ![p] = x]
    BY <1>c, CallFrame
  <2> QED BY <1>c, <1>x, <2>1
<1>e. ASSUME NEW o \in Op, record[o].state = "Planned"
      PROVE  /\ [record[o] EXCEPT !.state = "Expired"].owner = None
             /\ \A a, t : [record[o] EXCEPT !.state = "Approved", !.actor = a,
                                            !.approvedAt = t].owner = None
  <2>1. record[o].owner = None /\ record[o] \in Saved
    BY <1>0, <1>e, PlannedIsSaved DEF RecordsAreConsistent, TypeOK
  <2> QED BY <2>1 DEF Saved
<1>1. ASSUME NEW q \in Request, RequestStep(q) PROVE ProcessesOwnTheirCopies'
  <2>1. ASSUME NEW a \in Actor, NEW o \in Op, ApproveRead(q, a, o)
        PROVE  ProcessesOwnTheirCopies'
    <3>1. CASE UNCHANGED proc
      BY <1>u, <3>1
    <3>2. CASE ~UNCHANGED proc
      <4>1. /\ record[o].state = "Planned"
            /\ \E t \in Clock :
                 \/ Call(q, "finish", o, [record[o] EXCEPT !.state = "Expired"])
                 \/ Call(q, "approve", o, [record[o] EXCEPT !.state = "Approved",
                                                            !.actor = a,
                                                            !.approvedAt = t])
        BY <2>1, <3>2 DEF ApproveRead
      <4> QED BY <1>c, <1>e, <1>p, <4>1
    <3> QED BY <3>1, <3>2
  <2> QED BY <1>1, <1>p, <1>r, <2>1 DEF RequestStep, ApproveWrite, FinishWrite
<1>2. ASSUME NEW w \in Worker, NEW o \in Op, Start(w, o)
      PROVE  ProcessesOwnTheirCopies'
  <2>1. PICK t \in Clock :
          \/ /\ record[o].state = "Planned"
             /\ Call(w, "finish", o, [record[o] EXCEPT !.state = "Expired"])
          \/ /\ Reconciled(record[o])
             /\ Call(w, "claim", o, Claimed(record[o], w, t))
    BY <1>2 DEF Start
  <2>2. ASSUME Reconciled(record[o]) PROVE Claimed(record[o], w, t).owner = w
    <3>1. record[o] \in Saved
      BY <1>0, <2>2, PlannedIsSaved DEF Reconciled, TypeOK
    <3> QED BY <3>1 DEF Claimed, Saved
  <2> QED BY <1>c, <1>e, <1>p, <2>1, <2>2
<1>3. ASSUME NEW w \in Worker, Reread(w) PROVE ProcessesOwnTheirCopies'
  <2> DEFINE f == proc[w]
  <2>1. f \in Frame /\ f.op \in Op /\ f.rec.owner \in {w, None}
    BY <1>0, <1>3, <1>p, BusyFrame DEF Reread, Frame, ProcessesOwnTheirCopies
  <2>2. CASE HoldsClaim(f)
    <3>1. record[f.op].owner \in {w, None}
      BY <2>1, <2>2 DEF HoldsClaim
    <3>2. [record[f.op] EXCEPT !.state = "NeedsReview"].owner = record[f.op].owner
      BY <1>0, <2>1 DEF TypeOK, Saved, NoRecord
    <3>3. PICK pc, rec :
            /\ \/ pc = "finish" /\ rec = [record[f.op] EXCEPT !.state = "NeedsReview"]
               \/ pc = "inspect" /\ rec = record[f.op]
            /\ proc' = [proc EXCEPT ![w].pc = pc, ![w].rec = rec]
      BY <1>3, <2>2 DEF Reread
    <3> DEFINE x == [f EXCEPT !.pc = pc, !.rec = rec]
    <3>4. x.rec = rec
      BY <2>1 DEF Frame
    <3>5. proc' = [proc EXCEPT ![w] = x]
      BY <1>0, <1>p, <3>3
    <3> HIDE DEF x
    <3> QED BY <1>p, <1>x, <3>1, <3>2, <3>3, <3>4, <3>5
  <2>3. CASE ~HoldsClaim(f)
    BY <1>3, <1>p, <1>r, <2>3 DEF Reread
  <2> QED BY <2>2, <2>3
<1>4. ASSUME NEW w \in Worker, Prepare(w) PROVE ProcessesOwnTheirCopies'
  <2> DEFINE x == [proc[w] EXCEPT !.pc = "patch", !.annRv = target.rv]
  <2>1. x.rec = proc[w].rec
    BY <1>0, <1>4, <1>p, BusyFrame DEF Prepare, Frame
  <2>2. proc' = [proc EXCEPT ![w] = x]
    BY <1>0, <1>4, <1>p DEF Prepare
  <2> HIDE DEF x
  <2> QED BY <1>p, <1>x, <2>1, <2>2 DEF ProcessesOwnTheirCopies
<1>5. ASSUME NEW w \in Worker, WorkerStep(w) PROVE ProcessesOwnTheirCopies'
  BY <1>2, <1>3, <1>4, <1>5, <1>f, <1>k, <1>p, <1>r
  DEF WorkerStep, ClaimWrite, Inspect, DryRun, Recheck, Patch, FinishWrite
<1> QED
  BY <1>1, <1>5, <1>r, <1>u
  DEF Step, SaveDurablePlan, GiveUp, OrphanLands, TargetChanges, Tick

LEMMA ReadBackStep ==
  ASSUME EffectInv, TypeOK', CopiesAreCurrentOrStale, RecordsAreConsistent,
         ProcessesOwnTheirCopies', ClaimsAreReadBack, Step
  PROVE  ClaimsAreReadBack'
<1> SUFFICES ASSUME NEW f \in Frames', f.pc = "reread"
             PROVE  LET r == record'[f.op] IN
                    /\ \A g \in Frames' : g.op = f.op /\ g.rec.owner = f.rec.owner =>
                                             g.rec.version <= f.rec.version
                    /\ f.rec.version < r.version
                    /\ f.rec.epoch <= r.epoch
                    /\ f.rec.epoch = r.epoch =>
                         f.rec.owner = r.owner /\ r.state \in Underway
  BY DEF ClaimsAreReadBack
<1> DEFINE r == record[f.op]
           s == record'[f.op]
<1>0. /\ TypeOK /\ PlanAgreement /\ f \in Frame /\ f.op \in Op
      /\ f.rec \in Saved /\ f.rec.owner # None
  BY DEF EffectInv, TypeOK, Frames, Frame
<1>n. /\ f.rec.version \in Nat /\ f.rec.epoch \in Nat
      /\ r.version \in Nat /\ r.epoch \in Nat
  BY <1>0, RecordFields DEF Saved
\* f is the frame of a process, all that process does, and it has its name.
<1>w. ASSUME NEW g \in Frames', g \notin Frames, g.rec.owner = f.rec.owner
      PROVE  g = f
  <2>1. g \notin orphans' /\ f \notin orphans'
    BY <1>0, <1>w, OrphansStep DEF TypeOK
  <2>2. /\ \E p \in Process : g = proc'[p]
        /\ \E p \in Process : f = proc'[p]
    BY <2>1 DEF Frames
  <2> QED BY <1>0, <1>w, <2>2 DEF ProcessesOwnTheirCopies
\* An update of h, which is not the worker's, breaks no claim or fences it.
<1>1. ASSUME f \in Frames
      PROVE  /\ f.rec.version < s.version
             /\ f.rec.epoch <= s.epoch
             /\ f.rec.epoch = s.epoch =>
                  f.rec.owner = s.owner /\ s.state \in Underway
  <2>1. /\ f.rec.version < r.version
        /\ f.rec.epoch <= r.epoch
        /\ f.rec.epoch = r.epoch => f.rec.owner = r.owner /\ r.state \in Underway
    BY <1>1 DEF ClaimsAreReadBack
  <2>2. CASE s = r
    BY <2>1, <2>2
  <2>3. CASE s # r
    <3>1. r # NoRecord
      BY <1>1, <1>0 DEF PlanAgreement
    <3>2. PICK h \in Frames :
            /\ h.op = f.op /\ h.rec.version = r.version
            /\ Derives(h, r, now) /\ Written(h, s) /\ Stores(h)
      BY <1>0, <2>3, <3>1, StoreStep
    <3>3. h.rec.owner # f.rec.owner
      BY <1>1, <1>n, <2>1, <3>2 DEF ClaimsAreReadBack
    <3>4. h.rec.epoch \in Nat
      BY <1>0, FramesType DEF Saved
    <3>5. s.epoch = h.rec.epoch /\ s.version = r.version + 1
      BY <3>2 DEF Written, SameClaim
    <3>6. r.state = "Planned" => r.owner = None
      BY <1>0 DEF RecordsAreConsistent
    <3>7. \/ SameClaim(h.rec, r)
          \/ Fenced(h.rec, r, now)
      BY <3>2 DEF Derives
    <3>8. f.rec.epoch < s.epoch
      <4>1. CASE h.rec.owner = r.owner
        <5>1. r.epoch # f.rec.epoch /\ h.rec.epoch >= r.epoch
          BY <1>n, <2>1, <3>3, <3>7, <4>1 DEF SameClaim, Fenced
        <5> QED BY <1>n, <2>1, <3>4, <3>5, <5>1
      <4>2. CASE h.rec.owner # r.owner
        BY <1>n, <2>1, <3>4, <3>5, <3>7, <4>2 DEF SameClaim, Fenced
      <4> QED BY <4>1, <4>2
    <3> QED BY <1>n, <2>1, <3>4, <3>5, <3>8
  <2> QED BY <2>2, <2>3
<1>2. ASSUME f \notin Frames
      PROVE  \E h \in Frames : /\ h.op = f.op /\ h.pc = "claim" /\ Stores(h)
                               /\ f.rec = h.rec
  <2>1. Born(f)
    BY <1>0, <1>2, FrameStep
  <2> QED BY <2>1 DEF Born, Opened, Continues, Rereads, Concludes
<1>3. ASSUME f \notin Frames
      PROVE  /\ f.rec.version = r.version
             /\ f.rec.version < s.version
             /\ f.rec.epoch <= s.epoch
             /\ f.rec.epoch = s.epoch =>
                  f.rec.owner = s.owner /\ s.state \in Underway
  <2>1. PICK h \in Frames : /\ h.op = f.op /\ h.pc = "claim" /\ Stores(h)
                            /\ f.rec = h.rec
    BY <1>2, <1>3
  <2>2. r.version = f.rec.version /\ s = [f.rec EXCEPT !.version = @ + 1]
    BY <1>0, <2>1 DEF Stores, Current, TypeOK
  <2>3. /\ s.version = f.rec.version + 1 /\ s.epoch = f.rec.epoch
        /\ s.owner = f.rec.owner /\ s.state = f.rec.state
    BY <1>0, <2>2 DEF Saved
  <2>4. Derives(h, r, now)
    BY <2>1, <2>2 DEF CopiesAreCurrentOrStale
  <2>5. f.rec.state \in Underway
    BY <2>1, <2>4 DEF Derives
  <2> QED BY <1>n, <2>2, <2>3, <2>5
<1>4. ASSUME NEW g \in Frames', g.op = f.op, g.rec.owner = f.rec.owner
      PROVE  g.rec.version <= f.rec.version
  <2>1. CASE g \in Frames /\ f \in Frames
    BY <1>4, <2>1 DEF ClaimsAreReadBack
  <2>2. CASE g \in Frames /\ f \notin Frames
    BY <1>3, <1>4, <2>2 DEF CopiesAreCurrentOrStale
  <2>3. CASE g \notin Frames
    BY <1>4, <1>n, <1>w, <2>3
  <2> QED BY <2>1, <2>2, <2>3
<1> QED BY <1>1, <1>3, <1>4

\* A name on a record is not replaced.
LEMMA ActorStep ==
  ASSUME EffectInv, CopiesAreCurrentOrStale, RecordsAreConsistent, Step,
         NEW o \in Op, record[o].actor # None
  PROVE  record'[o].actor = record[o].actor
<1>0. TypeOK /\ PlanAgreement
  BY DEF EffectInv
<1>1. record[o] # NoRecord /\ record[o].state \notin {"Absent", "Planned", "Expired"}
  BY DEF NoRecord, RecordsAreConsistent
<1>2. ASSUME NEW h, Derives(h, record[o], now), Written(h, record'[o])
      PROVE  record'[o].actor = record[o].actor
  BY <1>1, <1>2 DEF Derives, Written, SameApproval
<1> QED BY <1>0, <1>1, <1>2, StoreStep

LEMMA AcksStep ==
  ASSUME EffectInv, TypeOK', CopiesAreCurrentOrStale, RecordsAreConsistent,
         AckedApproverIsRecorded, Step
  PROVE  AckedApproverIsRecorded'
<1> SUFFICES ASSUME NEW ack \in acks' PROVE record'[ack[2]].actor = ack[1]
  BY DEF AckedApproverIsRecorded
<1>0. /\ TypeOK /\ ack \in Actor \X Op /\ ack[1] # None /\ ack[2] \in Op
  BY DistinctNames DEF EffectInv, TypeOK
<1>1. CASE ack \in acks
  BY <1>0, <1>1, ActorStep DEF AckedApproverIsRecorded
<1>2. ASSUME NEW q \in Request, NEW a \in Actor, NEW o \in Op,
             ApproveRead(q, a, o), ack \notin acks
      PROVE  record'[ack[2]].actor = ack[1]
  <2>1. acks' # acks
    BY <1>2
  <2>2. acks' = acks \union {<<a, o>>} /\ record[o].actor = a /\ record' = record
    BY <1>2, <2>1 DEF ApproveRead
  <2>3. ack = <<a, o>>
    BY <1>2, <2>2
  <2> QED BY <2>2, <2>3
<1>3. ASSUME NEW q \in Request, ApproveWrite(q), ack \notin acks
      PROVE  record'[ack[2]].actor = ack[1]
  <2> DEFINE f == proc[q]
  <2>1. f.op \in Op /\ f.rec \in Saved
    BY <1>0, <1>3, BusyFrame DEF ApproveWrite, TypeOK, Frame, Process
  <2>2. ack = <<f.rec.actor, f.op>> /\ Current(f)
    BY <1>3 DEF ApproveWrite
  <2>3. record'[f.op] = [f.rec EXCEPT !.version = @ + 1]
    BY <1>0, <1>3, <2>1, <2>2 DEF ApproveWrite, Update, TypeOK
  <2> QED BY <2>1, <2>2, <2>3 DEF Saved
<1>4. ASSUME NEW w \in Worker, WorkerStep(w) PROVE UNCHANGED acks
  BY <1>4 DEF WorkerStep, Start, ClaimWrite, Reread, Inspect, DryRun, Recheck,
              Prepare, Patch, FinishWrite
<1>5. ASSUME NEW f, OrphanLands(f) PROVE UNCHANGED acks
  BY <1>5 DEF OrphanLands
<1> QED
  BY <1>1, <1>2, <1>3, <1>4, <1>5
  DEF Step, SaveDurablePlan, RequestStep, FinishWrite, GiveUp, TargetChanges, Tick

-----------------------------------------------------------------------------
(* The invariant.                                                           *)

LEMMA RecordInvInit == Init => RecordInv
<1> SUFFICES ASSUME Init PROVE RecordInv
  OBVIOUS
<1>1. EffectInv
  BY EffectInvInit
<1>2. /\ Frames = {} /\ acks = {} /\ target.marker = None
      /\ \A o \in Op : record[o] = NoRecord /\ effects[o] = 0
      /\ \A p \in Process : proc[p] = Idle
  BY DEF Init, Frames, Fresh
<1>3. RecordsAreConsistent
  BY <1>2, DistinctNames DEF RecordsAreConsistent, NoRecord
<1> QED BY <1>1, <1>2, <1>3
        DEF RecordInv, CopiesAreCurrentOrStale, StartedFrames,
            VerdictsAreFounded, ProcessesOwnTheirCopies, ClaimsAreReadBack,
            AckedApproverIsRecorded, Idle, NoRecord

LEMMA RecordInvStep == RecordInv /\ [Next]_vars => RecordInv'
<1> SUFFICES ASSUME RecordInv, [Next]_vars PROVE RecordInv'
  OBVIOUS
<1>1. EffectInv' /\ TypeOK'
  BY EffectInvStep DEF RecordInv, EffectInv
<1>2. CASE UNCHANGED vars
  BY <1>1, <1>2
  DEF vars, RecordInv, Frames, CopiesAreCurrentOrStale, StartedFrames,
      VerdictsAreFounded, ProcessesOwnTheirCopies, ClaimsAreReadBack,
      RecordsAreConsistent, AckedApproverIsRecorded, Derives, Fenced
<1>3. CASE Next
  <2>1. Step
    BY <1>3 DEF Next
  <2>2. CopiesAreCurrentOrStale' /\ StartedFrames' /\ ProcessesOwnTheirCopies'
        /\ AckedApproverIsRecorded'
    BY <1>1, <2>1, CopiesStep, StartedFramesStep, NamesStep, AcksStep DEF RecordInv
  <2>3. VerdictsAreFounded' /\ RecordsAreConsistent'
    BY <1>1, <1>3, VerdictsStep, RecordsStep DEF RecordInv
  <2>4. ClaimsAreReadBack'
    BY <1>1, <2>1, <2>2, ReadBackStep DEF RecordInv
  <2> QED BY <1>1, <2>2, <2>3, <2>4 DEF RecordInv
<1> QED BY <1>2, <1>3

LEMMA RecordInvHolds == Spec => []RecordInv
BY RecordInvInit, RecordInvStep, PTL DEF Spec

-----------------------------------------------------------------------------
(* What follows.                                                            *)

\* Nothing reaches the Deployment without a timely approval by a named actor:
\* an effect means that the operation was started, which only an approved one
\* is, and the approval is never written again.
THEOREM EffectsApproved == Spec => []EffectWasApproved
<1>1. RecordInv => EffectWasApproved
  BY DEF RecordInv, RecordsAreConsistent, EffectWasApproved
<1> QED BY <1>1, RecordInvHolds, PTL

\* Whoever was answered with the record is the actor on record.
THEOREM ApproversRecorded == Spec => []AckedApproverIsRecorded
<1>1. RecordInv => AckedApproverIsRecorded
  BY DEF RecordInv
<1> QED BY <1>1, RecordInvHolds, PTL

\* Success is reported only of an operation that took effect and was seen in
\* full health, although the report may be stored long after.
THEOREM SuccessFounded == Spec => []SuccessWasObserved
<1>1. RecordInv => SuccessWasObserved
  <2> SUFFICES ASSUME RecordInv, NEW o \in Op, record[o].state = "Succeeded"
               PROVE  effects[o] = 1 /\ o \in recovered
    BY DEF SuccessWasObserved
  <2>1. effects[o] > 0 /\ o \in recovered
    BY DEF RecordInv, RecordsAreConsistent
  <2>2. effects[o] \in Nat /\ effects[o] <= 1
    BY DEF RecordInv, EffectInv, TypeOK, AtMostOneEffect
  <2> QED BY <2>1, <2>2
<1> QED BY <1>1, RecordInvHolds, PTL

\* A terminal record is final: no copy that is still in flight was computed
\* from it, so every update that arrives fails its compare-and-swap.
THEOREM TerminalStays == Spec => TerminalIsFinal
<1> DEFINE Final ==
      \A o \in Op : record[o].state \in Terminal => record'[o] = record[o]
<1>1. RecordInv /\ [Next]_vars => [Final]_vars
  <2> SUFFICES ASSUME RecordInv, Next, NEW o \in Op, record[o].state \in Terminal,
                      record'[o] # record[o]
               PROVE  FALSE
    BY DEF vars
  <2>1. record[o] # NoRecord
    BY DEF NoRecord
  <2>2. PICK h \in Frames : Stores(h) /\ Derives(h, record[o], now)
    BY <2>1, StoreStep DEF RecordInv, EffectInv, Next
  <2> QED BY <2>2 DEF Derives, Stores
<1> QED BY <1>1, RecordInvHolds, PTL DEF Spec, TerminalIsFinal

\* Claims are fenced: epochs never go back, and a claim changes hands only when
\* it has expired by the clock of the new owner, and with a new epoch.
THEOREM ClaimsFenced == Spec => ClaimsAreFenced
<1> DEFINE Fence ==
      \A o \in Op :
        /\ record'[o].epoch >= record[o].epoch
        /\ record'[o].owner # record[o].owner =>
             /\ record'[o].epoch > record[o].epoch
             /\ record[o].claimUntil <= now + Skew
<1>1. RecordInv /\ [Next]_vars => [Fence]_vars
  <2> SUFFICES ASSUME RecordInv, Next, NEW o \in Op
               PROVE  /\ record'[o].epoch >= record[o].epoch
                      /\ record'[o].owner # record[o].owner =>
                           /\ record'[o].epoch > record[o].epoch
                           /\ record[o].claimUntil <= now + Skew
    BY DEF vars
  <2>0. TypeOK /\ PlanAgreement /\ CopiesAreCurrentOrStale /\ Step
    BY DEF RecordInv, EffectInv, Next
  <2>1. record[o].epoch \in Nat
    BY <2>0, RecordFields
  <2>2. CASE record'[o] = record[o]
    BY <2>1, <2>2
  <2>3. CASE record[o] = NoRecord /\ NewPlan(record'[o])
    BY <2>3 DEF NoRecord, NewPlan
  <2>4. ASSUME NEW h \in Frames, Stores(h), Derives(h, record[o], now),
               Written(h, record'[o])
        PROVE  /\ record'[o].epoch >= record[o].epoch
               /\ record'[o].owner # record[o].owner =>
                    /\ record'[o].epoch > record[o].epoch
                    /\ record[o].claimUntil <= now + Skew
    <3>1. SameClaim(h.rec, record[o]) \/ Fenced(h.rec, record[o], now)
      BY <2>4 DEF Derives
    <3>2. SameClaim(record'[o], h.rec)
      BY <2>4 DEF Written
    <3> QED BY <2>1, <3>1, <3>2 DEF SameClaim, Fenced
  <2> QED BY <2>0, <2>2, <2>3, <2>4, StoreStep
<1> QED BY <1>1, RecordInvHolds, PTL DEF Spec, ClaimsAreFenced

-----------------------------------------------------------------------------
(* DurableOperations implements OperationLifecycle.                         *)

LEMMA LifecycleInit == Init => Lifecycle!Init
<1> SUFFICES ASSUME Init PROVE Lifecycle!Init
  OBVIOUS
<1>1. \A o \in Op : record[o].state = "Absent" /\ effects[o] = 0
  BY DEF Init, NoRecord
<1> QED BY <1>1 DEF Lifecycle!Init

\* A record that changes moves as the lifecycle says, alone.
LEMMA LifecycleRecord ==
  ASSUME RecordInv, TypeOK', Next, NEW o \in Op, record'[o] # record[o],
         \A p \in Op : p # o => record'[p] = record[p]
  PROVE  Lifecycle!Next \/ UNCHANGED Lifecycle!vars
<1> DEFINE state == [p \in Op |-> record[p].state]
           from == record[o].state
           to == record'[o].state
<1>0. TypeOK /\ PlanAgreement /\ CopiesAreCurrentOrStale /\ Step
  BY DEF RecordInv, EffectInv, Next
<1>1. UNCHANGED <<target, effects>>
  BY <1>0, StoreStep
<1>2. state' = [state EXCEPT ![o] = to]
  OBVIOUS
<1>3. state[o] = from
  OBVIOUS
<1>4. {p \in Op : effects'[p] > 0} = {p \in Op : effects[p] > 0}
  BY <1>1
<1>5. \/ from = "Absent" /\ to = "Planned"
      \/ from = "Planned" /\ to \in {"Approved", "Expired"}
      \/ from = "Approved" /\ to = "Executing"
      \/ from \in Underway /\ to = from
      \/ from = "Executing" /\ to \in {"Verifying", "Failed"}
      \/ from \in Underway /\ to \in {"Succeeded", "NeedsReview"}
  <2>1. CASE record[o] = NoRecord /\ NewPlan(record'[o])
    BY <2>1 DEF NoRecord, NewPlan
  <2>2. ASSUME NEW h \in Frames, Stores(h), Derives(h, record[o], now),
               Written(h, record'[o])
        PROVE  \/ from = "Planned" /\ to \in {"Approved", "Expired"}
               \/ from = "Approved" /\ to = "Executing"
               \/ from \in Underway /\ to = from
               \/ from = "Executing" /\ to \in {"Verifying", "Failed"}
               \/ from \in Underway /\ to \in {"Succeeded", "NeedsReview"}
    <3>1. to = h.rec.state /\ h.pc \in {"approve", "claim", "finish"}
      BY <2>2 DEF Written, Stores
    <3>2. CASE h.pc = "approve"
      BY <2>2, <3>1, <3>2 DEF Derives
    <3>3. CASE h.pc = "claim"
      BY <2>2, <3>1, <3>3 DEF Derives
    <3>4. CASE h.pc = "finish"
      BY <2>2, <3>1, <3>4 DEF Derives
    <3> QED BY <3>1, <3>2, <3>3, <3>4
  <2> QED BY <1>0, <2>1, <2>2, StoreStep
<1>6. to \in {"Verifying", "Succeeded"} => o \in {p \in Op : effects[p] > 0}
  BY <1>1, RecordInvStep DEF RecordInv, RecordsAreConsistent
<1>7. ASSUME from = to PROVE UNCHANGED Lifecycle!vars
  BY <1>2, <1>3, <1>4, <1>7 DEF Lifecycle!vars
<1>8. CASE from = "Absent"
  BY <1>2, <1>3, <1>4, <1>5, <1>8
  DEF Lifecycle!Next, Lifecycle!Plan, Lifecycle!Move
<1>9. CASE from = "Planned"
  BY <1>2, <1>3, <1>4, <1>5, <1>9
  DEF Lifecycle!Next, Lifecycle!Approve, Lifecycle!Expire, Lifecycle!Move
<1>10. CASE from = "Approved"
  BY <1>2, <1>3, <1>4, <1>5, <1>10
  DEF Lifecycle!Next, Lifecycle!Execute, Lifecycle!Move
<1>11. CASE from \in Underway /\ to # from
  BY <1>2, <1>3, <1>4, <1>5, <1>6, <1>11
  DEF Lifecycle!Next, Lifecycle!Verify, Lifecycle!Succeed, Lifecycle!Fail,
      Lifecycle!Review, Lifecycle!Move
<1> QED BY <1>5, <1>7, <1>8, <1>9, <1>10, <1>11

\* An effect is the one that the lifecycle allows.
LEMMA LifecycleEffect ==
  ASSUME RecordInv, RecordInv', Next, NEW o \in Op, effects'[o] # effects[o]
  PROVE  Lifecycle!Next
<1>0. TypeOK /\ PlanAgreement /\ Step
  BY DEF RecordInv, EffectInv, Next
<1>1. UNCHANGED record /\ effects'[o] = effects[o] + 1
  BY <1>0, EffectStep
<1>2. PICK f \in Frames : f.op = o /\ TakesEffect(f)
  BY <1>0, EffectStep
<1>3. effects' = [effects EXCEPT ![o] = @ + 1]
  BY <1>2 DEF TakesEffect
<1>4. effects[o] \in Nat /\ effects'[o] <= 1
  BY <1>0 DEF TypeOK, RecordInv, EffectInv, AtMostOneEffect
<1>5. effects[o] = 0
  BY <1>1, <1>4
<1>6. {p \in Op : effects'[p] > 0} = {p \in Op : effects[p] > 0} \union {o}
  BY <1>0, <1>1, <1>3, <1>5 DEF TypeOK
<1>7. record[o].state \in {"Executing", "Failed", "NeedsReview"}
  <2>1. record[o].state \in Started
    BY <1>2 DEF RecordInv, StartedFrames, TakesEffect
  <2>2. record[o].state \notin {"Verifying", "Succeeded"}
    BY <1>5 DEF RecordInv, RecordsAreConsistent
  <2> QED BY <2>1, <2>2
<1>8. Lifecycle!TakeEffect(o)
  BY <1>1, <1>5, <1>6, <1>7 DEF Lifecycle!TakeEffect
<1> QED BY <1>8 DEF Lifecycle!Next

\* A step writes one record at most.
LEMMA OneRecord ==
  ASSUME RecordInv, Next, NEW o \in Op, record'[o] # record[o]
  PROVE  \A p \in Op : p # o => record'[p] = record[p]
<1>0. TypeOK /\ Step
  BY DEF RecordInv, EffectInv, Next
<1>1. CASE Creates
  BY <1>0, <1>1 DEF Creates, TypeOK
<1>2. ASSUME NEW f \in Frames, Stores(f)
      PROVE  \A p \in Op : p # o => record'[p] = record[p]
  <2>1. f.op \in Op
    BY <1>0, FramesType
  <2> QED BY <1>0, <1>2, <2>1 DEF Stores, TypeOK
<1> QED BY <1>0, <1>1, <1>2, RecordStep

LEMMA LifecycleStep ==
  RecordInv /\ RecordInv' /\ [Next]_vars => [Lifecycle!Next]_(Lifecycle!vars)
<1> SUFFICES ASSUME RecordInv, RecordInv', [Next]_vars
             PROVE  Lifecycle!Next \/ UNCHANGED Lifecycle!vars
  OBVIOUS
<1>1. CASE UNCHANGED vars
  BY <1>1 DEF vars, Lifecycle!vars
<1>2. CASE Next
  <2>0. TypeOK /\ TypeOK' /\ PlanAgreement /\ CopiesAreCurrentOrStale /\ Step
    BY <1>2 DEF RecordInv, EffectInv, Next
  <2>1. ASSUME NEW o \in Op, record'[o] # record[o]
        PROVE  \A p \in Op : p # o => record'[p] = record[p]
    BY <1>2, <2>1, OneRecord
  <2>2. CASE \E o \in Op : record'[o] # record[o]
    BY <1>2, <2>0, <2>1, <2>2, LifecycleRecord
  <2>3. CASE \E o \in Op : effects'[o] # effects[o]
    BY <1>2, <2>3, LifecycleEffect
  <2>4. CASE \A o \in Op : record'[o] = record[o] /\ effects'[o] = effects[o]
    BY <2>4 DEF Lifecycle!vars
  <2> QED BY <2>2, <2>3, <2>4
<1> QED BY <1>1, <1>2

\* The records and effects of durable operations behave as the lifecycle
\* promises, for any number of operations, workers, approvers and failures.
THEOREM LifecycleImplemented == Spec => ImplementsLifecycle
<1>1. Spec => []RecordInv
  BY RecordInvHolds
<1> QED BY <1>1, LifecycleInit, LifecycleStep, PTL
        DEF Spec, ImplementsLifecycle, Lifecycle!Spec

-----------------------------------------------------------------------------
(* DurableOperations implements ReviewedChange.                             *)

\* A record is there exactly if it names a change.
LEMMA ChangeIsRecorded ==
  ASSUME NEW r \in Saved \union {NoRecord}
  PROVE  /\ Change(r) = Change(NoRecord) <=> r = NoRecord
         /\ r # NoRecord =>
              Change(r) \in [action : Action, replicas : Replicas, template : Template]
<1>1. CASE r \in Saved
  <2>1. r.action \in Action /\ r.replicas \in Replicas /\ r.template \in Template
    BY <1>1 DEF Saved
  <2>2. Change(r).action # Change(NoRecord).action
    BY <2>1, DistinctNames DEF Change, NoRecord
  <2>3. Change(r) # Change(NoRecord) /\ r # NoRecord
    BY <2>2
  <2>4. Change(r) \in [action : Action, replicas : Replicas, template : Template]
    BY <2>1 DEF Change
  <2> QED BY <2>3, <2>4
<1>2. CASE r = NoRecord
  BY <1>2
<1> QED BY <1>1, <1>2

LEMMA ReviewedInit == Init => Reviewed!Init
<1> SUFFICES ASSUME Init PROVE Reviewed!Init
  OBVIOUS
<1>1. \A o \in Op : /\ record[o] = NoRecord /\ record[o].actor = None
                    /\ ~(effects[o] > 0)
  BY DEF Init, NoRecord
<1> QED BY <1>1 DEF Reviewed!Init

\* A record that appears is a review; one that changes keeps its change, and its actor
\* once it has one.
LEMMA ReviewedRecord ==
  ASSUME RecordInv, RecordInv', Next, NEW o \in Op, record'[o] # record[o],
         \A p \in Op : p # o => record'[p] = record[p]
  PROVE  Reviewed!Next \/ UNCHANGED Reviewed!vars
<1> DEFINE change == [p \in Op |-> Change(record[p])]
           spent == {p \in Op : record[p].actor # None}
           effect == [p \in Op |-> Change(IF effects[p] > 0 THEN record[p] ELSE NoRecord)]
<1>0. TypeOK /\ TypeOK' /\ PlanAgreement /\ CopiesAreCurrentOrStale /\ Step
  BY DEF RecordInv, EffectInv, Next
<1>1. UNCHANGED effects
  BY <1>0, StoreStep
<1>2. change' = [change EXCEPT ![o] = Change(record'[o])] /\ change[o] = Change(record[o])
  OBVIOUS
<1>3. spent' \ {o} = spent \ {o}
  OBVIOUS
<1>4. CASE record[o] = NoRecord /\ NewPlan(record'[o])
  <2>1. record[o].actor = None /\ record'[o].actor = None /\ record'[o] # NoRecord
    BY <1>4 DEF NoRecord, NewPlan
  <2>2. spent' = spent
    BY <1>3, <2>1
  <2>3. ~(effects[o] > 0)
    BY <1>0, <1>4 DEF RecordInv, RecordsAreConsistent, NoRecord
  <2>4. effect' = effect
    BY <1>1, <2>3
  <2>5. Change(record'[o]) \in [action : Action, replicas : Replicas, template : Template]
    BY <1>0, <2>1, ChangeIsRecorded DEF TypeOK
  <2> QED BY <1>2, <1>4, <2>2, <2>4, <2>5 DEF Reviewed!Next, Reviewed!Review
<1>5. ASSUME NEW h \in Frames, Derives(h, record[o], now), Written(h, record'[o]),
             record[o] \in Saved
      PROVE  Reviewed!Next \/ UNCHANGED Reviewed!vars
  <2>1. record[o] # NoRecord
    BY <1>5 DEF Saved, NoRecord
  <2>2. Change(record'[o]) = Change(record[o])
    BY <1>0, <2>1, PlanStable DEF SamePlan, Change
  <2>3. change' = change /\ effect' = effect
    BY <1>1, <1>2, <2>2
  <2>4. record[o].actor # None => record'[o].actor # None
    <3>1. record[o].actor # None => record[o].state # "Planned"
      BY DEF RecordInv, RecordsAreConsistent
    <3> QED BY <1>5, <3>1 DEF Derives, Written, SameApproval
  <2>5. CASE record'[o].actor # None /\ record[o].actor = None
    <3>1. spent' = spent \union {o} /\ o \notin spent
      BY <1>3, <2>5
    <3>2. change[o] # Change(NoRecord)
      BY <1>0, <2>1, ChangeIsRecorded DEF TypeOK
    <3> QED BY <2>3, <3>1, <3>2 DEF Reviewed!Next, Reviewed!Spend
  <2>6. CASE ~(record'[o].actor # None /\ record[o].actor = None)
    <3>1. spent' = spent
      BY <1>3, <2>4, <2>6
    <3> QED BY <2>3, <3>1 DEF Reviewed!vars
  <2> QED BY <2>5, <2>6
<1> QED BY <1>0, <1>4, <1>5, StoreStep

\* An effect is the first one of an approved operation.
LEMMA ReviewedEffect ==
  ASSUME RecordInv, RecordInv', Next, NEW o \in Op, effects'[o] # effects[o]
  PROVE  Reviewed!Next
<1> DEFINE effect == [p \in Op |-> Change(IF effects[p] > 0 THEN record[p] ELSE NoRecord)]
<1>0. TypeOK /\ PlanAgreement /\ Step
  BY DEF RecordInv, EffectInv, Next
<1>1. UNCHANGED record /\ effects'[o] = effects[o] + 1
  BY <1>0, EffectStep
<1>2. PICK f \in Frames : f.op = o /\ TakesEffect(f)
  BY <1>0, EffectStep
<1>3. effects' = [effects EXCEPT ![o] = @ + 1]
  BY <1>2 DEF TakesEffect
<1>4. effects[o] \in Nat /\ effects'[o] <= 1
  BY <1>0 DEF TypeOK, RecordInv, EffectInv, AtMostOneEffect
<1>5. effects[o] = 0 /\ effects'[o] > 0
  BY <1>1, <1>4
<1>6. \A p \in Op : p # o => effects'[p] = effects[p]
  BY <1>0, <1>3 DEF TypeOK
<1>7. effect' = [effect EXCEPT ![o] = Change(record[o])] /\ effect[o] = Change(NoRecord)
  <2>1. ~(effects[o] > 0)
    BY <1>5
  <2>2. effect[o] = Change(NoRecord) /\ effect'[o] = Change(record[o])
    BY <1>1, <1>5, <2>1, Zenon
  <2>3. ASSUME NEW p \in Op, p # o PROVE effect'[p] = effect[p]
    BY <1>1, <1>6, <2>3
  <2>4. DOMAIN effect = Op /\ DOMAIN effect' = Op
    OBVIOUS
  <2>5. effect' = [p \in Op |-> effect'[p]] /\ effect = [p \in Op |-> effect[p]]
    OBVIOUS
  <2> HIDE DEF effect
  <2> QED BY <2>2, <2>3, <2>4, <2>5
<1>8. o \in {p \in Op : record[p].actor # None}
  BY <1>1, <1>5 DEF RecordInv, RecordsAreConsistent
<1> QED BY <1>1, <1>7, <1>8 DEF Reviewed!Next, Reviewed!TakeEffect

LEMMA ReviewedStep ==
  RecordInv /\ RecordInv' /\ [Next]_vars => [Reviewed!Next]_(Reviewed!vars)
<1> SUFFICES ASSUME RecordInv, RecordInv', [Next]_vars
             PROVE  Reviewed!Next \/ UNCHANGED Reviewed!vars
  OBVIOUS
<1>1. CASE UNCHANGED <<record, effects>>
  BY <1>1 DEF Reviewed!vars
<1>2. CASE Next /\ \E o \in Op : record'[o] # record[o]
  BY <1>2, OneRecord, ReviewedRecord
<1>3. CASE Next /\ \E o \in Op : effects'[o] # effects[o]
  BY <1>3, ReviewedEffect
<1>4. CASE \A o \in Op : record'[o] = record[o] /\ effects'[o] = effects[o]
  BY <1>4 DEF Reviewed!vars
<1> QED BY <1>1, <1>2, <1>3, <1>4 DEF vars

\* A durable operation is a guarded operation: its approval is the one use of a review,
\* and its change is never another one.
THEOREM DurableIsReviewed == Spec => ImplementsReviewedChange
<1>1. Spec => []RecordInv
  BY RecordInvHolds
<1> QED BY <1>1, ReviewedInit, ReviewedStep, PTL
        DEF Spec, ImplementsReviewedChange, Reviewed!Spec

\* For any number of operations, workers, approvers and failures: the lifecycle of the
\* records is kept, and a change reaches the cluster at most once, as it was reviewed,
\* after an approval has used up the review.
THEOREM PromisesKept == Spec => KeepsItsPromises
BY LifecycleImplemented, DurableIsReviewed DEF KeepsItsPromises
=============================================================================
