------------------------ MODULE GuardedOperationsProofs ------------------------
(***************************************************************************)
(* Proofs about GuardedOperations: types, the single use of plans, that    *)
(* every effect is the reviewed one, that answers are true, that a process *)
(* keeps the plans and receipts it promised, and that ReviewedChange is    *)
(* implemented.                                                            *)
(***************************************************************************)
EXTENDS GuardedOperations, FiniteSetTheorems, TLAPS

-----------------------------------------------------------------------------
(* The checks of a request.                                                 *)

\* The answer is that of the first check that fails.
LEMMA FourChecks ==
  ASSUME NEW c1, NEW c2, NEW c3, NEW c4,
         NEW b1 \in BOOLEAN, NEW b2 \in BOOLEAN, NEW b3 \in BOOLEAN, NEW b4 \in BOOLEAN
  PROVE  FirstOf(<< <<c1, b1>>, <<c2, b2>>, <<c3, b3>>, <<c4, b4>> >>) =
           (IF b1 THEN c1 ELSE IF b2 THEN c2 ELSE IF b3 THEN c3 ELSE IF b4 THEN c4 ELSE "ok")
<1> DEFINE s == << <<c1, b1>>, <<c2, b2>>, <<c3, b3>>, <<c4, b4>> >>
           failed == {i \in DOMAIN s : s[i][2]}
<1>1. DOMAIN s = 1..4 OBVIOUS
<1>2. s[1][2] = b1 /\ s[2][2] = b2 /\ s[3][2] = b3 /\ s[4][2] = b4 OBVIOUS
<1>3. s[1][1] = c1 /\ s[2][1] = c2 /\ s[3][1] = c3 /\ s[4][1] = c4 OBVIOUS
<1> HIDE DEF s
<1>4. \A i : i \in failed <=>
               ((i = 1 /\ b1) \/ (i = 2 /\ b2) \/ (i = 3 /\ b3) \/ (i = 4 /\ b4))
  BY <1>1, <1>2
<1> QED BY <1>1, <1>2, <1>3, <1>4, SMTT(30) DEF FirstOf

\* The same for the six checks of a change.
LEMMA SixChecks ==
  ASSUME NEW c1, NEW c2, NEW c3, NEW c4, NEW c5, NEW c6,
         NEW b1 \in BOOLEAN, NEW b2 \in BOOLEAN, NEW b3 \in BOOLEAN,
         NEW b4 \in BOOLEAN, NEW b5 \in BOOLEAN, NEW b6 \in BOOLEAN
  PROVE  FirstOf(<< <<c1, b1>>, <<c2, b2>>, <<c3, b3>>, <<c4, b4>>, <<c5, b5>>, <<c6, b6>> >>) =
           (IF b1 THEN c1 ELSE IF b2 THEN c2 ELSE IF b3 THEN c3
            ELSE IF b4 THEN c4 ELSE IF b5 THEN c5 ELSE IF b6 THEN c6 ELSE "ok")
<1> DEFINE s == << <<c1, b1>>, <<c2, b2>>, <<c3, b3>>, <<c4, b4>>, <<c5, b5>>, <<c6, b6>> >>
           failed == {i \in DOMAIN s : s[i][2]}
<1>1. DOMAIN s = 1..6 OBVIOUS
<1>2. s[1][2] = b1 /\ s[2][2] = b2 /\ s[3][2] = b3 /\ s[4][2] = b4 /\ s[5][2] = b5 /\ s[6][2] = b6
  OBVIOUS
<1>3. s[1][1] = c1 /\ s[2][1] = c2 /\ s[3][1] = c3 /\ s[4][1] = c4 /\ s[5][1] = c5 /\ s[6][1] = c6
  OBVIOUS
<1> HIDE DEF s
<1>4. \A i : i \in failed <=>
               ((i = 1 /\ b1) \/ (i = 2 /\ b2) \/ (i = 3 /\ b3)
                \/ (i = 4 /\ b4) \/ (i = 5 /\ b5) \/ (i = 6 /\ b6))
  BY <1>1, <1>2
<1> QED BY <1>1, <1>2, <1>3, <1>4, SMTT(30) DEF FirstOf

\* The answers of validateOperation.
LEMMA DenialCodes ==
  ASSUME NEW c
  PROVE  Denial(c) \in {"ok", "namespace_denied", "kind_denied", "invalid_target",
                        "invalid_reason", "action_denied", "invalid_replicas"}
<1> DEFINE b1 == c.namespace \notin Namespaces
           b2 == c.kind # "Deployment"
           b3 == c.name = None
           b4 == c.reason # "fit"
           b5 == c.action \notin {"restart", "scale", "rollback"}
           b6 == c.action = "scale" /\ c.replicas \notin MinReplicas..MaxReplicas
<1>1. /\ b1 \in BOOLEAN /\ b2 \in BOOLEAN /\ b3 \in BOOLEAN
      /\ b4 \in BOOLEAN /\ b5 \in BOOLEAN /\ b6 \in BOOLEAN
  OBVIOUS
<1>2. Denial(c) = FirstOf(<< <<"namespace_denied", b1>>, <<"kind_denied", b2>>,
                            <<"invalid_target", b3>>, <<"invalid_reason", b4>>,
                            <<"action_denied", b5>>, <<"invalid_replicas", b6>> >>)
  BY DEF Denial, Denials
<1> HIDE DEF b1, b2, b3, b4, b5, b6
<1> QED BY <1>1, <1>2, SixChecks

\* A request that is refused before its plan is looked for gets an answer that says
\* so; one that is not has an actor, and names a plan and a version.
LEMMA RefusalCodes ==
  ASSUME NEW f \in Form
  PROVE  /\ Refusal(f) \in Unspent \union {"ok"}
         /\ Refusal(f) = "ok" => Actor(f) # None /\ f.plan # None /\ f.version # 0
<1> DEFINE b1 == f.flaw # "ok"
           b2 == Actor(f) = None
           b3 == f.plan = None \/ f.version = 0
           b4 == Denial(f.asked) # "ok"
<1>1. b1 \in BOOLEAN /\ b2 \in BOOLEAN /\ b3 \in BOOLEAN /\ b4 \in BOOLEAN
  OBVIOUS
<1>2. Refusal(f) = FirstOf(<< <<f.flaw, b1>>, <<"actor_required", b2>>,
                             <<"plan_required", b3>>, <<Denial(f.asked), b4>> >>)
  BY DEF Refusal, Refusals
<1>3. f.flaw \in {"ok", "review_required", "invalid_request"} BY DEF Form
<1>4. Refusal(f) = IF b1 THEN f.flaw ELSE IF b2 THEN "actor_required"
                   ELSE IF b3 THEN "plan_required" ELSE IF b4 THEN Denial(f.asked) ELSE "ok"
  <2> HIDE DEF b1, b2, b3, b4
  <2> QED BY <1>1, <1>2, FourChecks
<1>5. Denial(f.asked) \in Unspent \union {"ok"} BY DenialCodes DEF Unspent
<1> QED BY <1>3, <1>4, <1>5 DEF Unspent

\* consumeOperationPlan accepts a plan of its store, unexpired, of that version, for
\* that change.
LEMMA VerdictCodes ==
  ASSUME NEW p, NEW f
  PROVE  /\ Verdict(p, f) \in {"ok", "plan_invalid", "plan_mismatch"}
         /\ Verdict(p, f) = "ok" => /\ f.plan \in store[p]
                                    /\ ~(now - plan[f.plan].created > TTL)
                                    /\ f.version = plan[f.plan].version
                                    /\ f.asked = plan[f.plan].asked
<1> DEFINE b1 == f.plan \notin store[p]
           b2 == now - plan[f.plan].created > TTL
           b3 == f.version # plan[f.plan].version
           b4 == f.asked # plan[f.plan].asked
<1>1. b1 \in BOOLEAN /\ b2 \in BOOLEAN /\ b3 \in BOOLEAN /\ b4 \in BOOLEAN
  OBVIOUS
<1>2. Verdict(p, f) = FirstOf(<< <<"plan_invalid", b1>>, <<"plan_invalid", b2>>,
                                <<"plan_invalid", b3>>, <<"plan_mismatch", b4>> >>)
  BY DEF Verdict
<1>3. Verdict(p, f) = IF b1 THEN "plan_invalid" ELSE IF b2 THEN "plan_invalid"
                      ELSE IF b3 THEN "plan_invalid" ELSE IF b4 THEN "plan_mismatch" ELSE "ok"
  <2> HIDE DEF b1, b2, b3, b4
  <2> QED BY <1>1, <1>2, FourChecks
<1> QED BY <1>3

-----------------------------------------------------------------------------
(* Types.                                                                   *)

\* A frame is told from a request that was not served by its process.
LEMMA FramesAreServed ==
  ASSUME NEW r \in Execution, exec[r] \in Frame \union Unserved
  PROVE  /\ exec[r].on \in Process <=> exec[r] \in Frame
         /\ exec[r].at \in {"read", "dryrun", "apply", "record"} => exec[r] \in Frame
         /\ exec[r].at = "waiting" => exec[r] \in Unserved
BY GuardedNames DEF Frame, Unserved

LEMMA InitTypes == Init => TypeOK
<1> SUFFICES ASSUME Init PROVE TypeOK
  OBVIOUS
<1>1. Waiting \in Unserved BY DEF Waiting, Unserved
<1>2. exec \in [Execution -> Frame \union Unserved] BY <1>1 DEF Init
<1>3. /\ now \in Nat /\ crashes \in Nat /\ previous \in Template
      /\ target \in [exists : BOOLEAN, version : Nat \ {0}, paused : BOOLEAN]
  BY DEF Init
<1>4. /\ plan \in [Plan -> Planned \union {NoPlan}]
      /\ store \in [Process -> SUBSET {o \in Plan : plan[o] # NoPlan}]
      /\ audit \in [Process -> Seq(Execution)]
  BY DEF Init
<1> QED BY <1>2, <1>3, <1>4 DEF Init, TypeOK

\* What a step of a handler does to its frame.
LEMMA GotoTypes ==
  ASSUME TypeOK, NEW r \in Execution, exec[r] \in Frame,
         NEW next \in {"read", "dryrun", "apply", "record", "answered"}, Goto(r, next)
  PROVE  /\ exec' \in [Execution -> Frame \union Unserved]
         /\ exec'[r] = [exec[r] EXCEPT !.at = next] /\ exec'[r] \in Frame
         /\ \A q \in Execution \ {r} : exec'[q] = exec[q]
BY DEF TypeOK, Goto, Frame

LEMMA AnswerTypes ==
  ASSUME TypeOK, NEW r \in Execution, exec[r] \in Frame,
         NEW code \in Codes, Answer(r, code)
  PROVE  /\ exec' \in [Execution -> Frame \union Unserved]
         /\ exec'[r] = [exec[r] EXCEPT !.at = "answered", !.answer = code]
         /\ exec'[r] \in Frame
         /\ \A q \in Execution \ {r} : exec'[q] = exec[q]
BY DEF TypeOK, Answer, Frame

\* A frame stays one, and a request that was answered stays so.
LEMMA HistoryTypes ==
  ASSUME TypeOK, NEW r \in Execution, exec[r].at # "answered",
         exec'[r] \in Frame, \A q \in Execution \ {r} : exec'[q] = exec[q]
  PROVE  /\ orphans \subseteq {q \in Execution : exec'[q] \in Frame /\ exec'[q].at = "answered"}
         /\ \A e \in effects : e.by \in Execution /\ exec'[e.by] \in Frame
BY DEF TypeOK

LEMMA LandTypes ==
  ASSUME TypeOK, NEW r \in Execution, Land(r), exec'[r] \in Frame,
         \A e \in effects : e.by \in Execution /\ exec'[e.by] \in Frame
  PROVE  /\ target' \in [exists : BOOLEAN, version : Nat \ {0}, paused : BOOLEAN]
         /\ previous' \in Template
         /\ \A e \in effects' : e.by \in Execution /\ exec'[e.by] \in Frame
         /\ lost' = lost
<1>1. target' \in [exists : BOOLEAN, version : Nat \ {0}, paused : BOOLEAN]
  BY DEF TypeOK, Land
<1>2. \A e \in effects' : e \in effects \/ e.by = r
  BY DEF Land
<1> QED BY <1>1, <1>2 DEF TypeOK, Land

LEMMA HandleTypes ==
  ASSUME TypeOK, NEW r \in Execution, Handle(r)
  PROVE  TypeOK'
<1>1. exec[r].at \in {"read", "dryrun", "apply", "record"}
  BY DEF Handle, Read, DryRun, Apply, Record
<1>2. exec[r] \in Frame
  BY <1>1, FramesAreServed DEF TypeOK
<1>3. {"target_unavailable", "stale_plan", "dry_run_rejected", "execution_failed", "accepted"} \subseteq Codes
  BY DEF Codes
<1>4. CASE Read(r)
  <2>1. \/ Goto(r, "dryrun") \/ Answer(r, "stale_plan") \/ Answer(r, "target_unavailable")
    BY <1>4 DEF Read
  <2>2. /\ exec' \in [Execution -> Frame \union Unserved] /\ exec'[r] \in Frame
        /\ \A q \in Execution \ {r} : exec'[q] = exec[q]
    BY <1>2, <1>3, <2>1, GotoTypes, AnswerTypes
  <2>3. /\ orphans \subseteq {q \in Execution : exec'[q] \in Frame /\ exec'[q].at = "answered"}
        /\ \A e \in effects : e.by \in Execution /\ exec'[e.by] \in Frame
    BY <1>1, <2>2, HistoryTypes
  <2> QED BY <1>4, <2>2, <2>3 DEF TypeOK, Read, cluster, memory, history
<1>5. CASE DryRun(r)
  <2>1. Goto(r, "apply") \/ Answer(r, "dry_run_rejected")
    BY <1>5 DEF DryRun
  <2>2. /\ exec' \in [Execution -> Frame \union Unserved] /\ exec'[r] \in Frame
        /\ \A q \in Execution \ {r} : exec'[q] = exec[q]
    BY <1>2, <1>3, <2>1, GotoTypes, AnswerTypes
  <2>3. /\ orphans \subseteq {q \in Execution : exec'[q] \in Frame /\ exec'[q].at = "answered"}
        /\ \A e \in effects : e.by \in Execution /\ exec'[e.by] \in Frame
    BY <1>1, <2>2, HistoryTypes
  <2> QED BY <1>5, <2>2, <2>3 DEF TypeOK, DryRun, cluster, memory, history
<1>6. CASE Apply(r)
  <2>1. Goto(r, "record") \/ Answer(r, "execution_failed")
    BY <1>6 DEF Apply
  <2>2. /\ exec' \in [Execution -> Frame \union Unserved] /\ exec'[r] \in Frame
        /\ \A q \in Execution \ {r} : exec'[q] = exec[q]
    BY <1>2, <1>3, <2>1, GotoTypes, AnswerTypes
  <2>3. /\ orphans \subseteq {q \in Execution : exec'[q] \in Frame /\ exec'[q].at = "answered"}
        /\ \A e \in effects : e.by \in Execution /\ exec'[e.by] \in Frame
    BY <1>1, <2>2, HistoryTypes
  <2>4. /\ target' \in [exists : BOOLEAN, version : Nat \ {0}, paused : BOOLEAN]
        /\ previous' \in Template
        /\ \A e \in effects' : e.by \in Execution /\ exec'[e.by] \in Frame
        /\ lost' = lost
    <3>1. CASE Land(r) BY <2>2, <2>3, <3>1, LandTypes
    <3>2. CASE ~Land(r)
      BY <1>6, <2>3, <3>2 DEF Apply, TypeOK, cluster, history
    <3> QED BY <3>1, <3>2
  <2>5. orphans' \subseteq {q \in Execution : exec'[q] \in Frame /\ exec'[q].at = "answered"}
    <3>1. orphans' = orphans \/ (orphans' = orphans \union {r} /\ Answer(r, "execution_failed"))
      BY <1>6 DEF Apply
    <3>2. Answer(r, "execution_failed") => exec'[r].at = "answered"
      BY <1>2, <1>3, AnswerTypes DEF Frame
    <3> QED BY <2>2, <2>3, <3>1, <3>2
  <2> QED BY <1>6, <2>2, <2>4, <2>5 DEF TypeOK, Apply, memory
<1>7. CASE Record(r)
  <2>1. Answer(r, "accepted") BY <1>7 DEF Record
  <2>2. /\ exec' \in [Execution -> Frame \union Unserved] /\ exec'[r] \in Frame
        /\ \A q \in Execution \ {r} : exec'[q] = exec[q]
    BY <1>2, <1>3, <2>1, AnswerTypes
  <2>3. /\ orphans \subseteq {q \in Execution : exec'[q] \in Frame /\ exec'[q].at = "answered"}
        /\ \A e \in effects : e.by \in Execution /\ exec'[e.by] \in Frame
    BY <1>1, <2>2, HistoryTypes
  <2>4. audit' \in [Process -> Seq(Execution)]
    <3>1. \A p \in Process : Listed(p, r) \in Seq(Execution)
      <4> SUFFICES ASSUME NEW p \in Process PROVE Listed(p, r) \in Seq(Execution)
        OBVIOUS
      <4>1. audit[p] \in Seq(Execution) BY DEF TypeOK
      <4>2. <<r>> \o audit[p] \in Seq(Execution) BY <4>1
      <4>3. MaxAudit \in Nat \ {0} BY GuardedBounds
      <4>4. ~(Len(audit[p]) < MaxAudit) => MaxAudit <= Len(<<r>> \o audit[p])
        BY <4>1, <4>3
      <4>5. ~(Len(audit[p]) < MaxAudit) => SubSeq(<<r>> \o audit[p], 1, MaxAudit) \in Seq(Execution)
        BY <4>2, <4>3, <4>4
      <4> QED BY <4>2, <4>5 DEF Listed
    <3> QED BY <1>7, <3>1 DEF TypeOK, Record
  <2> QED BY <1>7, <2>2, <2>3, <2>4 DEF TypeOK, Record, cluster, history
<1> QED BY <1>4, <1>5, <1>6, <1>7 DEF Handle

LEMMA KeptAreFresh ==
  ASSUME NEW p, NEW kept, Kept(p, kept)
  PROVE  kept \subseteq store[p] /\ \A o \in kept : now - plan[o].created <= TTL
BY DEF Kept, Fresh

\* What a planning remembers.
LEMMA PlanTypes ==
  ASSUME TypeOK, NEW p \in Process, NEW o \in Plan, NEW c \in Asked, PlanOperation(p, o, c)
  PROVE  /\ plan' \in [Plan -> Planned \union {NoPlan}] /\ plan'[o] \in Planned
         /\ \A q \in Plan \ {o} : plan'[q] = plan[q]
         /\ store' \in [Process -> SUBSET {q \in Plan : plan'[q] # NoPlan}]
         /\ \A q \in Process : store'[q] \subseteq store[q] \union (IF q = p THEN {o} ELSE {})
<1> DEFINE new == [asked |-> c, version |-> target.version, created |-> now, on |-> p,
                   restores |-> IF c.action = "rollback" THEN previous ELSE None]
<1>1. new \in Planned BY DEF TypeOK, Planned
<1>2. new # NoPlan BY GuardedNames DEF NoPlan
<1>3. plan' = [plan EXCEPT ![o] = new] BY DEF PlanOperation
<1> HIDE DEF new
<1>4. /\ plan' \in [Plan -> Planned \union {NoPlan}] /\ plan'[o] = new
      /\ \A q \in Plan \ {o} : plan'[q] = plan[q]
  BY <1>1, <1>3 DEF TypeOK
<1>5. PICK kept \in SUBSET Plan : Kept(p, kept) /\ store' = [store EXCEPT ![p] = kept \union {o}]
  BY DEF PlanOperation
<1>6. kept \subseteq store[p] BY <1>5, KeptAreFresh
<1>7. \A q \in Process : /\ store'[q] \subseteq store[q] \union (IF q = p THEN {o} ELSE {})
                         /\ store'[q] \subseteq Plan
  BY <1>5, <1>6 DEF TypeOK
<1>8. \A q \in Process : \A n \in store'[q] : plan'[n] # NoPlan
  BY <1>2, <1>4, <1>7 DEF TypeOK
<1>9. store' \in [Process -> SUBSET {q \in Plan : plan'[q] # NoPlan}]
  <2>1. store' = [q \in Process |-> store'[q]] BY <1>5 DEF TypeOK
  <2> QED BY <2>1, <1>7, <1>8
<1> QED BY <1>1, <1>4, <1>7, <1>9

\* What an execution that has come to its plan looks like.
LEMMA ConsumeTypes ==
  ASSUME TypeOK, NEW r \in Execution, NEW p \in Process, NEW f \in Form, Consume(r, p, f)
  PROVE  /\ exec' \in [Execution -> Frame \union Unserved] /\ exec'[r] \in Frame
         /\ \A q \in Execution \ {r} : exec'[q] = exec[q]
         /\ exec'[r] =
              [at |-> IF Verdict(p, f) = "ok" THEN "read" ELSE "answered",
               on |-> p, plan |-> f.plan, version |-> f.version, asked |-> f.asked,
               restores |-> plan[f.plan].restores, actor |-> Actor(f), used |-> now,
               answer |-> IF Verdict(p, f) = "ok" THEN "none" ELSE Verdict(p, f)]
         /\ f.plan \in Plan
         /\ \A q \in Process : store'[q] = IF q = p THEN store[q] \ {f.plan} ELSE store[q]
<1> DEFINE new == [at |-> IF Verdict(p, f) = "ok" THEN "read" ELSE "answered",
                   on |-> p, plan |-> f.plan, version |-> f.version, asked |-> f.asked,
                   restores |-> plan[f.plan].restores, actor |-> Actor(f), used |-> now,
                   answer |-> IF Verdict(p, f) = "ok" THEN "none" ELSE Verdict(p, f)]
<1>1. Refusal(f) = "ok" BY DEF Consume
<1>2. f.plan \in Plan BY <1>1, RefusalCodes DEF Form
<1>3. f.asked \in Asked BY DEF Form
<1>4. f.version \in Nat
  <2>1. f.version \in {0} \union {plan[o].version : o \in Plan} BY DEF Form
  <2>2. \A o \in Plan : plan[o].version \in Nat BY DEF TypeOK, Planned, NoPlan
  <2> QED BY <2>1, <2>2
<1>5. Actor(f) \in User \union {"local-operator"}
  BY <1>1, RefusalCodes DEF Form, Actor
<1>6. plan[f.plan].restores \in Template \union {None}
  BY <1>2 DEF TypeOK, Planned, NoPlan
<1>7. now \in Nat BY DEF TypeOK
<1>8. /\ (IF Verdict(p, f) = "ok" THEN "none" ELSE Verdict(p, f)) \in Codes
      /\ (IF Verdict(p, f) = "ok" THEN "read" ELSE "answered") \in {"read", "answered"}
  BY VerdictCodes DEF Codes, Unspent
<1>9. new \in Frame
  BY <1>2, <1>3, <1>4, <1>5, <1>6, <1>7, <1>8 DEF Frame
<1>10. exec' = [exec EXCEPT ![r] = new] BY DEF Consume
<1>11. \A q \in Process : store'[q] = IF q = p THEN store[q] \ {f.plan} ELSE store[q]
  BY DEF Consume, Removed, TypeOK
<1> HIDE DEF new
<1>12. exec' \in [Execution -> Frame \union Unserved] /\ exec'[r] = new
       /\ \A q \in Execution \ {r} : exec'[q] = exec[q]
  BY <1>9, <1>10 DEF TypeOK
<1> QED BY <1>2, <1>9, <1>11, <1>12 DEF new

LEMMA RefuseTypes ==
  ASSUME TypeOK, NEW r \in Execution, NEW f \in Form, Refuse(r, f)
  PROVE  /\ exec' \in [Execution -> Frame \union Unserved]
         /\ exec'[r].at = "answered" /\ exec'[r].answer \in Unspent /\ exec'[r] \in Unserved
         /\ \A q \in Execution \ {r} : exec'[q] = exec[q]
<1>1. exec[r] \in Unserved BY FramesAreServed DEF TypeOK, Refuse
<1>2. Refusal(f) \in Unspent BY RefusalCodes DEF Refuse
<1>3. exec' = [exec EXCEPT ![r] = [exec[r] EXCEPT !.at = "answered", !.answer = Refusal(f)]]
  BY DEF Refuse, Answer
<1>4. [exec[r] EXCEPT !.at = "answered", !.answer = Refusal(f)] \in Unserved
  BY <1>1, <1>2 DEF Unserved
<1> QED BY <1>1, <1>2, <1>3, <1>4 DEF TypeOK, Unserved

\* A restart ends the frames of its process and leaves the other ones.
LEMMA CrashTypes ==
  ASSUME TypeOK, NEW p \in Process, Crash(p)
  PROVE  /\ exec' \in [Execution -> Frame \union Unserved]
         /\ \A r \in Execution :
              IF exec[r].on = p /\ exec[r].at # "answered"
                THEN exec[r] \in Frame /\ exec'[r] = [exec[r] EXCEPT !.at = "answered"]
                ELSE exec'[r] = exec[r]
         /\ \A r \in Execution : exec[r] \in Frame => exec'[r] \in Frame
<1>1. \A r \in Execution : exec[r].on = p => exec[r] \in Frame
  BY FramesAreServed DEF TypeOK
<1>2. exec' = [r \in Execution |-> IF r \in {q \in Execution : exec[q].on = p /\ exec[q].at # "answered"}
                                     THEN [exec[r] EXCEPT !.at = "answered"] ELSE exec[r]]
  BY DEF Crash
<1>3. \A r \in Execution : exec'[r] = IF exec[r].on = p /\ exec[r].at # "answered"
                                        THEN [exec[r] EXCEPT !.at = "answered"] ELSE exec[r]
  BY <1>2
<1>4. \A r \in Execution : exec[r] \in Frame => [exec[r] EXCEPT !.at = "answered"] \in Frame
  BY DEF Frame
<1>5. \A r \in Execution : exec'[r] \in Frame \union Unserved
  <2>1. \A r \in Execution : exec[r] \in Frame \union Unserved BY DEF TypeOK
  <2> QED BY <2>1, <1>1, <1>3, <1>4
<1> QED BY <1>1, <1>2, <1>3, <1>4, <1>5

LEMMA PlanningTypes ==
  ASSUME TypeOK, NEW p \in Process, NEW o \in Plan, NEW c \in Asked, PlanOperation(p, o, c)
  PROVE  TypeOK'
<1>1. now' \in Nat BY DEF TypeOK, PlanOperation
<1> QED BY <1>1, PlanTypes DEF TypeOK, PlanOperation, cluster, history

LEMMA RefusingTypes ==
  ASSUME TypeOK, NEW r \in Execution, NEW f \in Form, Refuse(r, f)
  PROVE  TypeOK'
<1>1. exec[r].at = "waiting" /\ exec[r] \in Unserved BY FramesAreServed DEF TypeOK, Refuse
<1>2. /\ orphans \subseteq {q \in Execution : exec'[q] \in Frame /\ exec'[q].at = "answered"}
      /\ \A e \in effects : e.by \in Execution /\ exec'[e.by] \in Frame
  <2>1. exec[r] \notin Frame BY <1>1, GuardedNames DEF Frame, Unserved
  <2>2. /\ orphans \subseteq {q \in Execution : exec[q] \in Frame /\ exec[q].at = "answered"}
        /\ \A e \in effects : e.by \in Execution /\ exec[e.by] \in Frame
    BY DEF TypeOK
  <2>3. \A q \in Execution \ {r} : exec'[q] = exec[q] BY RefuseTypes
  <2> QED BY <2>1, <2>2, <2>3
<1> QED BY <1>2, RefuseTypes DEF TypeOK, Refuse, cluster, memory, history

LEMMA ConsumingTypes ==
  ASSUME TypeOK, NEW r \in Execution, NEW p \in Process, NEW f \in Form, Consume(r, p, f)
  PROVE  TypeOK'
<1>1. exec[r].at = "waiting" BY DEF Consume
<1>2. /\ orphans \subseteq {q \in Execution : exec'[q] \in Frame /\ exec'[q].at = "answered"}
      /\ \A e \in effects : e.by \in Execution /\ exec'[e.by] \in Frame
  BY <1>1, ConsumeTypes, HistoryTypes
<1>3. store' \in [Process -> SUBSET {q \in Plan : plan[q] # NoPlan}]
  <2>1. Removed(p, f) \in SUBSET {q \in Plan : plan[q] # NoPlan} BY DEF Removed, TypeOK
  <2>2. store' = [store EXCEPT ![p] = Removed(p, f)] BY DEF Consume
  <2> QED BY <2>1, <2>2 DEF TypeOK
<1>4. exec' \in [Execution -> Frame \union Unserved] BY ConsumeTypes
<1>5. UNCHANGED <<now, cluster, plan, audit, orphans, history, crashes>> BY DEF Consume
<1> QED BY <1>2, <1>3, <1>4, <1>5 DEF TypeOK, cluster, history

LEMMA LateTypes ==
  ASSUME TypeOK, NEW r \in Execution, OrphanLands(r)
  PROVE  TypeOK'
<1>1. exec' = exec BY DEF OrphanLands
<1>2. CASE Land(r)
  <2>1. exec[r] \in Frame BY DEF TypeOK, OrphanLands
  <2>2. \A e \in effects : e.by \in Execution /\ exec'[e.by] \in Frame
    BY <1>1 DEF TypeOK
  <2> QED BY <1>1, <1>2, <2>1, <2>2, LandTypes DEF TypeOK, OrphanLands, memory
<1>3. CASE ~Land(r)
  BY <1>1, <1>3 DEF TypeOK, OrphanLands, cluster, memory, history
<1> QED BY <1>2, <1>3

LEMMA CrashingTypes ==
  ASSUME TypeOK, NEW p \in Process, Crash(p)
  PROVE  TypeOK'
<1>1. exec' \in [Execution -> Frame \union Unserved] BY CrashTypes
<1>2. \A r \in Execution : exec[r].at = "answered" => exec'[r] = exec[r]
  BY CrashTypes
<1>3. \A r \in Execution : exec[r].at = "apply" => exec[r] \in Frame
  BY FramesAreServed DEF TypeOK
<1>4. orphans' \subseteq {q \in Execution : exec'[q] \in Frame /\ exec'[q].at = "answered"}
  <2>1. PICK late \in SUBSET {q \in Execution : exec[q].on = p /\ exec[q].at = "apply"} :
          orphans' = orphans \union late
    BY DEF Crash
  <2>2. \A q \in late : exec'[q] \in Frame /\ exec'[q].at = "answered"
    <3> SUFFICES ASSUME NEW q \in late PROVE exec'[q] \in Frame /\ exec'[q].at = "answered"
      OBVIOUS
    <3>1. exec'[q] = [exec[q] EXCEPT !.at = "answered"] /\ exec[q] \in Frame
      BY <1>3, CrashTypes
    <3> QED BY <3>1 DEF Frame
  <2>3. \A q \in orphans : q \in Execution /\ exec[q] \in Frame /\ exec[q].at = "answered"
    BY DEF TypeOK
  <2> QED BY <1>2, <2>1, <2>2, <2>3
<1>5. \A e \in effects : e.by \in Execution /\ exec'[e.by] \in Frame
  BY CrashTypes DEF TypeOK
<1>6. /\ store' \in [Process -> SUBSET {o \in Plan : plan[o] # NoPlan}]
      /\ audit' \in [Process -> Seq(Execution)]
      /\ lost' \subseteq Plan \union Execution /\ crashes' \in Nat
  BY DEF TypeOK, Crash
<1>7. UNCHANGED <<now, cluster, plan, effects>> BY DEF Crash
<1> QED BY <1>1, <1>4, <1>5, <1>6, <1>7 DEF TypeOK, cluster

LEMMA WorldTypes ==
  ASSUME TypeOK, TargetChanges \/ Tick \/ UNCHANGED vars
  PROVE  TypeOK'
<1>1. CASE TargetChanges
  <2>1. target' \in [exists : BOOLEAN, version : Nat \ {0}, paused : BOOLEAN] /\ previous' \in Template
    BY <1>1 DEF TargetChanges, TypeOK
  <2> QED BY <1>1, <2>1 DEF TypeOK, TargetChanges, memory, history
<1>2. CASE Tick
  BY <1>2 DEF TypeOK, Tick, cluster, memory, history
<1>3. CASE UNCHANGED vars
  BY <1>3 DEF TypeOK, vars, cluster, memory, history
<1> QED BY <1>1, <1>2, <1>3

\* The actions of Next, one by one.
LEMMA Actions ==
  ASSUME [Next]_vars
  PROVE  \/ \E p \in Process, o \in Plan, c \in Asked : PlanOperation(p, o, c)
         \/ \E r \in Execution, f \in Form : Refuse(r, f)
         \/ \E r \in Execution, p \in Process, f \in Form : Consume(r, p, f)
         \/ \E r \in Execution : Handle(r)
         \/ \E r \in Execution : OrphanLands(r)
         \/ \E p \in Process : Crash(p)
         \/ TargetChanges \/ Tick \/ UNCHANGED vars
BY DEF Next

LEMMA StepTypes == TypeOK /\ [Next]_vars => TypeOK'
BY Actions, PlanningTypes, RefusingTypes, ConsumingTypes, HandleTypes, LateTypes,
   CrashingTypes, WorldTypes

\* Stores hold plans that were made, frames are those of requests that came to their
\* plan, and only such requests can be late, whatever is restarted.
THEOREM GuardedTypes == Spec => []TypeOK
<1>1. Init => TypeOK BY InitTypes
<1>2. TypeOK /\ [Next]_vars => TypeOK' BY StepTypes
<1> QED BY <1>1, <1>2, PTL DEF Spec

-----------------------------------------------------------------------------
(* The inductive invariant.                                                 *)

\* A plan is in the store of the process that made it only.
StoresAreOwn == \A p \in Process : \A o \in store[p] : plan[o].on = p

\* A plan is not ahead of the Deployment, and as long as that is the version that was
\* reviewed it is paused only if it was.
PlansArePast ==
  \A o \in Plan : plan[o] # NoPlan =>
    /\ plan[o].version <= target.version
    /\ plan[o].version = target.version /\ target.paused => plan[o].asked.action = "scale"

\* A request that got hold of its plan carries what was reviewed.
FramesAreReviewed ==
  \A r \in Execution : Spent(r) =>
    /\ exec[r] \in Frame /\ plan[exec[r].plan] # NoPlan
    /\ exec[r].asked = plan[exec[r].plan].asked
    /\ exec[r].version = plan[exec[r].plan].version
    /\ exec[r].restores = plan[exec[r].plan].restores

\* Requests have an effect when they apply, or afterwards, and at most once.
Before == {"waiting", "read", "dryrun", "apply"}

RequestsAreOrdered ==
  \A r \in Execution :
    /\ exec[r].at # "answered" => exec[r].answer = "none"
    /\ exec[r].at \in Before \/ r \in orphans => \A e \in effects : e.by # r
    /\ exec[r].at = "record" \/ exec[r].answer = "accepted" => \E e \in effects : e.by = r
    /\ exec[r].answer \notin {"accepted", "execution_failed", "none"} =>
         r \notin orphans /\ \A e \in effects : e.by # r
    /\ r \in orphans => Spent(r)

\* An effect is under the plan of its request.
EffectsArePlanned == \A e \in effects : e.plan = exec[e.by].plan

OperationInv ==
  /\ StoresAreOwn /\ PlansArePast /\ FramesAreReviewed /\ RequestsAreOrdered
  /\ EffectsArePlanned /\ SingleUse /\ EffectAsReviewed

LEMMA InitOperations == Init => OperationInv
<1> SUFFICES ASSUME Init PROVE OperationInv
  OBVIOUS
<1>1. \A r \in Execution : exec[r].at = "waiting" /\ exec[r].answer = "none"
  BY DEF Init, Waiting
<1>2. StoresAreOwn /\ PlansArePast BY DEF Init, StoresAreOwn, PlansArePast
<1>3. \A r \in Execution : ~Spent(r) BY <1>1 DEF Spent
<1>4. effects = {} /\ orphans = {} BY DEF Init
<1>5. RequestsAreOrdered BY <1>1, <1>4 DEF RequestsAreOrdered
<1> QED
  BY <1>2, <1>3, <1>4, <1>5 DEF OperationInv, FramesAreReviewed, EffectsArePlanned, SingleUse,
     EffectAsReviewed

\* Planning makes a plan that nobody has used.
LEMMA PlanningKeeps ==
  ASSUME TypeOK, OperationInv,
         NEW p \in Process, NEW o \in Plan, NEW c \in Asked, PlanOperation(p, o, c)
  PROVE  OperationInv'
<1>1. /\ plan'[o] # NoPlan /\ plan'[o].on = p /\ plan'[o].asked = c
      /\ plan'[o].version = target.version
      /\ \A q \in Plan \ {o} : plan'[q] = plan[q]
      /\ plan[o] = NoPlan
      /\ target.paused => c.action = "scale"
  BY GuardedNames DEF PlanOperation, TypeOK, NoPlan
<1>2. \A q \in Process : store'[q] \subseteq store[q] \union (IF q = p THEN {o} ELSE {})
  BY PlanTypes
<1>3. UNCHANGED <<cluster, audit, exec, orphans, history, crashes>>
  BY DEF PlanOperation
<1>4. \A r \in Execution : Spent(r) <=> Spent(r)'
  BY <1>3 DEF Spent
<1>5. \A r \in Execution : Spent(r) => exec[r].plan \in Plan /\ exec[r].plan # o
  BY <1>1 DEF OperationInv, FramesAreReviewed, Frame
<1>6. StoresAreOwn'
  <2> SUFFICES ASSUME NEW q \in Process, NEW n \in store'[q] PROVE plan'[n].on = q
    BY DEF StoresAreOwn
  <2>1. CASE n \in store[q]
    <3>1. n \in Plan /\ n # o BY <1>1, <2>1 DEF TypeOK
    <3> QED BY <1>1, <2>1, <3>1 DEF OperationInv, StoresAreOwn
  <2>2. CASE n \notin store[q]
    <3>1. q = p /\ n = o BY <1>2, <2>2
    <3> QED BY <1>1, <3>1
  <2> QED BY <2>1, <2>2
<1>7. PlansArePast'
  BY <1>1, <1>3 DEF OperationInv, PlansArePast, cluster, TypeOK
<1>8. FramesAreReviewed'
  BY <1>1, <1>3, <1>4, <1>5 DEF OperationInv, FramesAreReviewed
<1>9. RequestsAreOrdered' /\ EffectsArePlanned'
  BY <1>3, <1>4 DEF OperationInv, RequestsAreOrdered, EffectsArePlanned, history
<1>10. SingleUse'
  BY <1>1, <1>2, <1>3, <1>4, <1>5 DEF OperationInv, SingleUse
<1>11. EffectAsReviewed'
  BY <1>1, <1>3, <1>4, <1>5 DEF OperationInv, EffectAsReviewed, EffectsArePlanned, history, TypeOK
<1> QED BY <1>6, <1>7, <1>8, <1>9, <1>10, <1>11 DEF OperationInv

\* A refused request has not come to a plan.
LEMMA RefusingKeeps ==
  ASSUME TypeOK, OperationInv, NEW r \in Execution, NEW f \in Form, Refuse(r, f)
  PROVE  OperationInv'
<1>1. /\ exec'[r].at = "answered" /\ exec'[r].answer \in Unspent
      /\ \A q \in Execution \ {r} : exec'[q] = exec[q]
  BY RefuseTypes
<1>2. UNCHANGED <<now, cluster, memory, orphans, history, crashes>>
  BY DEF Refuse
<1>3. exec[r].at = "waiting" BY DEF Refuse
<1>4. ~Spent(r) /\ ~Spent(r)' BY <1>1, <1>3 DEF Spent
<1>5. \A q \in Execution \ {r} : Spent(q) <=> Spent(q)' BY <1>1 DEF Spent
<1>6. StoresAreOwn' /\ PlansArePast'
  BY <1>2 DEF OperationInv, StoresAreOwn, PlansArePast, cluster, memory
<1>7. FramesAreReviewed' /\ SingleUse'
  BY <1>1, <1>2, <1>4, <1>5 DEF OperationInv, FramesAreReviewed, SingleUse, memory
<1>8. r \notin orphans /\ \A e \in effects : e.by # r
  BY <1>3, <1>4 DEF OperationInv, RequestsAreOrdered, Before
<1>9. RequestsAreOrdered'
  <2>1. exec'[r].answer # "accepted" BY <1>1 DEF Unspent
  <2>2. \A q \in Execution \ {r} : exec'[q] = exec[q] /\ (Spent(q) <=> Spent(q)')
    BY <1>1, <1>5
  <2> QED BY <1>1, <1>2, <1>8, <2>1, <2>2 DEF OperationInv, RequestsAreOrdered, Before, history
<1>10. EffectsArePlanned' /\ EffectAsReviewed'
  BY <1>1, <1>2, <1>5, <1>8
     DEF OperationInv, EffectsArePlanned, EffectAsReviewed, history, memory, TypeOK
<1> QED BY <1>6, <1>7, <1>9, <1>10 DEF OperationInv

\* One execution at most finds a plan in the store of its process, and takes it out.
LEMMA ConsumingKeeps ==
  ASSUME TypeOK, OperationInv,
         NEW r \in Execution, NEW p \in Process, NEW f \in Form, Consume(r, p, f)
  PROVE  OperationInv'
<1>1. /\ exec'[r].at = (IF Verdict(p, f) = "ok" THEN "read" ELSE "answered")
      /\ exec'[r].plan = f.plan /\ exec'[r].version = f.version /\ exec'[r].asked = f.asked
      /\ exec'[r].restores = plan[f.plan].restores /\ exec'[r].used = now
      /\ exec'[r].answer = (IF Verdict(p, f) = "ok" THEN "none" ELSE Verdict(p, f))
      /\ exec'[r] \in Frame
      /\ \A q \in Execution \ {r} : exec'[q] = exec[q]
      /\ f.plan \in Plan
      /\ \A q \in Process : store'[q] = IF q = p THEN store[q] \ {f.plan} ELSE store[q]
  <2>1. exec'[r] =
          [at |-> IF Verdict(p, f) = "ok" THEN "read" ELSE "answered",
           on |-> p, plan |-> f.plan, version |-> f.version, asked |-> f.asked,
           restores |-> plan[f.plan].restores, actor |-> Actor(f), used |-> now,
           answer |-> IF Verdict(p, f) = "ok" THEN "none" ELSE Verdict(p, f)]
    BY ConsumeTypes
  <2>2. /\ exec'[r] \in Frame
        /\ \A q \in Execution \ {r} : exec'[q] = exec[q]
        /\ f.plan \in Plan
    BY ConsumeTypes
  <2>3. \A q \in Process : store'[q] = IF q = p THEN store[q] \ {f.plan} ELSE store[q]
    BY DEF Consume, Removed, TypeOK
  <2> QED BY <2>1, <2>2, <2>3
<1>2. UNCHANGED <<now, cluster, plan, audit, orphans, history, crashes>>
  BY DEF Consume
<1>3. exec[r].at = "waiting" BY DEF Consume
<1>4. ~Spent(r) BY <1>3 DEF Spent
<1>5. \A q \in Execution \ {r} : Spent(q) <=> Spent(q)' BY <1>1 DEF Spent
<1>6. r \notin orphans /\ \A e \in effects : e.by # r
  BY <1>3, <1>4 DEF OperationInv, RequestsAreOrdered, Before
<1>7. Spent(r)' => Verdict(p, f) = "ok"
  <2>1. ~(Verdict(p, f) = "ok") => exec'[r].answer \in {"plan_invalid", "plan_mismatch"}
    BY <1>1, VerdictCodes
  <2> QED BY <2>1 DEF Spent, Unspent
<1>8. Verdict(p, f) = "ok" =>
        /\ f.plan \in store[p] /\ now - plan[f.plan].created <= TTL
        /\ f.version = plan[f.plan].version /\ f.asked = plan[f.plan].asked
        /\ plan[f.plan] # NoPlan
  <2>1. f.plan \in store[p] => plan[f.plan] # NoPlan BY DEF TypeOK
  <2>2. now \in Nat /\ plan[f.plan].created \in Nat /\ TTL \in Nat
    <3>1. plan[f.plan] \in Planned \union {NoPlan} BY <1>1 DEF TypeOK
    <3>2. plan[f.plan].created \in Nat BY <3>1 DEF Planned, NoPlan
    <3>3. now \in Nat BY DEF TypeOK
    <3> QED BY <3>2, <3>3, GuardedBounds
  <2> QED BY <2>1, <2>2, VerdictCodes
<1>9. StoresAreOwn' /\ PlansArePast'
  BY <1>1, <1>2 DEF OperationInv, StoresAreOwn, PlansArePast, cluster
<1>10. FramesAreReviewed'
  <2>1. Spent(r)' => /\ plan[f.plan] # NoPlan /\ exec'[r].plan = f.plan
                     /\ exec'[r].asked = plan[f.plan].asked
                     /\ exec'[r].version = plan[f.plan].version
                     /\ exec'[r].restores = plan[f.plan].restores
    BY <1>1, <1>7, <1>8
  <2> QED BY <1>1, <1>2, <1>5, <2>1 DEF OperationInv, FramesAreReviewed
<1>11. RequestsAreOrdered'
  <2>1. /\ exec'[r].at \in {"read", "answered"}
        /\ exec'[r].at # "answered" => exec'[r].answer = "none"
        /\ exec'[r].answer # "accepted"
    BY <1>1, VerdictCodes
  <2>2. \A q \in Execution \ {r} : exec'[q] = exec[q] /\ (Spent(q) <=> Spent(q)')
    BY <1>1, <1>5
  <2> QED BY <1>2, <1>6, <2>1, <2>2 DEF OperationInv, RequestsAreOrdered, Before, history
<1>12. EffectsArePlanned' /\ EffectAsReviewed'
  BY <1>1, <1>2, <1>5, <1>6
     DEF OperationInv, EffectsArePlanned, EffectAsReviewed, history, TypeOK
<1>13. SingleUse'
  <2>1. \A q \in Process : store'[q] \subseteq store[q] BY <1>1
  <2>2. Spent(r)' => /\ exec'[r].used - plan[exec'[r].plan].created <= TTL
                     /\ \A q \in Process : exec'[r].plan \notin store'[q]
    <3>1. Spent(r)' => plan[f.plan].on = p
      BY <1>7, <1>8 DEF OperationInv, StoresAreOwn
    <3>2. Spent(r)' => \A q \in Process : f.plan \notin store'[q]
      <4>1. \A q \in Process : store'[q] = IF q = p THEN store[q] \ {f.plan} ELSE store[q]
        BY <1>1
      <4>2. \A q \in Process : f.plan \in store[q] => plan[f.plan].on = q
        BY DEF OperationInv, StoresAreOwn
      <4> QED BY <3>1, <4>1, <4>2
    <3>3. exec'[r].used = now /\ exec'[r].plan = f.plan BY <1>1
    <3>4. Spent(r)' => now - plan[f.plan].created <= TTL BY <1>7, <1>8
    <3> QED BY <3>2, <3>3, <3>4
  <2>3. \A q \in Execution \ {r} : Spent(r)' /\ Spent(q)' => exec[q].plan # f.plan
    BY <1>5, <1>7, <1>8 DEF OperationInv, SingleUse
  <2>4. exec'[r].plan = f.plan BY <1>1
  <2>5. \A q \in Execution \ {r} : exec'[q] = exec[q] /\ (Spent(q) <=> Spent(q)')
    BY <1>1, <1>5
  <2> QED BY <1>2, <2>1, <2>2, <2>3, <2>4, <2>5 DEF OperationInv, SingleUse
<1> QED BY <1>9, <1>10, <1>11, <1>12, <1>13 DEF OperationInv

\* What a request carries is kept, and stores do not grow.
Carries(q) ==
  /\ exec'[q].plan = exec[q].plan /\ exec'[q].asked = exec[q].asked
  /\ exec'[q].version = exec[q].version /\ exec'[q].restores = exec[q].restores
  /\ exec'[q].used = exec[q].used

LEMMA CarryingKeeps ==
  ASSUME TypeOK, OperationInv, plan' = plan, \A p \in Process : store'[p] \subseteq store[p],
         \A q \in Execution : /\ (Spent(q) <=> Spent(q)') /\ Carries(q)
                              /\ exec[q] \in Frame => exec'[q] \in Frame
  PROVE  StoresAreOwn' /\ FramesAreReviewed' /\ SingleUse'
<1>1. StoresAreOwn' BY DEF OperationInv, StoresAreOwn
<1>2. FramesAreReviewed' BY DEF OperationInv, FramesAreReviewed, Carries
<1>3. SingleUse' BY DEF OperationInv, SingleUse, Carries
<1> QED BY <1>1, <1>2, <1>3

\* The Deployment is changed at the version that was reviewed, and not while it is
\* paused under a new template.
LEMMA LandKeeps ==
  ASSUME TypeOK, OperationInv, plan' = plan, NEW r \in Execution, Spent(r), Land(r),
         \A q \in Execution : (Spent(q) <=> Spent(q)') /\ Carries(q)
  PROVE  /\ PlansArePast' /\ EffectsArePlanned' /\ EffectAsReviewed'
         /\ \E e \in effects' : e.by = r
         /\ \A q \in Execution \ {r} :
              (\E e \in effects' : e.by = q) <=> (\E e \in effects : e.by = q)
<1> DEFINE new == [by |-> r, plan |-> exec[r].plan, asked |-> exec[r].asked,
                   restores |-> exec[r].restores, version |-> target.version,
                   paused |-> target.paused]
<1>1. effects' = effects \union {new} BY DEF Land
<1>2. target.version = exec[r].version BY DEF Land, Matches
<1>3. exec[r] \in Frame /\ plan[exec[r].plan] # NoPlan
      /\ exec[r].asked = plan[exec[r].plan].asked
      /\ exec[r].version = plan[exec[r].plan].version
      /\ exec[r].restores = plan[exec[r].plan].restores
  BY DEF OperationInv, FramesAreReviewed
<1>4. exec[r].plan \in Plan BY <1>3 DEF Frame
<1>5. target.paused => exec[r].asked.action = "scale"
  BY <1>2, <1>3, <1>4 DEF OperationInv, PlansArePast
<1>6. /\ new.by = r /\ new.plan = exec[r].plan /\ new.asked = exec[r].asked
      /\ new.restores = exec[r].restores /\ new.version = exec[r].version
      /\ new.paused = target.paused
  BY <1>2
<1>7. PlansArePast'
  <2>1. /\ target'.version \in {target.version, target.version + 1}
        /\ target'.paused = target.paused
    BY DEF Land, TypeOK
  <2>2. \A o \in Plan : plan[o] # NoPlan =>
          /\ plan[o].version \in Nat /\ plan[o].version <= target.version
          /\ plan[o].version = target.version /\ target.paused => plan[o].asked.action = "scale"
    <3>1. \A o \in Plan : plan[o] # NoPlan => plan[o].version \in Nat
      BY DEF TypeOK, Planned
    <3> QED BY <3>1 DEF OperationInv, PlansArePast
  <2>3. target.version \in Nat BY DEF TypeOK
  <2> QED BY <2>1, <2>2, <2>3 DEF PlansArePast
<1> HIDE DEF new
<1>8. \A e \in effects : e.by \in Execution BY DEF TypeOK
<1>9. EffectsArePlanned'
  BY <1>1, <1>6, <1>8 DEF OperationInv, EffectsArePlanned, Carries
<1>10. EffectAsReviewed'
  <2>1. \A e \in effects : /\ e.by \in Execution /\ Spent(e.by)
                           /\ e.asked = plan[e.plan].asked /\ e.restores = plan[e.plan].restores
                           /\ e.version = plan[e.plan].version
                           /\ e.paused => e.asked.action = "scale"
    BY <1>8 DEF OperationInv, EffectAsReviewed
  <2>2. /\ new.asked = plan[new.plan].asked /\ new.restores = plan[new.plan].restores
        /\ new.version = plan[new.plan].version
        /\ new.paused => new.asked.action = "scale"
    BY <1>3, <1>5, <1>6
  <2>3. SUFFICES ASSUME NEW e \in effects'
                 PROVE  /\ Spent(e.by)'
                        /\ e.asked = plan[e.plan].asked /\ e.restores = plan[e.plan].restores
                        /\ e.version = plan[e.plan].version
                        /\ e.paused => e.asked.action = "scale"
    BY DEF EffectAsReviewed
  <2>4. CASE e \in effects
    BY <2>1, <2>4
  <2>5. CASE e = new
    <3>1. e.by = r BY <1>6, <2>5
    <3> QED BY <2>2, <2>5, <3>1
  <2> QED BY <1>1, <2>4, <2>5
<1> QED BY <1>1, <1>6, <1>7, <1>9, <1>10

\* What a handler leaves of its frame.
LEMMA GoingOn ==
  ASSUME TypeOK, NEW r \in Execution, exec[r] \in Frame, exec[r].answer = "none",
         exec[r].at # "waiting",
         NEW next \in {"dryrun", "apply", "record"}, Goto(r, next)
  PROVE  /\ exec'[r].at = next /\ exec'[r].answer = "none"
         /\ \A q \in Execution \ {r} : exec'[q] = exec[q]
         /\ \A q \in Execution : /\ (Spent(q) <=> Spent(q)') /\ Carries(q)
                                 /\ exec[q] \in Frame => exec'[q] \in Frame
<1>1. exec'[r] \in Frame /\ \A q \in Execution \ {r} : exec'[q] = exec[q]
  BY GotoTypes
<1>2. exec'[r] = [exec[r] EXCEPT !.at = next] BY DEF Goto, TypeOK
<1>3. exec'[r].at = next /\ exec'[r].answer = "none" /\ Carries(r)
  BY <1>2 DEF Frame, Carries
<1>4. Spent(r) /\ Spent(r)' BY <1>3 DEF Spent, Unspent
<1> QED BY <1>1, <1>3, <1>4 DEF Spent, Carries

LEMMA Answering ==
  ASSUME TypeOK, NEW r \in Execution, exec[r] \in Frame, exec[r].answer = "none",
         exec[r].at # "waiting",
         NEW code \in {"target_unavailable", "stale_plan", "dry_run_rejected",
                       "execution_failed", "accepted"}, Answer(r, code)
  PROVE  /\ exec'[r].at = "answered" /\ exec'[r].answer = code
         /\ \A q \in Execution \ {r} : exec'[q] = exec[q]
         /\ \A q \in Execution : /\ (Spent(q) <=> Spent(q)') /\ Carries(q)
                                 /\ exec[q] \in Frame => exec'[q] \in Frame
<1>1. exec' = [exec EXCEPT ![r] = [exec[r] EXCEPT !.at = "answered", !.answer = code]]
  BY DEF Answer
<1>2. exec'[r] = [exec[r] EXCEPT !.at = "answered", !.answer = code]
      /\ \A q \in Execution \ {r} : exec'[q] = exec[q]
  BY <1>1 DEF TypeOK
<1>3. code \in Codes BY DEF Codes
<1>4. exec'[r] \in Frame BY <1>2, <1>3 DEF Frame
<1>5. exec'[r].at = "answered" /\ exec'[r].answer = code /\ Carries(r)
  BY <1>2 DEF Frame, Carries
<1>6. Spent(r) /\ Spent(r)' BY <1>5 DEF Spent, Unspent
<1> QED BY <1>2, <1>4, <1>5, <1>6 DEF Spent, Carries

\* A handler has an effect once, when it applies, and answers what it found.
LEMMA HandleKeeps ==
  ASSUME TypeOK, OperationInv, NEW r \in Execution, Handle(r)
  PROVE  OperationInv'
<1>1. exec[r].at \in {"read", "dryrun", "apply", "record"}
  BY DEF Handle, Read, DryRun, Apply, Record
<1>2. exec[r] \in Frame /\ exec[r].answer = "none" /\ Spent(r)
  BY <1>1, FramesAreServed DEF TypeOK, OperationInv, RequestsAreOrdered, Spent, Unspent
<1>3. r \notin orphans BY <1>1 DEF TypeOK
<1>4. plan' = plan /\ store' = store
  BY DEF Handle, Read, DryRun, Apply, Record, memory
<1>5. /\ exec[r].at # "record" => \A e \in effects : e.by # r
      /\ exec[r].at = "record" => \E e \in effects : e.by = r
  BY <1>1 DEF OperationInv, RequestsAreOrdered, Before
<1>6. ASSUME UNCHANGED <<target, effects>>,
             \A q \in Execution : /\ (Spent(q) <=> Spent(q)') /\ Carries(q)
                                  /\ exec[q] \in Frame => exec'[q] \in Frame,
             RequestsAreOrdered'
      PROVE  OperationInv'
  <2>1. PlansArePast' BY <1>4, <1>6 DEF OperationInv, PlansArePast
  <2>2. EffectsArePlanned' BY <1>6 DEF OperationInv, EffectsArePlanned, Carries, TypeOK
  <2>3. EffectAsReviewed' BY <1>4, <1>6 DEF OperationInv, EffectAsReviewed, TypeOK
  <2>4. StoresAreOwn' /\ FramesAreReviewed' /\ SingleUse'
    BY <1>4, <1>6, CarryingKeeps
  <2> QED BY <1>6, <2>1, <2>2, <2>3, <2>4 DEF OperationInv
<1>7. CASE Read(r) \/ DryRun(r)
  <2>1. UNCHANGED <<target, effects, orphans>> /\ exec[r].at # "record"
    BY <1>7 DEF Read, DryRun, cluster, history
  <2>2. CASE \E next \in {"dryrun", "apply"} : Goto(r, next)
    <3>1. PICK next \in {"dryrun", "apply"} : Goto(r, next) BY <2>2
    <3>2. RequestsAreOrdered'
      BY <1>1, <1>2, <1>3, <1>5, <2>1, <3>1, GoingOn DEF OperationInv, RequestsAreOrdered, Before
    <3> QED BY <1>1, <1>2, <1>6, <2>1, <3>1, <3>2, GoingOn
  <2>3. CASE \E code \in {"target_unavailable", "stale_plan", "dry_run_rejected"} : Answer(r, code)
    <3>1. PICK code \in {"target_unavailable", "stale_plan", "dry_run_rejected"} : Answer(r, code)
      BY <2>3
    <3>2. RequestsAreOrdered'
      BY <1>1, <1>2, <1>3, <1>5, <2>1, <3>1, Answering DEF OperationInv, RequestsAreOrdered, Before
    <3> QED BY <1>1, <1>2, <1>6, <2>1, <3>1, <3>2, Answering
  <2> QED BY <1>7, <2>2, <2>3 DEF Read, DryRun
<1>8. CASE Apply(r)
  <2>1. exec[r].at = "apply" BY <1>8 DEF Apply
  <2>2. CASE Land(r) /\ UNCHANGED orphans /\ (Goto(r, "record") \/ Answer(r, "execution_failed"))
    <3>1. /\ \/ exec'[r].at = "record" /\ exec'[r].answer = "none"
             \/ exec'[r].at = "answered" /\ exec'[r].answer = "execution_failed"
          /\ \A q \in Execution \ {r} : exec'[q] = exec[q]
          /\ \A q \in Execution : /\ (Spent(q) <=> Spent(q)') /\ Carries(q)
                                  /\ exec[q] \in Frame => exec'[q] \in Frame
      BY <1>2, <2>1, <2>2, GoingOn, Answering
    <3>2. /\ PlansArePast' /\ EffectsArePlanned' /\ EffectAsReviewed'
          /\ \E e \in effects' : e.by = r
          /\ \A q \in Execution \ {r} :
               (\E e \in effects' : e.by = q) <=> (\E e \in effects : e.by = q)
      BY <1>2, <1>4, <2>2, <3>1, LandKeeps
    <3>3. RequestsAreOrdered'
      BY <1>2, <1>3, <2>2, <3>1, <3>2 DEF OperationInv, RequestsAreOrdered, Before
    <3>4. StoresAreOwn' /\ FramesAreReviewed' /\ SingleUse'
      BY <1>4, <3>1, CarryingKeeps
    <3> QED BY <3>2, <3>3, <3>4 DEF OperationInv
  <2>3. CASE /\ Answer(r, "execution_failed") /\ UNCHANGED <<target, effects>>
             /\ orphans' \in {orphans, orphans \union {r}}
    <3>1. RequestsAreOrdered'
      BY <1>2, <1>5, <2>1, <2>3, Answering DEF OperationInv, RequestsAreOrdered, Before
    <3> QED BY <1>2, <1>6, <2>1, <2>3, <3>1, Answering
  <2> QED BY <1>8, <2>2, <2>3 DEF Apply, cluster, history
<1>9. CASE Record(r)
  <2>1. /\ UNCHANGED <<target, effects, orphans>>
        /\ exec[r].at = "record" /\ Answer(r, "accepted")
    BY <1>9 DEF Record, cluster, history
  <2>2. RequestsAreOrdered'
    BY <1>2, <1>3, <1>5, <2>1, Answering DEF OperationInv, RequestsAreOrdered, Before
  <2> QED BY <1>2, <1>6, <2>1, <2>2, Answering
<1> QED BY <1>7, <1>8, <1>9 DEF Handle

\* A late call finds the version that was reviewed, or changes nothing.
LEMMA LateKeeps ==
  ASSUME TypeOK, OperationInv, NEW r \in Execution, OrphanLands(r)
  PROVE  OperationInv'
<1>1. /\ r \in orphans /\ orphans' = orphans \ {r}
      /\ UNCHANGED <<memory, exec>>
      /\ Land(r) \/ UNCHANGED <<target, effects>>
  BY DEF OrphanLands, cluster, history
<1>2. Spent(r) /\ exec[r].at = "answered"
      /\ exec[r].answer \in {"accepted", "execution_failed", "none"}
  BY <1>1 DEF OperationInv, RequestsAreOrdered, TypeOK
<1>3. \A q \in Execution : /\ (Spent(q) <=> Spent(q)') /\ Carries(q)
                           /\ exec[q] \in Frame => exec'[q] \in Frame
  BY <1>1 DEF Spent, Carries
<1>4. plan' = plan /\ store' = store BY <1>1 DEF memory
<1>5. StoresAreOwn' /\ FramesAreReviewed' /\ SingleUse'
  BY <1>3, <1>4, CarryingKeeps
<1>6. CASE Land(r)
  <2>1. /\ PlansArePast' /\ EffectsArePlanned' /\ EffectAsReviewed'
        /\ \E e \in effects' : e.by = r
        /\ \A q \in Execution \ {r} :
             (\E e \in effects' : e.by = q) <=> (\E e \in effects : e.by = q)
    BY <1>2, <1>3, <1>4, <1>6, LandKeeps
  <2>2. RequestsAreOrdered'
    BY <1>1, <1>2, <1>3, <2>1 DEF OperationInv, RequestsAreOrdered, Before
  <2> QED BY <1>5, <2>1, <2>2 DEF OperationInv
<1>7. CASE UNCHANGED <<target, effects>>
  <2>1. PlansArePast' BY <1>4, <1>7 DEF OperationInv, PlansArePast
  <2>2. EffectsArePlanned' BY <1>1, <1>7 DEF OperationInv, EffectsArePlanned
  <2>3. EffectAsReviewed' BY <1>3, <1>4, <1>7 DEF OperationInv, EffectAsReviewed, TypeOK
  <2>4. RequestsAreOrdered'
    BY <1>1, <1>3, <1>7 DEF OperationInv, RequestsAreOrdered
  <2> QED BY <1>5, <2>1, <2>2, <2>3, <2>4 DEF OperationInv
<1> QED BY <1>1, <1>6, <1>7

\* A restart empties a store; its requests are never answered, and one that was
\* applying may still have its effect.
LEMMA CrashingKeeps ==
  ASSUME TypeOK, OperationInv, NEW p \in Process, Crash(p)
  PROVE  OperationInv'
<1>1. /\ UNCHANGED <<now, target, plan, effects>>
      /\ \A q \in Process : store'[q] \subseteq store[q]
      /\ \E late \in SUBSET {q \in Execution : exec[q].on = p /\ exec[q].at = "apply"} :
           orphans' = orphans \union late
  BY DEF Crash, cluster, TypeOK
<1>2. \A q \in Execution :
        IF exec[q].on = p /\ exec[q].at # "answered"
          THEN exec[q] \in Frame /\ exec'[q] = [exec[q] EXCEPT !.at = "answered"]
          ELSE exec'[q] = exec[q]
  BY CrashTypes
<1>3. \A q \in Execution : exec[q] \in Frame => exec'[q] \in Frame
  BY CrashTypes
<1>4. \A q \in Execution :
        /\ Carries(q) /\ exec'[q].answer = exec[q].answer
        /\ exec'[q].at = exec[q].at \/ (exec'[q].at = "answered" /\ exec[q] \in Frame)
  BY <1>2 DEF Frame, Carries
<1>5. \A q \in Execution : (Spent(q) <=> Spent(q)')
  <2>1. \A q \in Execution : exec[q] \in Frame => exec[q].at # "waiting" BY DEF Frame
  <2> QED BY <1>4, <2>1 DEF Spent
<1>6. StoresAreOwn' /\ FramesAreReviewed' /\ SingleUse'
  BY <1>1, <1>3, <1>4, <1>5, CarryingKeeps
<1>7. PlansArePast' BY <1>1 DEF OperationInv, PlansArePast
<1>8. EffectsArePlanned' BY <1>1, <1>4 DEF OperationInv, EffectsArePlanned, Carries, TypeOK
<1>9. EffectAsReviewed' BY <1>1, <1>5 DEF OperationInv, EffectAsReviewed, TypeOK
<1>10. RequestsAreOrdered'
  <2>1. \A q \in Execution : q \in orphans' => q \in orphans \/ exec[q].at = "apply"
    BY <1>1
  <2>2. \A q \in Execution : exec[q].at = "apply" => exec[q].answer = "none" /\ Spent(q)
    BY DEF OperationInv, RequestsAreOrdered, Spent, Unspent
  <2>3. effects' = effects BY <1>1
  <2> QED BY <1>4, <1>5, <2>1, <2>2, <2>3 DEF OperationInv, RequestsAreOrdered, Before
<1> QED BY <1>6, <1>7, <1>8, <1>9, <1>10 DEF OperationInv

\* Whoever changes the Deployment leaves the reviewed version for good.
LEMMA WorldKeeps ==
  ASSUME TypeOK, OperationInv, TargetChanges \/ Tick \/ UNCHANGED vars
  PROVE  OperationInv'
<1>1. UNCHANGED <<memory, exec, orphans, effects>>
  BY DEF TargetChanges, Tick, vars, history
<1>2. \A q \in Execution : /\ (Spent(q) <=> Spent(q)') /\ Carries(q)
                           /\ exec[q] \in Frame => exec'[q] \in Frame
  BY <1>1 DEF Spent, Carries
<1>3. StoresAreOwn' /\ FramesAreReviewed' /\ SingleUse'
  BY <1>1, <1>2, CarryingKeeps DEF memory
<1>4. target' = target \/ target'.version = target.version + 1
  BY DEF TargetChanges, Tick, vars, cluster
<1>5. PlansArePast'
  <2>1. \A o \in Plan : plan[o] # NoPlan => plan[o].version \in Nat
    BY DEF TypeOK, Planned
  <2>2. target.version \in Nat BY DEF TypeOK
  <2> QED BY <1>1, <1>4, <2>1, <2>2 DEF OperationInv, PlansArePast, memory
<1>6. EffectsArePlanned' BY <1>1 DEF OperationInv, EffectsArePlanned
<1>7. EffectAsReviewed' BY <1>1, <1>2 DEF OperationInv, EffectAsReviewed, TypeOK, memory
<1>8. RequestsAreOrdered' BY <1>1, <1>2 DEF OperationInv, RequestsAreOrdered
<1> QED BY <1>3, <1>5, <1>6, <1>7, <1>8 DEF OperationInv

LEMMA StepOperations == TypeOK /\ OperationInv /\ [Next]_vars => OperationInv'
BY Actions, PlanningKeeps, RefusingKeeps, ConsumingKeeps, HandleKeeps, LateKeeps,
   CrashingKeeps, WorldKeeps

LEMMA Operations == Spec => []OperationInv
<1>1. Init => OperationInv BY InitOperations
<1>2. TypeOK /\ OperationInv /\ [Next]_vars => OperationInv' BY StepOperations
<1> QED BY <1>1, <1>2, GuardedTypes, PTL DEF Spec

\* One execution at most gets hold of a plan, in time, and no store offers it again.
THEOREM PlansUsedOnce == Spec => []SingleUse
<1>1. OperationInv => SingleUse BY DEF OperationInv
<1> QED BY <1>1, Operations, PTL

\* What changes the Deployment was reviewed, on the version that was reviewed.
THEOREM EffectsAreReviewed == Spec => []EffectAsReviewed
<1>1. OperationInv => EffectAsReviewed BY DEF OperationInv
<1> QED BY <1>1, Operations, PTL

\* 202 means a change, and a refusal none, now or later.
THEOREM AnswersTrue == Spec => []AnswersAreTrue
<1>1. OperationInv => AnswersAreTrue
  BY DEF OperationInv, RequestsAreOrdered, AnswersAreTrue
<1> QED BY <1>1, Operations, PTL

-----------------------------------------------------------------------------
(* What a process remembers.                                                *)

Made == {o \in Plan : plan[o] # NoPlan}

\* Plans are finitely many, were made in the past, and no two at the same reading of
\* the clock.
PlansAreApart ==
  /\ IsFiniteSet(Made)
  /\ \A o \in Made : plan[o].created < now
  /\ \A o, n \in Made : plan[o].created = plan[n].created => o = n

\* A list names executions of its process that were answered 202, each once, and all
\* of those unless they were forgotten or newer ones fill the list.
ReceiptsAreListed ==
  \A p \in Process :
    /\ \A i \in 1..Len(audit[p]) :
         /\ exec[audit[p][i]].on = p /\ exec[audit[p][i]].answer = "accepted"
         /\ \A j \in 1..Len(audit[p]) : audit[p][i] = audit[p][j] => i = j
    /\ \A r \in Execution \ lost :
         exec[r].on = p /\ exec[r].answer = "accepted" =>
           \/ \E i \in 1..Len(audit[p]) : audit[p][i] = r
           \/ Len(audit[p]) = MaxAudit

MemoryInv == PlansAreApart /\ PlansAreKept /\ ReceiptsAreListed

LEMMA InitMemory == Init => MemoryInv
<1> SUFFICES ASSUME Init PROVE MemoryInv
  OBVIOUS
<1>1. Made = {} BY DEF Init, Made
<1>2. PlansAreApart BY <1>1, FS_EmptySet DEF PlansAreApart
<1>3. PlansAreKept
  <2>1. \A p \in Process : Cardinality(store[p]) <= MaxPlans
    BY FS_EmptySet, GuardedBounds DEF Init
  <2>2. \A o \in Plan : plan[o] = NoPlan BY DEF Init
  <2> QED BY <2>1, <2>2 DEF PlansAreKept
<1>4. ReceiptsAreListed
  <2>1. \A p \in Process : audit[p] = <<>> BY DEF Init
  <2>2. \A r \in Execution : exec[r].answer = "none" BY DEF Init, Waiting
  <2> QED BY <2>1, <2>2 DEF ReceiptsAreListed
<1> QED BY <1>2, <1>3, <1>4 DEF MemoryInv

\* A store that loses plans only to requests and restarts promises what it did.
LEMMA PlansStay ==
  ASSUME TypeOK, MemoryInv, plan' = plan, now' \in Nat, now <= now',
         \A o \in lost : o \in lost',
         \A p \in Process : store'[p] \subseteq store[p],
         \A p \in Process : \A o \in store[p] \ store'[p] :
           o \in lost' \/ \E r \in Execution : exec'[r].plan = o,
         \A r \in Execution : exec[r].plan \in Plan => exec'[r].plan = exec[r].plan
  PROVE  PlansAreApart' /\ PlansAreKept'
<1>1. Made' = Made BY DEF Made
<1>2. \A o \in Made : plan[o].created \in Nat /\ plan[o].on \in Process
  BY DEF TypeOK, Planned, Made
<1>3. now \in Nat BY DEF TypeOK
<1>4. PlansAreApart'
  <2>1. \A o \in Made : plan'[o].created < now'
    BY <1>2, <1>3 DEF MemoryInv, PlansAreApart
  <2> QED BY <1>1, <2>1 DEF MemoryInv, PlansAreApart
<1>5. \A p \in Process : Cardinality(store'[p]) <= MaxPlans
  <2> SUFFICES ASSUME NEW p \in Process PROVE Cardinality(store'[p]) <= MaxPlans
    OBVIOUS
  <2>1. store[p] \subseteq Made BY DEF TypeOK, Made
  <2>2. IsFiniteSet(store[p]) BY <2>1, FS_Subset DEF MemoryInv, PlansAreApart
  <2>3. /\ Cardinality(store'[p]) \in Nat /\ Cardinality(store[p]) \in Nat
        /\ Cardinality(store'[p]) <= Cardinality(store[p])
    BY <2>2, FS_Subset, FS_CardinalityType
  <2>4. Cardinality(store[p]) <= MaxPlans BY DEF MemoryInv, PlansAreKept
  <2> QED BY <2>3, <2>4, GuardedBounds
<1>6. ASSUME NEW o \in Plan \ lost'
      PROVE  LET p == plan[o].on
                 newer == {n \in Plan : plan[n].on = p /\ plan[n].created > plan[o].created}
             IN  \/ plan[o] = NoPlan
                 \/ o \in store'[p]
                 \/ now' - plan[o].created > TTL
                 \/ \E r \in Execution : exec'[r].plan = o
                 \/ Cardinality(newer) >= MaxPlans
  <2> DEFINE p == plan[o].on
             newer == {n \in Plan : plan[n].on = p /\ plan[n].created > plan[o].created}
  <2> SUFFICES ASSUME o \in Made
               PROVE  \/ o \in store'[p] \/ now' - plan[o].created > TTL
                      \/ \E r \in Execution : exec'[r].plan = o
                      \/ Cardinality(newer) >= MaxPlans
    BY DEF Made
  <2>1. o \notin lost BY <1>6
  <2>2. \/ o \in store[p]
        \/ now - plan[o].created > TTL
        \/ \E r \in Execution : exec[r].plan = o
        \/ Cardinality(newer) >= MaxPlans
    BY <2>1 DEF MemoryInv, PlansAreKept, Made
  <2>3. p \in Process /\ plan[o].created \in Nat BY <1>2
  <2> HIDE DEF newer, p
  <2>4. CASE o \in store[p] BY <1>6, <2>3, <2>4
  <2>5. CASE now - plan[o].created > TTL BY <1>3, <2>3, <2>5, GuardedBounds
  <2>6. CASE \E r \in Execution : exec[r].plan = o
    BY <2>6
  <2> QED BY <2>2, <2>4, <2>5, <2>6
<1> QED BY <1>4, <1>5, <1>6 DEF PlansAreKept

\* The list of a process goes on to name what was answered 202.
LEMMA ReceiptsStay ==
  ASSUME TypeOK, MemoryInv, audit' = audit, lost \subseteq lost',
         \A r \in Execution : /\ exec'[r].answer = "accepted" <=> exec[r].answer = "accepted"
                              /\ exec[r].answer = "accepted" => exec'[r].on = exec[r].on
  PROVE  ReceiptsAreListed'
<1>1. \A p \in Process : \A i \in 1..Len(audit[p]) : audit[p][i] \in Execution
  BY DEF TypeOK
<1> QED BY <1>1 DEF MemoryInv, ReceiptsAreListed

\* A store that is full drops its oldest plan, when as many newer ones have been made.
LEMMA PlanningRemembers ==
  ASSUME TypeOK, OperationInv, MemoryInv,
         NEW p \in Process, NEW o \in Plan, NEW c \in Asked, PlanOperation(p, o, c)
  PROVE  PlansAreApart' /\ PlansAreKept'
<1>1. /\ plan[o] = NoPlan /\ plan'[o] \in Planned /\ plan'[o] # NoPlan
      /\ plan'[o].on = p /\ plan'[o].created = now
      /\ \A q \in Plan \ {o} : plan'[q] = plan[q]
      /\ now' = now + 1
  <2>1. plan'[o] \in Planned /\ \A q \in Plan \ {o} : plan'[q] = plan[q]
    BY PlanTypes
  <2>2. plan'[o].on = p /\ plan'[o].created = now /\ plan[o] = NoPlan /\ now' = now + 1
    BY DEF PlanOperation, TypeOK
  <2>3. plan'[o] # NoPlan BY <2>2, GuardedNames DEF NoPlan
  <2> QED BY <2>1, <2>2, <2>3
<1>2. UNCHANGED <<exec, lost>> BY DEF PlanOperation, history
<1>3. now \in Nat /\ MaxPlans \in Nat \ {0} /\ TTL \in Nat BY GuardedBounds DEF TypeOK
<1>4. Made' = Made \union {o} /\ o \notin Made BY <1>1 DEF Made
<1>5. \A q \in Made : /\ plan[q].created \in Nat /\ plan[q].on \in Process
                      /\ plan'[q] = plan[q] /\ q \in Plan
  BY <1>1 DEF TypeOK, Planned, Made
<1>6. IsFiniteSet(Made) BY DEF MemoryInv, PlansAreApart
<1>7. PlansAreApart'
  <2>1. IsFiniteSet(Made') BY <1>4, <1>6, FS_AddElement
  <2>2. \A q \in Made' : plan'[q].created < now'
    BY <1>1, <1>3, <1>4, <1>5 DEF MemoryInv, PlansAreApart
  <2>3. \A q, n \in Made' : plan'[q].created = plan'[n].created => q = n
    BY <1>1, <1>3, <1>4, <1>5 DEF MemoryInv, PlansAreApart
  <2> QED BY <2>1, <2>2, <2>3 DEF PlansAreApart
<1>8. PICK kept \in SUBSET Plan : Kept(p, kept) /\ store' = [store EXCEPT ![p] = kept \union {o}]
  BY DEF PlanOperation
<1>9. store'[p] = kept \union {o} /\ \A q \in Process \ {p} : store'[q] = store[q]
  BY <1>8 DEF TypeOK
<1>10. \A q \in Process : /\ store[q] \subseteq Made /\ IsFiniteSet(store[q])
                          /\ Cardinality(store[q]) \in Nat /\ Cardinality(store[q]) <= MaxPlans
  <2> SUFFICES ASSUME NEW q \in Process
               PROVE  /\ store[q] \subseteq Made /\ IsFiniteSet(store[q])
                      /\ Cardinality(store[q]) \in Nat /\ Cardinality(store[q]) <= MaxPlans
    OBVIOUS
  <2>1. store[q] \subseteq Made BY DEF TypeOK, Made
  <2>2. IsFiniteSet(store[q]) BY <1>6, <2>1, FS_Subset
  <2> QED BY <2>1, <2>2, FS_CardinalityType DEF MemoryInv, PlansAreKept
<1>11. /\ Fresh(p) \subseteq store[p] /\ IsFiniteSet(Fresh(p)) /\ Cardinality(Fresh(p)) \in Nat
       /\ Cardinality(Fresh(p)) <= MaxPlans
  <2>1. Fresh(p) \subseteq store[p] BY DEF Fresh
  <2>2. /\ IsFiniteSet(Fresh(p)) /\ Cardinality(Fresh(p)) \in Nat
        /\ Cardinality(Fresh(p)) <= Cardinality(store[p])
    BY <1>10, <2>1, FS_Subset, FS_CardinalityType
  <2> QED BY <1>3, <1>10, <2>1, <2>2
<1>12. kept \subseteq Fresh(p) /\ IsFiniteSet(kept) /\ Cardinality(kept) \in Nat
       /\ Cardinality(kept) < MaxPlans
  <2>1. CASE Cardinality(Fresh(p)) >= MaxPlans
    <3>1. PICK old \in Fresh(p) : kept = Fresh(p) \ {old} BY <1>8, <2>1 DEF Kept
    <3>2. IsFiniteSet(kept) /\ Cardinality(kept) = Cardinality(Fresh(p)) - 1
      BY <1>11, <3>1, FS_RemoveElement
    <3>3. Cardinality(kept) \in Nat BY <3>2, FS_CardinalityType
    <3> QED BY <1>3, <1>11, <3>1, <3>2, <3>3
  <2>2. CASE ~(Cardinality(Fresh(p)) >= MaxPlans)
    BY <1>3, <1>8, <1>11, <2>2 DEF Kept
  <2> QED BY <2>1, <2>2
<1>13. \A q \in Process : Cardinality(store'[q]) <= MaxPlans
  <2>1. Cardinality(kept \union {o}) \in {Cardinality(kept), Cardinality(kept) + 1}
    BY <1>12, FS_AddElement
  <2>2. Cardinality(store'[p]) <= MaxPlans BY <1>3, <1>9, <1>12, <2>1
  <2> QED BY <1>9, <1>10, <2>2
<1>14. ASSUME NEW n \in Plan \ lost'
       PROVE  LET on == plan'[n].on
                  newer == {m \in Plan : plan'[m].on = on /\ plan'[m].created > plan'[n].created}
              IN  \/ plan'[n] = NoPlan
                  \/ n \in store'[on]
                  \/ now' - plan'[n].created > TTL
                  \/ \E r \in Execution : exec'[r].plan = n
                  \/ Cardinality(newer) >= MaxPlans
  <2> DEFINE on == plan'[n].on
             newer == {m \in Plan : plan'[m].on = on /\ plan'[m].created > plan'[n].created}
             before == {m \in Plan : plan[m].on = on /\ plan[m].created > plan[n].created}
  <2>1. CASE n = o
    BY <1>1, <1>9, <2>1
  <2>2. CASE n \notin Made /\ n # o
    BY <1>1, <2>2 DEF Made
  <2>3. CASE n \in Made
    <3>1. plan'[n] = plan[n] /\ plan[n].created \in Nat /\ on \in Process /\ n # o
      BY <1>4, <1>5, <2>3
    <3>2. \A m \in Plan : m \in before => m \in Made
      BY <3>1, GuardedNames DEF Made, NoPlan
    <3>3. \A m \in Plan : m \in newer => m \in Made'
      BY <3>1, GuardedNames DEF Made, NoPlan
    <3>4. before \subseteq newer
      BY <1>5, <3>1, <3>2
    <3>5. IsFiniteSet(newer) /\ Cardinality(newer) \in Nat
      <4>1. newer \in SUBSET Made' BY <3>3
      <4>2. IsFiniteSet(Made') BY <1>7 DEF PlansAreApart
      <4> HIDE DEF newer
      <4> QED BY <4>1, <4>2, FS_Subset, FS_CardinalityType
    <3>6. Cardinality(before) \in Nat /\ Cardinality(before) <= Cardinality(newer)
      <4> HIDE DEF newer, before
      <4> QED BY <3>4, <3>5, FS_Subset, FS_CardinalityType
    <3>7. \/ n \in store[on]
          \/ now - plan[n].created > TTL
          \/ \E r \in Execution : exec[r].plan = n
          \/ Cardinality(before) >= MaxPlans
      BY <1>2, <1>14, <2>3, <3>1 DEF MemoryInv, PlansAreKept, Made
    <3>8. CASE n \in store[on]
      <4>1. CASE on # p BY <1>9, <3>1, <3>8, <4>1
      <4>2. CASE on = p /\ n \notin Fresh(p)
        <5>1. ~(now - plan[n].created <= TTL) BY <3>8, <4>2 DEF Fresh
        <5> QED BY <1>1, <1>3, <3>1, <5>1
      <4>3. CASE on = p /\ n \in kept BY <1>9, <4>3
      <4>4. CASE on = p /\ n \in Fresh(p) /\ n \notin kept
        <5>1. /\ Cardinality(Fresh(p)) >= MaxPlans /\ kept = Fresh(p) \ {n}
              /\ \A m \in Fresh(p) : plan[n].created <= plan[m].created
          BY <1>8, <4>4 DEF Kept
        <5>2. kept \union {o} \subseteq newer
          <6>1. \A m \in kept : m \in Made /\ m # n /\ plan[m].on = p
            BY <1>10, <1>11, <5>1 DEF OperationInv, StoresAreOwn
          <6>2. \A m \in kept : plan[m].created # plan[n].created
            BY <2>3, <6>1 DEF MemoryInv, PlansAreApart
          <6>3. \A m \in kept : m \in newer
            <7> SUFFICES ASSUME NEW m \in kept PROVE m \in newer
              OBVIOUS
            <7>1. m \in Fresh(p) /\ m \in Made BY <1>12, <6>1
            <7>2. plan[n].created <= plan[m].created BY <5>1, <7>1
            <7>3. plan[m].created \in Nat /\ plan'[m] = plan[m] /\ m \in Plan BY <1>5, <7>1
            <7>4. plan[m].created > plan[n].created BY <3>1, <6>2, <7>2, <7>3
            <7> QED BY <3>1, <4>4, <6>1, <7>3, <7>4
          <6>4. o \in newer
            <7>1. plan[n].created < now BY <2>3 DEF MemoryInv, PlansAreApart
            <7> QED BY <1>1, <1>3, <3>1, <4>4, <7>1
          <6> QED BY <6>3, <6>4
        <5>3. o \notin kept BY <1>4, <1>10, <1>11, <1>12
        <5>4. Cardinality(kept) = Cardinality(Fresh(p)) - 1
          BY <1>11, <4>4, <5>1, FS_RemoveElement
        <5>5. Cardinality(kept \union {o}) = Cardinality(kept) + 1
          BY <1>12, <5>3, FS_AddElement
        <5> HIDE DEF newer
        <5>6. Cardinality(kept \union {o}) <= Cardinality(newer)
          BY <3>5, <5>2, FS_Subset
        <5>7. Cardinality(newer) >= MaxPlans
          BY <1>3, <1>11, <1>12, <3>5, <5>1, <5>4, <5>5, <5>6
        <5> QED BY <5>7 DEF newer
      <4> QED BY <4>1, <4>2, <4>3, <4>4
    <3>9. CASE now - plan[n].created > TTL
      BY <1>1, <1>3, <3>1, <3>9
    <3>10. CASE \E r \in Execution : exec[r].plan = n
      BY <1>2, <3>10
    <3>11. CASE Cardinality(before) >= MaxPlans
      <4> HIDE DEF newer, before
      <4>1. Cardinality(newer) >= MaxPlans BY <1>3, <3>5, <3>6, <3>11
      <4> QED BY <4>1 DEF newer
    <3> HIDE DEF newer, before, on
    <3> QED BY <3>7, <3>8, <3>9, <3>10, <3>11
  <2> HIDE DEF newer, before, on
  <2> QED BY <2>1, <2>2, <2>3
<1> QED BY <1>7, <1>13, <1>14 DEF PlansAreKept

\* A receipt goes to the front, once, and the oldest one beyond the limit goes.
LEMMA RecordLists ==
  ASSUME TypeOK, OperationInv, MemoryInv, NEW r \in Execution, Record(r)
  PROVE  ReceiptsAreListed'
<1> DEFINE p == exec[r].on
           all == <<r>> \o audit[p]
<1>1. exec[r].at = "record" /\ exec[r] \in Frame /\ exec[r].answer = "none"
  BY FramesAreServed DEF Record, TypeOK, OperationInv, RequestsAreOrdered
<1>2. p \in Process BY <1>1 DEF Frame
<1>3. /\ exec'[r].answer = "accepted" /\ exec'[r].on = p
      /\ \A q \in Execution \ {r} : exec'[q] = exec[q]
  BY <1>1 DEF Record, Answer, TypeOK, Frame
<1>4. audit'[p] = Listed(p, r) /\ \A q \in Process \ {p} : audit'[q] = audit[q]
  BY <1>2 DEF Record, TypeOK
<1>5. lost' = lost BY DEF Record, history
<1>6. audit[p] \in Seq(Execution) /\ MaxAudit \in Nat \ {0}
  BY <1>2, GuardedBounds DEF TypeOK
<1>7. \A q \in Process : \A i \in 1..Len(audit[q]) :
        audit[q][i] \in Execution /\ audit[q][i] # r /\ exec[audit[q][i]].answer = "accepted"
  BY <1>1 DEF TypeOK, MemoryInv, ReceiptsAreListed
<1> HIDE DEF p
<1>8. /\ Len(all) = Len(audit[p]) + 1 /\ all[1] = r
      /\ \A i \in 2..Len(all) : all[i] = audit[p][i - 1]
  BY <1>6
<1>9. /\ Len(Listed(p, r)) \in Nat /\ Len(Listed(p, r)) <= Len(all)
      /\ Len(Listed(p, r)) = Len(all) \/ Len(Listed(p, r)) = MaxAudit
      /\ Len(Listed(p, r)) >= 1
      /\ \A i \in 1..Len(Listed(p, r)) : Listed(p, r)[i] = all[i]
  <2>1. CASE Len(audit[p]) < MaxAudit BY <1>6, <1>8, <2>1 DEF Listed
  <2>2. CASE ~(Len(audit[p]) < MaxAudit)
    <3>1. Listed(p, r) = SubSeq(all, 1, MaxAudit) BY <2>2 DEF Listed
    <3>2. all \in Seq(Execution) /\ MaxAudit <= Len(all) BY <1>6, <1>8, <2>2
    <3> HIDE DEF all
    <3> QED BY <1>6, <3>1, <3>2
  <2> QED BY <2>1, <2>2
<1> HIDE DEF all
<1>10. \A i \in 1..Len(Listed(p, r)) :
         \/ i = 1 /\ Listed(p, r)[i] = r
         \/ i - 1 \in 1..Len(audit[p]) /\ i # 1 /\ Listed(p, r)[i] = audit[p][i - 1]
  BY <1>6, <1>8, <1>9
<1>11. ASSUME NEW q \in Process, NEW i \in 1..Len(audit'[q])
       PROVE  /\ exec'[audit'[q][i]].on = q /\ exec'[audit'[q][i]].answer = "accepted"
              /\ \A j \in 1..Len(audit'[q]) : audit'[q][i] = audit'[q][j] => i = j
  <2>1. CASE q # p
    BY <1>3, <1>4, <1>7, <2>1 DEF MemoryInv, ReceiptsAreListed
  <2>2. CASE q = p
    <3>1. \A j \in 1..Len(audit[p]) : exec'[audit[p][j]] = exec[audit[p][j]] /\ exec[audit[p][j]].on = p
      BY <1>2, <1>3, <1>7 DEF MemoryInv, ReceiptsAreListed
    <3>2. exec'[audit'[q][i]].on = q /\ exec'[audit'[q][i]].answer = "accepted"
      <4>1. i \in 1..Len(Listed(p, r)) /\ audit'[q][i] = Listed(p, r)[i]
        BY <1>2, <1>4, <2>2
      <4>2. CASE Listed(p, r)[i] = r BY <1>3, <2>2, <4>1, <4>2
      <4>3. CASE i - 1 \in 1..Len(audit[p]) /\ Listed(p, r)[i] = audit[p][i - 1]
        <5>1. exec'[audit[p][i - 1]] = exec[audit[p][i - 1]] /\ exec[audit[p][i - 1]].on = p
          BY <3>1, <4>3
        <5>2. exec[audit[p][i - 1]].answer = "accepted" BY <1>2, <1>7, <4>3
        <5> QED BY <2>2, <4>1, <4>3, <5>1, <5>2
      <4> QED BY <1>10, <4>1, <4>2, <4>3
    <3>3. ASSUME NEW j \in 1..Len(audit'[q]), audit'[q][i] = audit'[q][j]
          PROVE  i = j
      <4>1. \A k, m \in 1..Len(audit[p]) : audit[p][k] = audit[p][m] => k = m
        BY <1>2 DEF MemoryInv, ReceiptsAreListed
      <4>2. i \in 1..Len(Listed(p, r)) /\ j \in 1..Len(Listed(p, r))
            /\ Listed(p, r)[i] = Listed(p, r)[j]
        BY <1>4, <2>2, <3>3
      <4>3. i \in Nat /\ j \in Nat BY <1>9, <4>2
      <4>4. (i = 1 /\ j = 1) \/ (i # 1 /\ j # 1)
        BY <1>2, <1>7, <1>10, <4>2
      <4>5. CASE i # 1 /\ j # 1
        <5>1. i - 1 \in 1..Len(audit[p]) /\ j - 1 \in 1..Len(audit[p])
              /\ audit[p][i - 1] = audit[p][j - 1]
          BY <1>10, <4>2, <4>5
        <5>2. i - 1 = j - 1 BY <4>1, <5>1
        <5> QED BY <4>3, <5>2
      <4> QED BY <4>4, <4>5
    <3> QED BY <3>2, <3>3
  <2> QED BY <2>1, <2>2
<1>12. ASSUME NEW q \in Process, NEW x \in Execution \ lost',
              exec'[x].on = q, exec'[x].answer = "accepted"
       PROVE  \/ \E i \in 1..Len(audit'[q]) : audit'[q][i] = x
              \/ Len(audit'[q]) = MaxAudit
  <2>1. CASE x = r
    <3>1. q = p BY <1>3, <1>12, <2>1
    <3>2. 1 \in 1..Len(audit'[q]) /\ audit'[q][1] = r
      BY <1>4, <1>9, <1>10, <3>1
    <3> QED BY <2>1, <3>2
  <2>2. CASE x # r
    <3>1. exec'[x] = exec[x] /\ x \in Execution \ lost BY <1>3, <1>5, <1>12, <2>2
    <3>2. \/ \E i \in 1..Len(audit[q]) : audit[q][i] = x
          \/ Len(audit[q]) = MaxAudit
      BY <1>12, <3>1 DEF MemoryInv, ReceiptsAreListed
    <3>3. CASE q # p BY <1>4, <3>2, <3>3
    <3>4. CASE q = p /\ Len(Listed(p, r)) # MaxAudit
      <4>1. Len(Listed(p, r)) = Len(audit[p]) + 1 BY <1>8, <1>9, <3>4
      <4>2. Len(audit[p]) < MaxAudit \/ Len(audit[p]) >= MaxAudit BY <1>6
      <4>3. Len(audit[p]) < MaxAudit
        <5> SUFFICES ASSUME ~(Len(audit[p]) < MaxAudit) PROVE FALSE
          BY <4>2
        <5>1. Listed(p, r) = SubSeq(all, 1, MaxAudit) BY DEF Listed, all
        <5>2. all \in Seq(Execution) /\ MaxAudit <= Len(all) BY <1>6, <1>8 DEF all
        <5>3. Len(Listed(p, r)) = MaxAudit BY <1>6, <5>1, <5>2
        <5> QED BY <3>4, <5>3
      <4>4. PICK i \in 1..Len(audit[p]) : audit[p][i] = x
        BY <1>6, <3>2, <3>4, <4>3
      <4>5. i + 1 \in 1..Len(Listed(p, r)) /\ Listed(p, r)[i + 1] = audit[p][i]
        BY <1>6, <1>10, <4>1, <4>4
      <4> QED BY <1>4, <3>4, <4>4, <4>5
    <3>5. CASE q = p /\ Len(Listed(p, r)) = MaxAudit BY <1>4, <3>5
    <3> QED BY <3>3, <3>4, <3>5
  <2> QED BY <2>1, <2>2
<1> QED BY <1>11, <1>12 DEF ReceiptsAreListed

\* What else a step does to what is remembered: a request keeps its plan, process and
\* 202, and a restart writes down what it forgets.
LEMMA RefusingRemembers ==
  ASSUME TypeOK, OperationInv, MemoryInv, NEW r \in Execution, NEW f \in Form, Refuse(r, f)
  PROVE  MemoryInv'
<1>1. /\ exec'[r].answer \in Unspent /\ exec'[r] \in Unserved
      /\ \A q \in Execution \ {r} : exec'[q] = exec[q]
  BY RefuseTypes
<1>2. exec[r] \in Unserved /\ exec[r].answer = "none"
  BY FramesAreServed DEF Refuse, TypeOK, OperationInv, RequestsAreOrdered
<1>3. UNCHANGED <<now, memory, lost>> BY DEF Refuse, history
<1>4. \A q \in Execution : exec[q].plan \in Plan => exec'[q].plan = exec[q].plan
  <2>1. exec[r].plan \notin Plan BY <1>2, GuardedNames DEF Unserved
  <2> QED BY <1>1, <2>1
<1>5. PlansAreApart' /\ PlansAreKept'
  BY <1>3, <1>4, PlansStay DEF memory, TypeOK
<1>6. exec'[r].answer # "accepted" BY <1>1 DEF Unspent
<1>7. ReceiptsAreListed' BY <1>1, <1>2, <1>3, <1>6, ReceiptsStay DEF memory
<1> QED BY <1>5, <1>7 DEF MemoryInv

LEMMA ConsumingRemembers ==
  ASSUME TypeOK, OperationInv, MemoryInv,
         NEW r \in Execution, NEW p \in Process, NEW f \in Form, Consume(r, p, f)
  PROVE  MemoryInv'
<1>1. /\ \A q \in Execution \ {r} : exec'[q] = exec[q]
      /\ exec'[r].plan = f.plan
      /\ exec'[r].answer = (IF Verdict(p, f) = "ok" THEN "none" ELSE Verdict(p, f))
      /\ \A q \in Process : store'[q] = IF q = p THEN store[q] \ {f.plan} ELSE store[q]
  <2>1. exec'[r] =
          [at |-> IF Verdict(p, f) = "ok" THEN "read" ELSE "answered",
           on |-> p, plan |-> f.plan, version |-> f.version, asked |-> f.asked,
           restores |-> plan[f.plan].restores, actor |-> Actor(f), used |-> now,
           answer |-> IF Verdict(p, f) = "ok" THEN "none" ELSE Verdict(p, f)]
    BY ConsumeTypes
  <2>2. \A q \in Execution \ {r} : exec'[q] = exec[q]
    BY ConsumeTypes
  <2>3. \A q \in Process : store'[q] = IF q = p THEN store[q] \ {f.plan} ELSE store[q]
    BY DEF Consume, Removed, TypeOK
  <2> QED BY <2>1, <2>2, <2>3
<1>2. exec[r] \in Unserved /\ exec[r].answer = "none"
  BY FramesAreServed DEF Consume, TypeOK, OperationInv, RequestsAreOrdered
<1>3. UNCHANGED <<now, plan, audit, lost>> BY DEF Consume, history
<1>4. \A q \in Execution : exec[q].plan \in Plan => exec'[q].plan = exec[q].plan
  <2>1. exec[r].plan \notin Plan BY <1>2, GuardedNames DEF Unserved
  <2> QED BY <1>1, <2>1
<1>5. PlansAreApart' /\ PlansAreKept'
  <2>1. \A q \in Process : \A o \in store[q] \ store'[q] : exec'[r].plan = o BY <1>1
  <2>2. \A q \in Process : store'[q] \subseteq store[q] BY <1>1
  <2>3. now' \in Nat /\ now <= now' BY <1>3 DEF TypeOK
  <2> QED BY <1>3, <1>4, <2>1, <2>2, <2>3, PlansStay
<1>6. exec'[r].answer # "accepted" BY <1>1, VerdictCodes
<1>7. ReceiptsAreListed' BY <1>1, <1>2, <1>3, <1>6, ReceiptsStay
<1> QED BY <1>5, <1>7 DEF MemoryInv

LEMMA HandleRemembers ==
  ASSUME TypeOK, OperationInv, MemoryInv, NEW r \in Execution, Handle(r)
  PROVE  MemoryInv'
<1>1. exec[r].at \in {"read", "dryrun", "apply", "record"}
  BY DEF Handle, Read, DryRun, Apply, Record
<1>2. exec[r] \in Frame /\ exec[r].answer = "none"
  BY <1>1, FramesAreServed DEF TypeOK, OperationInv, RequestsAreOrdered
<1>3. UNCHANGED <<now, plan, store, lost>>
  BY DEF Handle, Read, DryRun, Apply, Record, memory, history, Land
<1>4. \/ \E next \in {"dryrun", "apply", "record"} : Goto(r, next)
      \/ \E code \in {"target_unavailable", "stale_plan", "dry_run_rejected",
                      "execution_failed", "accepted"} : Answer(r, code)
  BY DEF Handle, Read, DryRun, Apply, Record
<1>5. /\ \A q \in Execution \ {r} : exec'[q] = exec[q]
      /\ exec'[r].plan = exec[r].plan /\ exec'[r].on = exec[r].on
  <2>1. CASE \E next : Goto(r, next)
    BY <1>2, <2>1 DEF Goto, TypeOK, Frame
  <2>2. CASE \E code : Answer(r, code)
    BY <1>2, <2>2 DEF Answer, TypeOK, Frame
  <2> QED BY <1>4, <2>1, <2>2
<1>6. PlansAreApart' /\ PlansAreKept'
  <2>1. now' \in Nat /\ now <= now' BY <1>3 DEF TypeOK
  <2> QED BY <1>3, <1>5, <2>1, PlansStay
<1>7. ReceiptsAreListed'
  <2>1. CASE Record(r) BY <2>1, RecordLists
  <2>2. CASE Read(r) \/ DryRun(r) \/ Apply(r)
    <3>1. audit' = audit BY <2>2 DEF Read, DryRun, Apply, memory
    <3>2. \/ \E next \in {"dryrun", "apply", "record"} : Goto(r, next)
          \/ \E code \in {"target_unavailable", "stale_plan", "dry_run_rejected",
                          "execution_failed"} : Answer(r, code)
      BY <2>2 DEF Read, DryRun, Apply
    <3>3. exec'[r].answer # "accepted"
      <4>1. CASE \E next \in {"dryrun", "apply", "record"} : Goto(r, next)
        BY <1>2, <4>1 DEF Goto, TypeOK, Frame
      <4>2. CASE \E code \in {"target_unavailable", "stale_plan", "dry_run_rejected",
                              "execution_failed"} : Answer(r, code)
        BY <1>2, <4>2 DEF Answer, TypeOK, Frame
      <4> QED BY <3>2, <4>1, <4>2
    <3> QED BY <1>2, <1>3, <1>5, <3>1, <3>3, ReceiptsStay
  <2> QED BY <2>1, <2>2 DEF Handle
<1> QED BY <1>6, <1>7 DEF MemoryInv

LEMMA CrashingRemembers ==
  ASSUME TypeOK, OperationInv, MemoryInv, NEW p \in Process, Crash(p)
  PROVE  MemoryInv'
<1>1. \A q \in Execution :
        IF exec[q].on = p /\ exec[q].at # "answered"
          THEN exec[q] \in Frame /\ exec'[q] = [exec[q] EXCEPT !.at = "answered"]
          ELSE exec'[q] = exec[q]
  BY CrashTypes
<1>2. \A q \in Execution :
        /\ exec'[q].plan = exec[q].plan /\ exec'[q].on = exec[q].on
        /\ exec'[q].answer = exec[q].answer
  BY <1>1 DEF Frame
<1>3. /\ UNCHANGED <<now, plan>>
      /\ lost' = lost \union store[p] \union {r \in Execution : exec[r].on = p}
      /\ \A q \in Process : /\ store'[q] = IF q = p THEN {} ELSE store[q]
                            /\ audit'[q] = IF q = p THEN <<>> ELSE audit[q]
  BY DEF Crash, TypeOK
<1>4. PlansAreApart' /\ PlansAreKept'
  <2>1. now' \in Nat /\ now <= now' BY <1>3 DEF TypeOK
  <2>2. \A q \in Process : /\ store'[q] \subseteq store[q]
                           /\ \A o \in store[q] \ store'[q] : o \in lost'
    BY <1>3
  <2> QED BY <1>2, <1>3, <2>1, <2>2, PlansStay
<1>5. ReceiptsAreListed'
  <2>1. \A q \in Process : \A i \in 1..Len(audit'[q]) :
          /\ exec'[audit'[q][i]].on = q /\ exec'[audit'[q][i]].answer = "accepted"
          /\ \A j \in 1..Len(audit'[q]) : audit'[q][i] = audit'[q][j] => i = j
    <3> SUFFICES ASSUME NEW q \in Process, NEW i \in 1..Len(audit'[q])
                 PROVE  /\ exec'[audit'[q][i]].on = q /\ exec'[audit'[q][i]].answer = "accepted"
                        /\ \A j \in 1..Len(audit'[q]) : audit'[q][i] = audit'[q][j] => i = j
      OBVIOUS
    <3>1. q # p /\ audit'[q] = audit[q] BY <1>3
    <3>2. audit[q][i] \in Execution BY <3>1 DEF TypeOK
    <3> QED BY <1>2, <3>1, <3>2 DEF MemoryInv, ReceiptsAreListed
  <2>2. \A q \in Process : \A r \in Execution \ lost' :
          exec'[r].on = q /\ exec'[r].answer = "accepted" =>
            \/ \E i \in 1..Len(audit'[q]) : audit'[q][i] = r
            \/ Len(audit'[q]) = MaxAudit
    BY <1>2, <1>3 DEF MemoryInv, ReceiptsAreListed
  <2> QED BY <2>1, <2>2 DEF ReceiptsAreListed
<1> QED BY <1>4, <1>5 DEF MemoryInv

LEMMA OthersRemember ==
  ASSUME TypeOK, MemoryInv,
         \/ \E r \in Execution : OrphanLands(r)
         \/ TargetChanges \/ Tick \/ UNCHANGED vars
  PROVE  MemoryInv'
<1>1. UNCHANGED <<memory, exec, lost>>
  BY DEF OrphanLands, Land, TargetChanges, Tick, vars, history
<1>2. now' \in Nat /\ now <= now'
  BY DEF OrphanLands, TargetChanges, Tick, vars, TypeOK
<1>3. PlansAreApart' /\ PlansAreKept' BY <1>1, <1>2, PlansStay DEF memory
<1>4. ReceiptsAreListed' BY <1>1, ReceiptsStay DEF memory
<1> QED BY <1>3, <1>4 DEF MemoryInv

LEMMA PlanningLists ==
  ASSUME TypeOK, OperationInv, MemoryInv,
         NEW p \in Process, NEW o \in Plan, NEW c \in Asked, PlanOperation(p, o, c)
  PROVE  MemoryInv'
<1>1. ReceiptsAreListed' BY ReceiptsStay DEF PlanOperation, history
<1> QED BY <1>1, PlanningRemembers DEF MemoryInv

LEMMA StepMemory == TypeOK /\ OperationInv /\ MemoryInv /\ [Next]_vars => MemoryInv'
BY Actions, PlanningLists, RefusingRemembers, ConsumingRemembers, HandleRemembers,
   CrashingRemembers, OthersRemember

\* The stores and lists are bounded and lose nothing they promised: a plan is there until
\* it expires, is tried or is crowded out by a full store of newer ones, and whoever was
\* answered 202 is listed unless the list is full.
THEOREM MemoryKept == Spec => []MemoryIsKept
<1>1. Init => MemoryInv BY InitMemory
<1>2. TypeOK /\ OperationInv /\ MemoryInv /\ [Next]_vars => MemoryInv' BY StepMemory
<1>3. TypeOK /\ OperationInv /\ MemoryInv => MemoryIsKept
  <2> SUFFICES ASSUME TypeOK, OperationInv, MemoryInv PROVE MemoryIsKept
    OBVIOUS
  <2>1. \A p \in Process : \A i \in 1..Len(audit[p]) : audit[p][i] \in Execution
    BY DEF TypeOK
  <2>2. \A r \in Execution : exec[r].answer = "accepted" => \E e \in effects : e.by = r
    BY DEF OperationInv, RequestsAreOrdered
  <2>3. ReceiptsAreTrue
    BY <2>1, <2>2 DEF MemoryInv, ReceiptsAreListed, ReceiptsAreTrue
  <2> QED BY <2>3 DEF MemoryInv, MemoryIsKept
<1> QED BY <1>1, <1>2, <1>3, GuardedTypes, Operations, PTL DEF Spec

-----------------------------------------------------------------------------
(* GuardedOperations implements ReviewedChange.                             *)

LEMMA ReviewedInit == Init => Reviewed!Init
<1> SUFFICES ASSUME Init PROVE Reviewed!Init
  OBVIOUS
<1>1. \A r \in Execution : ~Spent(r) BY DEF Init, Waiting, Spent
<1>2. \A o \in Plan : plan[o].asked = None BY DEF Init, NoPlan
<1>3. \A o \in Plan : EffectOf(o) = None BY DEF Init, EffectOf
<1> QED BY <1>1, <1>2, <1>3 DEF Reviewed!Init

\* It does not matter which effect under a plan one looks at.
LEMMA AnyEffect ==
  ASSUME NEW E, NEW o, NEW a, \A e \in E : e.plan = o => e.asked = a
  PROVE  (IF \E e \in E : e.plan = o THEN (CHOOSE e \in E : e.plan = o).asked ELSE None) =
           (IF \E e \in E : e.plan = o THEN a ELSE None)
<1>1. CASE \E e \in E : e.plan = o
  <2>1. /\ (CHOOSE e \in E : e.plan = o) \in E
        /\ (CHOOSE e \in E : e.plan = o).plan = o
    BY <1>1
  <2> QED BY <1>1, <2>1
<1>2. CASE ~ \E e \in E : e.plan = o
  BY <1>2
<1> QED BY <1>1, <1>2

LEMMA NothingSeen ==
  ASSUME plan' = plan, effects' = effects,
         \A q \in Execution : (Spent(q) <=> Spent(q)') /\ Carries(q)
  PROVE  UNCHANGED Reviewed!vars
<1>1. [o \in Plan |-> plan'[o].asked] = [o \in Plan |-> plan[o].asked] OBVIOUS
<1>2. {exec[r].plan : r \in {r \in Execution : Spent(r)}}'
        = {exec[r].plan : r \in {r \in Execution : Spent(r)}}
  BY DEF Carries
<1>3. \A o \in Plan : EffectOf(o)' = EffectOf(o) BY DEF EffectOf
<1> QED BY <1>1, <1>2, <1>3 DEF Reviewed!vars

LEMMA PlanningSeen ==
  ASSUME TypeOK, OperationInv,
         NEW p \in Process, NEW o \in Plan, NEW c \in Asked, PlanOperation(p, o, c)
  PROVE  Reviewed!Review(o, c)
<1>1. /\ plan'[o].asked = c /\ plan[o] = NoPlan
      /\ \A q \in Plan \ {o} : plan'[q] = plan[q]
  BY DEF PlanOperation, TypeOK
<1>2. plan[o].asked = None BY <1>1 DEF NoPlan
<1>3. exec' = exec /\ effects' = effects BY DEF PlanOperation, history
<1>4. {exec[r].plan : r \in {r \in Execution : Spent(r)}}'
        = {exec[r].plan : r \in {r \in Execution : Spent(r)}}
  BY <1>3 DEF Spent
<1>5. \A q \in Plan : EffectOf(q)' = EffectOf(q) BY <1>3 DEF EffectOf
<1>6. [q \in Plan |-> plan'[q].asked] = [[q \in Plan |-> plan[q].asked] EXCEPT ![o] = c]
  BY <1>1
<1> QED BY <1>2, <1>4, <1>5, <1>6 DEF Reviewed!Review

LEMMA ConsumingSeen ==
  ASSUME TypeOK, OperationInv,
         NEW r \in Execution, NEW p \in Process, NEW f \in Form, Consume(r, p, f)
  PROVE  Reviewed!Next \/ UNCHANGED Reviewed!vars
<1>1. /\ exec'[r].plan = f.plan /\ f.plan \in Plan
      /\ exec'[r].answer = (IF Verdict(p, f) = "ok" THEN "none" ELSE Verdict(p, f))
      /\ exec'[r].at # "waiting"
  <2>1. exec'[r] =
          [at |-> IF Verdict(p, f) = "ok" THEN "read" ELSE "answered",
           on |-> p, plan |-> f.plan, version |-> f.version, asked |-> f.asked,
           restores |-> plan[f.plan].restores, actor |-> Actor(f), used |-> now,
           answer |-> IF Verdict(p, f) = "ok" THEN "none" ELSE Verdict(p, f)]
    BY ConsumeTypes
  <2>2. f.plan \in Plan BY ConsumeTypes
  <2> QED BY <2>1, <2>2
<1>2. \A q \in Execution \ {r} : exec'[q] = exec[q] BY ConsumeTypes
<1>3. plan' = plan /\ effects' = effects /\ ~Spent(r)
  BY DEF Consume, history, Spent
<1>4. \A o \in Plan : EffectOf(o)' = EffectOf(o) BY <1>3 DEF EffectOf
<1>5. \A q \in Execution \ {r} : (Spent(q) <=> Spent(q)') BY <1>2 DEF Spent
<1> DEFINE used == {exec[q].plan : q \in {q \in Execution : Spent(q)}}
<1>6. CASE Verdict(p, f) = "ok"
  <2>1. Spent(r)' BY <1>1, <1>6 DEF Spent, Unspent
  <2>2. used' = used \union {f.plan}
    BY <1>1, <1>2, <1>3, <1>5, <2>1
  <2>3. f.plan \in store[p] BY <1>6, VerdictCodes
  <2>4. f.plan \notin used BY <2>3 DEF OperationInv, SingleUse
  <2>5. plan[f.plan].asked # None
    <3>1. plan[f.plan] \in Planned
      BY <1>1, <2>3 DEF TypeOK
    <3> QED BY <3>1, GuardedNames DEF Planned
  <2>6. [o \in Plan |-> plan'[o].asked] = [o \in Plan |-> plan[o].asked] BY <1>3
  <2>7. Reviewed!Spend(f.plan)
    BY <1>1, <1>4, <2>2, <2>4, <2>5, <2>6 DEF Reviewed!Spend
  <2> QED BY <1>1, <2>7 DEF Reviewed!Next
<1>7. CASE Verdict(p, f) # "ok"
  <2>1. ~Spent(r)' BY <1>1, <1>7, VerdictCodes DEF Spent, Unspent
  <2>2. used' = used BY <1>2, <1>3, <1>5, <2>1
  <2>3. [o \in Plan |-> plan'[o].asked] = [o \in Plan |-> plan[o].asked] BY <1>3
  <2> QED BY <1>4, <2>2, <2>3 DEF Reviewed!vars
<1> QED BY <1>6, <1>7

\* The first effect under a plan, and the only one.
LEMMA LandSeen ==
  ASSUME TypeOK, OperationInv, OperationInv', plan' = plan,
         NEW r \in Execution, Spent(r), Land(r), \A e \in effects : e.by # r,
         \A q \in Execution : (Spent(q) <=> Spent(q)') /\ Carries(q)
  PROVE  Reviewed!Next
<1> DEFINE new == [by |-> r, plan |-> exec[r].plan, asked |-> exec[r].asked,
                   restores |-> exec[r].restores, version |-> target.version,
                   paused |-> target.paused]
           used == {exec[q].plan : q \in {q \in Execution : Spent(q)}}
<1>1. PICK o \in Plan : o = exec[r].plan BY DEF OperationInv, FramesAreReviewed, Frame
<1>2. effects' = effects \union {new} /\ new.plan = o BY <1>1 DEF Land
<1>3. \A e \in effects : e.plan # o
  BY <1>1 DEF OperationInv, EffectAsReviewed, EffectsArePlanned, SingleUse, TypeOK
<1>4. \A q \in Plan : EffectOf(q) = (IF \E e \in effects : e.plan = q THEN plan[q].asked ELSE None)
  <2>1. \A q \in Plan : \A e \in effects : e.plan = q => e.asked = plan[q].asked
    BY DEF OperationInv, EffectAsReviewed
  <2> QED BY <2>1, AnyEffect DEF EffectOf
<1>5. \A q \in Plan :
        EffectOf(q)' = (IF \E e \in effects' : e.plan = q THEN plan[q].asked ELSE None)
  <2>1. \A q \in Plan : \A e \in effects' : e.plan = q => e.asked = plan[q].asked
    BY DEF OperationInv, EffectAsReviewed
  <2> QED BY <2>1, AnyEffect DEF EffectOf
<1> HIDE DEF new
<1>6. /\ EffectOf(o) = None /\ EffectOf(o)' = plan[o].asked
      /\ \A q \in Plan \ {o} : EffectOf(q)' = EffectOf(q)
  BY <1>1, <1>2, <1>3, <1>4, <1>5
<1>7. used' = used BY DEF Carries
<1>8. o \in used BY <1>1
<1>9. [q \in Plan |-> EffectOf(q)'] = [[q \in Plan |-> EffectOf(q)] EXCEPT ![o] = plan[o].asked]
  BY <1>6
<1>10. [q \in Plan |-> plan'[q].asked] = [q \in Plan |-> plan[q].asked] OBVIOUS
<1>11. Reviewed!TakeEffect(o)
  BY <1>1, <1>6, <1>7, <1>8, <1>9, <1>10 DEF Reviewed!TakeEffect
<1> QED BY <1>1, <1>11 DEF Reviewed!Next

LEMMA HandleSeen ==
  ASSUME TypeOK, OperationInv, OperationInv', NEW r \in Execution, Handle(r)
  PROVE  Reviewed!Next \/ UNCHANGED Reviewed!vars
<1>1. exec[r].at \in {"read", "dryrun", "apply", "record"}
  BY DEF Handle, Read, DryRun, Apply, Record
<1>2. exec[r] \in Frame /\ exec[r].answer = "none" /\ Spent(r)
  BY <1>1, FramesAreServed DEF TypeOK, OperationInv, RequestsAreOrdered, Spent, Unspent
<1>3. plan' = plan BY DEF Handle, Read, DryRun, Apply, Record, memory
<1>4. \/ \E next \in {"dryrun", "apply", "record"} : Goto(r, next)
      \/ \E code \in {"target_unavailable", "stale_plan", "dry_run_rejected",
                      "execution_failed", "accepted"} : Answer(r, code)
  BY DEF Handle, Read, DryRun, Apply, Record
<1>5. \A q \in Execution : (Spent(q) <=> Spent(q)') /\ Carries(q)
  BY <1>1, <1>2, <1>4, GoingOn, Answering
<1>6. effects' = effects \/ (exec[r].at = "apply" /\ Land(r))
  BY DEF Handle, Read, DryRun, Apply, Record, history
<1>7. exec[r].at = "apply" => \A e \in effects : e.by # r
  BY DEF OperationInv, RequestsAreOrdered, Before
<1> QED BY <1>2, <1>3, <1>5, <1>6, <1>7, NothingSeen, LandSeen

LEMMA LateSeen ==
  ASSUME TypeOK, OperationInv, OperationInv', NEW r \in Execution, OrphanLands(r)
  PROVE  Reviewed!Next \/ UNCHANGED Reviewed!vars
<1>1. plan' = plan /\ exec' = exec /\ (effects' = effects \/ Land(r)) /\ r \in orphans
  BY DEF OrphanLands, memory, history
<1>2. \A q \in Execution : (Spent(q) <=> Spent(q)') /\ Carries(q)
  BY <1>1 DEF Spent, Carries
<1>3. Spent(r) /\ \A e \in effects : e.by # r
  BY <1>1 DEF OperationInv, RequestsAreOrdered
<1> QED BY <1>1, <1>2, <1>3, NothingSeen, LandSeen

LEMMA OtherwiseSeen ==
  ASSUME TypeOK, OperationInv,
         \/ \E r \in Execution, f \in Form : Refuse(r, f)
         \/ \E p \in Process : Crash(p)
         \/ TargetChanges \/ Tick \/ UNCHANGED vars
  PROVE  UNCHANGED Reviewed!vars
<1>1. plan' = plan /\ effects' = effects
  BY DEF Refuse, Crash, TargetChanges, Tick, vars, memory, history
<1>2. CASE \E r \in Execution, f \in Form : Refuse(r, f)
  <2>1. PICK r \in Execution, f \in Form : Refuse(r, f) BY <1>2
  <2>2. ~Spent(r) /\ ~Spent(r)' /\ \A q \in Execution \ {r} : exec'[q] = exec[q]
    BY <2>1, RefuseTypes DEF Refuse, Spent
  <2>3. \A q \in Execution : (Spent(q) <=> Spent(q)')
    BY <2>2 DEF Spent
  <2>4. {exec[q].plan : q \in {q \in Execution : Spent(q)}}'
          = {exec[q].plan : q \in {q \in Execution : Spent(q)}}
    BY <2>2, <2>3
  <2>5. \A o \in Plan : EffectOf(o)' = EffectOf(o) BY <1>1 DEF EffectOf
  <2>6. [o \in Plan |-> plan'[o].asked] = [o \in Plan |-> plan[o].asked] BY <1>1
  <2> QED BY <2>4, <2>5, <2>6 DEF Reviewed!vars
<1>3. CASE \E p \in Process : Crash(p)
  <2>1. \A q \in Execution :
          /\ Carries(q) /\ exec'[q].answer = exec[q].answer
          /\ exec'[q].at = exec[q].at \/ (exec'[q].at = "answered" /\ exec[q].at # "waiting")
    <3>1. PICK p \in Process : Crash(p) BY <1>3
    <3>2. \A q \in Execution :
            IF exec[q].on = p /\ exec[q].at # "answered"
              THEN exec[q] \in Frame /\ exec'[q] = [exec[q] EXCEPT !.at = "answered"]
              ELSE exec'[q] = exec[q]
      BY <3>1, CrashTypes
    <3> QED BY <3>2 DEF Frame, Carries
  <2>2. \A q \in Execution : (Spent(q) <=> Spent(q)') /\ Carries(q)
    BY <2>1 DEF Spent
  <2> QED BY <1>1, <2>2, NothingSeen
<1>4. CASE TargetChanges \/ Tick \/ UNCHANGED vars
  <2>1. exec' = exec BY <1>4 DEF TargetChanges, Tick, vars
  <2>2. \A q \in Execution : (Spent(q) <=> Spent(q)') /\ Carries(q)
    BY <2>1 DEF Spent, Carries
  <2> QED BY <1>1, <2>2, NothingSeen
<1> QED BY <1>2, <1>3, <1>4

LEMMA ReviewedStep ==
  TypeOK /\ OperationInv /\ OperationInv' /\ [Next]_vars => [Reviewed!Next]_(Reviewed!vars)
<1> SUFFICES ASSUME TypeOK, OperationInv, OperationInv', [Next]_vars
             PROVE  Reviewed!Next \/ UNCHANGED Reviewed!vars
  OBVIOUS
<1>1. CASE \E p \in Process, o \in Plan, c \in Asked : PlanOperation(p, o, c)
  BY <1>1, PlanningSeen DEF Reviewed!Next
<1>2. CASE \E r \in Execution, p \in Process, f \in Form : Consume(r, p, f)
  BY <1>2, ConsumingSeen
<1>3. CASE \E r \in Execution : Handle(r) \/ OrphanLands(r)
  BY <1>3, HandleSeen, LateSeen
<1> QED BY <1>1, <1>2, <1>3, Actions, OtherwiseSeen

\* A change takes effect once, as reviewed, and after its plan was used up, for any
\* number of plans, requests, processes and restarts.
THEOREM ReviewedChangeImplemented == Spec => ImplementsReviewedChange
BY GuardedTypes, Operations, ReviewedInit, ReviewedStep, PTL
   DEF Spec, ImplementsReviewedChange, Reviewed!Spec
=============================================================================
