---------------------------- MODULE RunbooksProofs ----------------------------
(***************************************************************************)
(* Proofs about Runbooks.  Of TemporaryScale: types, that a restoration    *)
(* takes effect on what the script recorded only, and, without the durable *)
(* store, that the exit status says whether it did.  Of both scripts in    *)
(* any order: that the lab promotes the healthy candidate only and leaves  *)
(* traffic at the stable slot.                                             *)
(***************************************************************************)
EXTENDS Runbooks, TLAPS

Object == [uid : Nat, generation : Nat, rv : Nat, replicas : Count]

LEMMA ScaledTypes ==
  ASSUME TypeOK, NEW n \in Count
  PROVE  /\ Scaled(n) \in Object /\ Scaled(n).replicas = n
         /\ Scaled(n).rv \in {object.rv, object.rv + 1}
<1>1. object \in Object /\ object.generation + 1 \in Nat /\ object.rv + 1 \in Nat
  BY DEF TypeOK, Object
<1>2. CASE n = object.replicas
  BY <1>1, <1>2 DEF Scaled
<1>3. CASE n # object.replicas
  <2>1. Scaled(n) = [object EXCEPT !.replicas = n, !.generation = object.generation + 1,
                                   !.rv = object.rv + 1]
    BY <1>3 DEF Scaled
  <2> QED BY <1>1, <2>1 DEF Object
<1> QED BY <1>2, <1>3

\* What a plan that takes effect does to the Deployment.
LEMMA LandTypes ==
  ASSUME TypeOK, NEW p \in Plans, Lands(p)
  PROVE  /\ object' \in Object /\ author' \in Plans \union {"other"}
         /\ object.rv = reviewed[p] /\ object'.replicas = CountOf(p)
         /\ object' = object \/ object'.rv = object.rv + 1
         /\ over' = IF p = "restore" THEN over \union {[before |-> object, by |-> author]}
                                     ELSE over
<1>1. CountOf(p) \in Count BY RunbookBounds DEF CountOf, TypeOK
<1>2. /\ Scaled(CountOf(p)) \in Object /\ Scaled(CountOf(p)).rv \in {object.rv, object.rv + 1}
  BY <1>1, ScaledTypes
<1>3. object.rv \in Nat /\ object.rv + 1 \in Nat BY DEF TypeOK
<1>4. object' = [Scaled(CountOf(p)) EXCEPT !.rv = IF durable THEN object.rv + 1 ELSE @]
  BY DEF Lands
<1>5. object' \in Object /\ object'.replicas = CountOf(p)
  BY <1>2, <1>3, <1>4, ScaledTypes, <1>1 DEF Object
<1>6. object' = object \/ object'.rv = object.rv + 1
  <2>1. CASE durable
    BY <1>2, <1>4, <2>1 DEF Object
  <2>2. CASE ~durable
    <3>1. object' = Scaled(CountOf(p)) BY <1>2, <1>4, <2>2 DEF Object
    <3>2. object \in Object BY DEF TypeOK, Object
    <3> QED BY <3>1, <3>2 DEF Scaled, Object
  <2> QED BY <2>1, <2>2
<1>7. author' \in Plans \union {"other"} BY DEF Lands, TypeOK
<1> QED BY <1>5, <1>6, <1>7 DEF Lands, Current

\* Others leave an object of a higher resourceVersion.
LEMMA OthersTypes ==
  ASSUME TypeOK, ClusterChanges
  PROVE  /\ object' \in Object /\ author' \in Plans \union {"other"}
         /\ object'.rv = object.rv + 1 /\ changes' \in 0..MaxChanges
<1>0. object \in Object /\ author \in Plans \union {"other"} BY DEF TypeOK, Object
<1>1. object.rv + 1 \in Nat /\ object.generation + 1 \in Nat /\ object.uid + 1 \in Nat
  BY DEF TypeOK
<1>2. changes' \in 0..MaxChanges BY RunbookBounds DEF ClusterChanges, TypeOK
<1>3. CASE StatusChanges
  <2>1. object' = [object EXCEPT !.rv = object.rv + 1] /\ author' = author
    BY <1>3 DEF StatusChanges
  <2> QED BY <1>0, <1>1, <1>2, <2>1 DEF Object
<1>4. CASE OthersEdit
  <2>1. object' = [object EXCEPT !.generation = object.generation + 1, !.rv = object.rv + 1]
        /\ author' = author
    BY <1>4 DEF OthersEdit
  <2> QED BY <1>0, <1>1, <1>2, <2>1 DEF Object
<1>5. ASSUME NEW n \in Count, OthersScale(n) PROVE /\ object' \in Object /\ author' = "other"
                                                   /\ object'.rv = object.rv + 1
  BY <1>1, <1>5 DEF OthersScale, Scaled, TypeOK, Object
<1>6. ASSUME NEW n \in Count, OthersReplace(n) PROVE /\ object' \in Object /\ author' = "other"
                                                     /\ object'.rv = object.rv + 1
  BY <1>1, <1>6 DEF OthersReplace, TypeOK, Object
<1> QED BY <1>2, <1>3, <1>4, <1>5, <1>6 DEF ClusterChanges

-----------------------------------------------------------------------------
(* Types.                                                                   *)

\* A command fails once before the trap, and once in it.
Early == {"diagnose", "plan", "execute", "sleep"}

FailuresAreFew ==
  /\ at \in Early => failures = 0
  /\ at \in Running => failures \in 0..1
  /\ failures \in 0..2

LEMMA InitTypes == Init => TypeOK /\ FailuresAreFew
<1> SUFFICES ASSUME Init PROVE TypeOK /\ FailuresAreFew
  OBVIOUS
<1>1. object \in Object BY DEF Init, Object
<1>2. changes \in 0..MaxChanges BY RunbookBounds DEF Init
<1> QED BY <1>1, <1>2 DEF Init, TypeOK, FailuresAreFew, Running, Early, Object, Plans

\* A step of the script that is not a plan taking effect.
LEMMA ScriptTypes ==
  ASSUME TypeOK, FailuresAreFew, UNCHANGED durable,
         Diagnose \/ Plan \/ Sleep \/ ReviewRestoration \/ Check \/ CommandFails \/ Interrupt
  PROVE  /\ TypeOK' /\ FailuresAreFew'
         /\ UNCHANGED <<cluster, changes, over>>
<1>1. UNCHANGED <<object, author, approved, changes, over>>
  BY DEF Diagnose, Plan, Sleep, ReviewRestoration, Review, Check, CommandFails, Interrupt, cluster
<1>2. first' \in Object /\ expected' \in [uid : Nat, generation : Nat] /\ reviewed' \in [Plans -> Nat]
  <2>1. CASE Diagnose
    <3>1. Predicted(object) \in Nat /\ object.uid \in Nat BY DEF Predicted, TypeOK
    <3> QED BY <2>1, <3>1 DEF Diagnose, TypeOK, Object
  <2>2. CASE Plan \/ ReviewRestoration
    <3>1. object.rv \in Nat BY DEF TypeOK
    <3> QED BY <2>2, <3>1 DEF Plan, ReviewRestoration, Review, TypeOK, Object
  <2>3. CASE Sleep \/ Check \/ CommandFails \/ Interrupt
    BY <2>3 DEF Sleep, Check, CommandFails, Interrupt, TypeOK, Object
  <2> QED BY <2>1, <2>2, <2>3
<1>3. failures \in Nat /\ failures \in 0..2 BY DEF FailuresAreFew
<1>4. /\ at' \in Running \union {"exited", "killed"} /\ exit' \in {0, 1, 130}
      /\ failures' \in 0..2 /\ FailuresAreFew'
  <2>1. CASE Diagnose \/ Plan \/ Sleep \/ ReviewRestoration
    BY <1>3, <2>1 DEF Diagnose, Plan, Sleep, ReviewRestoration, Review, Continues, TypeOK,
       FailuresAreFew, Early, Running
  <2>2. CASE Check
    BY <1>3, <2>2 DEF Check, Continues, TypeOK, FailuresAreFew, Early, Running
  <2>3. CASE CommandFails
    BY <1>3, <2>3 DEF CommandFails, Fails, TypeOK, FailuresAreFew, Early, Running
  <2>4. CASE Interrupt
    BY <1>3, <2>4 DEF Interrupt, TypeOK, FailuresAreFew, Early, Running
  <2> QED BY <2>1, <2>2, <2>3, <2>4
<1> QED BY <1>1, <1>2, <1>4 DEF TypeOK, Object, cluster

\* A command that executes a plan.
LEMMA ExecuteTypes ==
  ASSUME TypeOK, FailuresAreFew, UNCHANGED durable,
         NEW p \in Plans, NEW next \in {"sleep", "exited"}, Execute(p, next),
         p = "scale" <=> next = "sleep"
  PROVE  TypeOK' /\ FailuresAreFew'
<1>1. /\ object' \in Object /\ author' \in Plans \union {"other"} /\ approved' \subseteq Plans
  <2>1. CASE Lands(p) /\ UNCHANGED approved
    BY <2>1, LandTypes DEF TypeOK
  <2>2. CASE approved' = approved \union {p} /\ NothingLands
    BY <2>2 DEF NothingLands, TypeOK, Object
  <2> QED BY <2>1, <2>2 DEF Execute
<1>2. UNCHANGED <<first, expected, reviewed, changes>> BY DEF Execute
<1>3. at \in {"execute", "restore"} /\ (at = "execute" <=> next = "sleep") BY DEF Execute
<1>4. failures \in Nat /\ failures \in 0..2 BY DEF FailuresAreFew
<1>5. /\ at' \in Running \union {"exited", "killed"} /\ exit' \in {0, 1, 130}
      /\ failures' \in 0..2 /\ FailuresAreFew'
  <2>1. CASE Continues(next)
    BY <1>3, <1>4, <2>1 DEF Continues, TypeOK, FailuresAreFew, Early, Running
  <2>2. CASE Fails
    BY <1>3, <1>4, <2>2 DEF Fails, TypeOK, FailuresAreFew, Early, Running
  <2> QED BY <2>1, <2>2 DEF Execute
<1> QED BY <1>1, <1>2, <1>5 DEF TypeOK, Object

LEMMA WorldTypes ==
  ASSUME TypeOK, FailuresAreFew, UNCHANGED durable,
         ClusterChanges \/ (\E p \in Plans : Reconcile(p)) \/ UNCHANGED vars
  PROVE  TypeOK' /\ FailuresAreFew'
<1>1. UNCHANGED script BY DEF ClusterChanges, Reconcile, vars
<1>2. FailuresAreFew' BY <1>1 DEF FailuresAreFew, script
<1>3. CASE ClusterChanges
  BY <1>1, <1>2, <1>3, OthersTypes DEF ClusterChanges, TypeOK, Object, script
<1>4. ASSUME NEW p \in Plans, Reconcile(p) PROVE TypeOK'
  <2>1. CASE Lands(p)
    BY <1>1, <1>4, <2>1, LandTypes DEF Reconcile, TypeOK, Object, script
  <2>2. CASE NothingLands
    BY <1>1, <1>4, <2>2 DEF Reconcile, NothingLands, TypeOK, script
  <2> QED BY <1>4, <2>1, <2>2 DEF Reconcile
<1>5. CASE UNCHANGED vars
  BY <1>2, <1>5 DEF vars, cluster, script, TypeOK
<1> QED BY <1>2, <1>3, <1>4, <1>5

\* The steps, one by one.
LEMMA Steps ==
  ASSUME [Next]_vars
  PROVE  \/ Diagnose \/ Plan \/ Sleep \/ ReviewRestoration \/ Check \/ CommandFails \/ Interrupt
         \/ Execute("scale", "sleep") \/ Execute("restore", "exited")
         \/ ClusterChanges \/ (\E p \in Plans : Reconcile(p)) \/ UNCHANGED vars
BY DEF Next

LEMMA StartedOnce == ASSUME [Next]_vars PROVE UNCHANGED durable
BY DEF Next, vars

LEMMA StepTypes == TypeOK /\ FailuresAreFew /\ [Next]_vars => TypeOK' /\ FailuresAreFew'
<1> SUFFICES ASSUME TypeOK, FailuresAreFew, [Next]_vars PROVE TypeOK' /\ FailuresAreFew'
  OBVIOUS
<1>1. "scale" \in Plans /\ "restore" \in Plans BY DEF Plans
<1> QED BY <1>1, Steps, StartedOnce, ScriptTypes, ExecuteTypes, WorldTypes

LEMMA ScaleInvariant == Spec => [](TypeOK /\ FailuresAreFew)
BY InitTypes, StepTypes, PTL DEF Spec

\* However the script is interrupted, it comes to its trap once, and a command fails
\* once before the trap and once in it.
THEOREM ScaleTypes == Spec => []TypeOK
BY ScaleInvariant, PTL

-----------------------------------------------------------------------------
(* What a restoration takes effect on.                                      *)

\* What lines 28-30 look for.
Expected(o) ==
  o.uid = expected.uid /\ o.generation = expected.generation /\ o.replicas = Temporary

\* No review is ahead of the Deployment; as long as the restoration is current, the
\* Deployment is the one that was checked; and a restoration is the end.
ReviewsArePast == \A p \in Plans : reviewed[p] <= object.rv

CheckedIsCurrent ==
  (at = "restore" \/ "restore" \in approved) /\ object.rv = reviewed["restore"] =>
    Expected(object)

RestorationEnds == "restore" \in approved \/ over # {} => at \in {"exited", "killed"}

RestoreInv ==
  ReviewsArePast /\ CheckedIsCurrent /\ RestorationEnds /\ RestoresWhatMatches

LEMMA InitRestore == Init => RestoreInv
BY DEF Init, RestoreInv, ReviewsArePast, CheckedIsCurrent, RestorationEnds, RestoresWhatMatches

LEMMA ScriptRestores ==
  ASSUME TypeOK, FailuresAreFew, RestoreInv,
         Diagnose \/ Plan \/ Sleep \/ ReviewRestoration \/ Check \/ CommandFails \/ Interrupt
  PROVE  RestoreInv'
<1>1. UNCHANGED <<object, approved, over>> /\ at \in Running
  BY DEF Diagnose, Plan, Sleep, ReviewRestoration, Review, Check, CommandFails, Interrupt, cluster,
     Running
<1>2. "restore" \notin approved /\ over = {}
  BY <1>1 DEF RestoreInv, RestorationEnds, Running
<1>3. object.rv \in Nat BY DEF TypeOK
<1>4. ReviewsArePast'
  <2>1. CASE Plan \/ ReviewRestoration
    BY <1>1, <1>3, <2>1 DEF Plan, ReviewRestoration, Review, RestoreInv, ReviewsArePast, TypeOK
  <2>2. CASE Diagnose \/ Sleep \/ Check \/ CommandFails \/ Interrupt
    BY <1>1, <2>2 DEF Diagnose, Sleep, Check, CommandFails, Interrupt, RestoreInv, ReviewsArePast
  <2> QED BY <2>1, <2>2
<1>5. at' = "restore" => Expected(object)'
  <2>1. CASE Check
    BY <1>1, <2>1 DEF Check, Continues, Expected
  <2>2. CASE Diagnose \/ Plan \/ Sleep \/ ReviewRestoration \/ CommandFails \/ Interrupt
    BY <2>2 DEF Diagnose, Plan, Sleep, ReviewRestoration, Review, Continues, CommandFails, Fails,
       Interrupt
  <2> QED BY <2>1, <2>2
<1> QED BY <1>1, <1>2, <1>4, <1>5
        DEF RestoreInv, CheckedIsCurrent, RestorationEnds, RestoresWhatMatches

\* A restoration that takes effect is current.
LEMMA LandRestores ==
  ASSUME TypeOK, RestoreInv, NEW p \in Plans, Lands(p), expected' = expected,
         p = "restore" => at = "restore" \/ "restore" \in approved
  PROVE  RestoresWhatMatches'
<1>1. CASE p = "restore"
  <2>1. Expected(object)
    BY <1>1, LandTypes DEF RestoreInv, CheckedIsCurrent
  <2>2. over' = over \union {[before |-> object, by |-> author]}
    BY <1>1 DEF Lands
  <2> QED BY <2>1, <2>2 DEF RestoreInv, RestoresWhatMatches, Expected
<1>2. CASE p # "restore"
  BY <1>2 DEF Lands, RestoreInv, RestoresWhatMatches
<1> QED BY <1>1, <1>2

LEMMA ExecuteRestores ==
  ASSUME TypeOK, RestoreInv, NEW p \in Plans, NEW next \in {"sleep", "exited"}, Execute(p, next),
         p = "scale" <=> next = "sleep"
  PROVE  RestoreInv'
<1>1. UNCHANGED <<first, expected, reviewed, changes>> BY DEF Execute
<1>2. p = "restore" => at = "restore" /\ at' = "exited"
  BY DEF Execute, Continues, Fails, Plans
<1>3. p = "scale" => at = "execute" /\ at' \in {"sleep", "review"}
  BY DEF Execute, Continues, Fails, Plans
<1>4. /\ approved' \subseteq approved \union {p}
      /\ Lands(p) \/ (UNCHANGED object /\ UNCHANGED over)
  BY DEF Execute, NothingLands
<1>5. object'.rv \in Nat /\ object.rv \in Nat /\ (object' = object \/ object'.rv = object.rv + 1)
  BY <1>4, LandTypes DEF TypeOK, Object
<1>6. ReviewsArePast'
  <2>1. \A q \in Plans : reviewed[q] \in Nat /\ reviewed[q] <= object.rv
    BY DEF TypeOK, RestoreInv, ReviewsArePast
  <2>2. object.rv <= object'.rv BY <1>5
  <2> QED BY <1>1, <1>5, <2>1, <2>2 DEF ReviewsArePast
<1>7. RestoresWhatMatches'
  <2>1. CASE Lands(p) BY <1>1, <1>2, <2>1, LandRestores
  <2>2. CASE UNCHANGED over BY <1>1, <2>2 DEF RestoreInv, RestoresWhatMatches
  <2> QED BY <1>4, <2>1, <2>2
<1>8. "restore" \notin approved /\ over = {}
  BY <1>2, <1>3 DEF RestoreInv, RestorationEnds, Plans
<1>9. CheckedIsCurrent'
  <2>1. at' # "restore" BY <1>2, <1>3 DEF Plans
  <2>2. "restore" \in approved' => at = "restore" /\ object' = object
    BY <1>2, <1>8 DEF Execute, NothingLands
  <2> QED BY <1>1, <2>1, <2>2 DEF RestoreInv, CheckedIsCurrent, Expected
<1>10. RestorationEnds'
  <2>1. "restore" \in approved' => p = "restore" BY <1>4, <1>8
  <2>2. over' # {} => p = "restore" BY <1>4, <1>8 DEF Lands
  <2> QED BY <1>2, <2>1, <2>2 DEF RestorationEnds
<1> QED BY <1>6, <1>7, <1>9, <1>10 DEF RestoreInv

LEMMA WorldRestores ==
  ASSUME TypeOK, RestoreInv, ClusterChanges \/ (\E p \in Plans : Reconcile(p)) \/ UNCHANGED vars
  PROVE  RestoreInv'
<1>1. UNCHANGED script /\ approved' \subseteq approved
  BY DEF ClusterChanges, Reconcile, vars, cluster
<1>2. /\ object'.rv \in Nat /\ object.rv \in Nat
      /\ object' = object \/ object'.rv = object.rv + 1
  <2>1. CASE ClusterChanges BY <2>1, OthersTypes DEF TypeOK, Object
  <2>2. ASSUME NEW p \in Plans, Reconcile(p)
        PROVE  object'.rv \in Nat /\ (object' = object \/ object'.rv = object.rv + 1)
    BY <2>2, LandTypes DEF Reconcile, NothingLands, TypeOK, Object
  <2>3. CASE UNCHANGED vars BY <2>3 DEF vars, cluster, TypeOK
  <2>4. object.rv \in Nat BY DEF TypeOK
  <2> QED BY <2>1, <2>2, <2>3, <2>4
<1>3. \A q \in Plans : reviewed[q] \in Nat /\ reviewed[q] <= object.rv
  BY DEF TypeOK, RestoreInv, ReviewsArePast
<1>4. ReviewsArePast'
  <2>1. object.rv <= object'.rv BY <1>2
  <2> QED BY <1>1, <1>2, <1>3, <2>1 DEF ReviewsArePast, script
<1>5. CheckedIsCurrent'
  <2>1. "restore" \in Plans BY DEF Plans
  <2>2. object' = object \/ object'.rv # reviewed["restore"] BY <1>2, <1>3, <2>1
  <2> QED BY <1>1, <2>2 DEF RestoreInv, CheckedIsCurrent, Expected, script
<1>6. over' # {} => over # {} \/ "restore" \in approved
  BY DEF ClusterChanges, Reconcile, Lands, NothingLands, vars
<1>7. RestorationEnds' BY <1>1, <1>6 DEF RestoreInv, RestorationEnds, script
<1>8. RestoresWhatMatches'
  <2>1. CASE UNCHANGED over
    BY <1>1, <2>1 DEF RestoreInv, RestoresWhatMatches, script
  <2>2. ASSUME NEW p \in Plans, Reconcile(p), Lands(p) PROVE RestoresWhatMatches'
    BY <1>1, <2>2, LandRestores DEF Reconcile, script
  <2> QED BY <2>1, <2>2 DEF ClusterChanges, Reconcile, NothingLands, vars
<1> QED BY <1>4, <1>5, <1>7, <1>8 DEF RestoreInv

LEMMA StepRestores ==
  TypeOK /\ FailuresAreFew /\ RestoreInv /\ [Next]_vars => RestoreInv'
<1> SUFFICES ASSUME TypeOK, FailuresAreFew, RestoreInv, [Next]_vars PROVE RestoreInv'
  OBVIOUS
<1>1. "scale" \in Plans /\ "restore" \in Plans BY DEF Plans
<1> QED BY <1>1, Steps, ScriptRestores, ExecuteRestores, WorldRestores

\* The former count is put back on the Deployment that was recorded, unchanged, also
\* when a controller does so after the script has ended.
THEOREM RestorationMatches == Spec => []RestoresWhatMatches
<1>1. RestoreInv => RestoresWhatMatches BY DEF RestoreInv
<1> QED BY <1>1, ScaleInvariant, InitRestore, StepRestores, PTL DEF Spec

-----------------------------------------------------------------------------
(* Without the durable store: what the script says, and what it leaves.     *)

ExitIsFounded == ~durable => approved = {} /\ ExitStatusIsTrue

LEMMA InitFounded == Init => ExitIsFounded
BY DEF Init, ExitIsFounded, ExitStatusIsTrue

LEMMA StepFounded ==
  ASSUME ExitIsFounded, [Next]_vars
  PROVE  ExitIsFounded'
<1> SUFFICES ASSUME ~durable' PROVE approved' = {} /\ ExitStatusIsTrue'
  BY DEF ExitIsFounded
<1>0. ~durable BY StartedOnce
<1>1. approved' = {}
  <2>1. \A p \in Plans : ~Reconcile(p) BY <1>0 DEF ExitIsFounded, Reconcile
  <2>2. CASE Execute("scale", "sleep") \/ Execute("restore", "exited")
    BY <1>0, <2>2 DEF Execute, ExitIsFounded
  <2>3. CASE ClusterChanges \/ UNCHANGED vars
    BY <1>0, <2>3 DEF ClusterChanges, vars, cluster, ExitIsFounded
  <2>4. CASE \/ Diagnose \/ Plan \/ Sleep \/ ReviewRestoration \/ Check
             \/ CommandFails \/ Interrupt
    BY <1>0, <2>4 DEF Diagnose, Plan, Sleep, ReviewRestoration, Review, Check, CommandFails, Interrupt,
       cluster, ExitIsFounded
  <2> QED BY <2>1, <2>2, <2>3, <2>4, Steps
<1>2. ExitStatusIsTrue'
  <2>1. CASE Execute("restore", "exited")
    <3>1. over' # {} BY <1>0, <2>1 DEF Execute, Lands
    <3> QED BY <3>1 DEF ExitStatusIsTrue
  <2>2. CASE Execute("scale", "sleep")
    BY <2>2 DEF Execute, Continues, Fails, ExitStatusIsTrue
  <2>3. CASE ClusterChanges \/ UNCHANGED vars
    BY <1>0, <2>3 DEF ClusterChanges, vars, script, ExitIsFounded, ExitStatusIsTrue
  <2>4. CASE Diagnose \/ Plan \/ Sleep \/ ReviewRestoration
    BY <2>4 DEF Diagnose, Plan, Sleep, ReviewRestoration, Review, Continues, ExitStatusIsTrue
  <2>5. CASE Check \/ CommandFails \/ Interrupt
    BY <2>5 DEF Check, Continues, CommandFails, Fails, Interrupt, ExitStatusIsTrue
  <2>6. \A p \in Plans : ~Reconcile(p) BY <1>0 DEF ExitIsFounded, Reconcile
  <2> QED BY <2>1, <2>2, <2>3, <2>4, <2>5, <2>6, Steps
<1> QED BY <1>1, <1>2

\* Without the durable store, a script that does not exit with 1 has restored.
THEOREM ExitStatusTold == Spec => []ExitStatusIsTrue
<1>1. ExitIsFounded /\ [Next]_vars => ExitIsFounded' BY StepFounded
<1>2. ExitIsFounded => ExitStatusIsTrue BY DEF ExitIsFounded, ExitStatusIsTrue
<1> QED BY <1>1, <1>2, InitFounded, PTL DEF Spec

\* As long as nothing fails and nobody interferes, the Deployment is the one the
\* script counts on.
Undisturbed ==
  ~durable /\ changes = 0 /\ failures = 0 =>
    /\ exit = 0 /\ at # "killed"
    /\ at # "diagnose" => /\ expected.uid = first.uid
                          /\ expected.generation = Predicted(first)
    /\ at \in {"plan", "execute"} => object = first
    /\ at \in {"sleep", "review", "check", "restore"} => Expected(object)
    /\ at = "exited" => object.replicas = first.replicas

LEMMA InitUndisturbed == Init => Undisturbed
BY DEF Init, Undisturbed

\* Without a failure the temporary count is set, and leads to the predicted generation.
LEMMA ExecuteUndisturbed ==
  ASSUME ~durable, UNCHANGED durable, TypeOK, Undisturbed, changes' = 0, failures' = 0,
         FailuresAreFew, Execute("scale", "sleep")
  PROVE  Undisturbed'
<1>1. failures + 1 # 0 BY DEF FailuresAreFew
<1>2. Continues("sleep") BY <1>1 DEF Execute, Fails
<1>3. changes = 0 /\ failures = 0 /\ at = "execute" /\ Lands("scale")
      /\ UNCHANGED <<first, expected, exit>> /\ at' = "sleep"
  BY <1>2 DEF Execute, Continues
<1>4. object = first /\ exit = 0 /\ expected.uid = first.uid
      /\ expected.generation = Predicted(first)
  BY <1>3 DEF Undisturbed
<1>5. object' = [Scaled(Temporary) EXCEPT !.rv = Scaled(Temporary).rv]
  BY <1>3 DEF Lands, CountOf
<1>6. Expected(object)'
  <2>1. Temporary \in Count BY RunbookBounds
  <2>2. Scaled(Temporary) \in Object BY <2>1, ScaledTypes
  <2>3. object' = Scaled(Temporary) BY <1>5, <2>2 DEF Object
  <2>4. object \in Object BY DEF TypeOK, Object
  <2>5. CASE object.replicas = Temporary
    BY <1>3, <1>4, <2>3, <2>5 DEF Scaled, Expected, Predicted
  <2>6. CASE object.replicas # Temporary
    <3>1. object' = [object EXCEPT !.replicas = Temporary, !.generation = object.generation + 1,
                                   !.rv = object.rv + 1]
      BY <2>3, <2>6 DEF Scaled
    <3> QED BY <1>3, <1>4, <2>4, <2>6, <3>1 DEF Expected, Predicted, Object
  <2> QED BY <2>5, <2>6
<1> QED BY <1>3, <1>4, <1>6 DEF Undisturbed, Expected

LEMMA RestoreUndisturbed ==
  ASSUME ~durable, UNCHANGED durable, TypeOK, Undisturbed, changes' = 0, failures' = 0,
         FailuresAreFew, Execute("restore", "exited")
  PROVE  Undisturbed'
<1>1. failures + 1 # 0 BY DEF FailuresAreFew
<1>2. Continues("exited") BY <1>1 DEF Execute, Fails
<1>3. changes = 0 /\ failures = 0 /\ at = "restore" /\ Lands("restore")
      /\ UNCHANGED <<first, expected, exit>> /\ at' = "exited"
  BY <1>2 DEF Execute, Continues
<1>4. object'.replicas = first.replicas
  BY <1>3, LandTypes DEF CountOf, Plans
<1>5. Predicted(first)' = Predicted(first) BY <1>3 DEF Predicted
<1> QED BY <1>3, <1>4, <1>5 DEF Undisturbed

LEMMA StepUndisturbed ==
  ASSUME TypeOK, FailuresAreFew, ExitIsFounded, Undisturbed, [Next]_vars
  PROVE  Undisturbed'
<1> SUFFICES ASSUME ~durable', changes' = 0, failures' = 0 PROVE Undisturbed'
  BY DEF Undisturbed
<1>0. ~durable /\ UNCHANGED durable BY StartedOnce
<1>1. failures + 1 # 0 /\ changes + 1 # 0 BY DEF FailuresAreFew, TypeOK
<1>2. ~ClusterChanges /\ ~CommandFails /\ ~Interrupt /\ \A p \in Plans : ~Reconcile(p)
  BY <1>0, <1>1 DEF ClusterChanges, CommandFails, Fails, Interrupt, ExitIsFounded, Reconcile
<1>3. CASE Diagnose
  <2>1. /\ first' = object /\ object' = object /\ at' = "plan" /\ exit' = exit
        /\ expected' = [uid |-> object.uid, generation |-> Predicted(object)]
        /\ changes = 0 /\ failures = 0
    BY <1>3 DEF Diagnose, Continues, cluster
  <2>2. Predicted(first)' = Predicted(object) BY <2>1 DEF Predicted
  <2> QED BY <1>0, <1>3, <2>1, <2>2 DEF Undisturbed, Diagnose
<1>4. CASE Plan \/ Sleep \/ ReviewRestoration
  <2>1. UNCHANGED <<object, first, expected, exit, changes, failures>>
    BY <1>4 DEF Plan, Sleep, ReviewRestoration, Review, Continues, cluster
  <2>2. Predicted(first)' = Predicted(first) /\ (Expected(object)' <=> Expected(object))
    BY <2>1 DEF Predicted, Expected
  <2>3. \/ at = "plan" /\ at' = "execute"
        \/ at = "sleep" /\ at' = "review"
        \/ at = "review" /\ at' = "check"
    BY <1>4 DEF Plan, Sleep, ReviewRestoration, Review, Continues
  <2> QED BY <1>0, <2>1, <2>2, <2>3 DEF Undisturbed
<1>5. CASE Check
  <2>1. UNCHANGED <<object, first, expected, changes>> /\ at = "check" /\ failures = 0
    BY <1>5 DEF Check, Continues, cluster
  <2>2. Expected(object) BY <1>0, <2>1 DEF Undisturbed
  <2>3. at' = "restore" /\ exit' = exit
    BY <1>5, <2>2 DEF Check, Continues, Expected
  <2>4. Predicted(first)' = Predicted(first) /\ Expected(object)'
    BY <2>1, <2>2 DEF Predicted, Expected
  <2> QED BY <1>0, <2>1, <2>3, <2>4 DEF Undisturbed
<1>6. CASE UNCHANGED vars
  <2>1. UNCHANGED <<object, first, expected, exit, changes, failures, at>>
    BY <1>6 DEF vars, cluster, script
  <2>2. Predicted(first)' = Predicted(first) /\ (Expected(object)' <=> Expected(object))
    BY <2>1 DEF Predicted, Expected
  <2> QED BY <1>0, <2>1, <2>2 DEF Undisturbed
<1> QED BY <1>0, <1>2, <1>3, <1>4, <1>5, <1>6, Steps, ExecuteUndisturbed, RestoreUndisturbed

\* Without the durable store, failures and changes by others, the former count is back.
THEOREM RestoresUndisturbed == Spec => []UndisturbedItRestores
<1>1. ExitIsFounded /\ [Next]_vars => ExitIsFounded' BY StepFounded
<1>2. TypeOK /\ FailuresAreFew /\ ExitIsFounded /\ Undisturbed /\ [Next]_vars => Undisturbed'
  BY StepUndisturbed
<1>3. Undisturbed => UndisturbedItRestores BY DEF Undisturbed, UndisturbedItRestores
<1> QED BY <1>1, <1>2, <1>3, InitFounded, InitUndisturbed, ScaleInvariant, PTL DEF Spec

-----------------------------------------------------------------------------
(* The release lab.                                                         *)

Slots == {"stable", "candidate", "other"}

\* Between a promotion and its rollback, traffic is where the promotion has put it;
\* elsewhere it is at the stable slot, unless others edited the Service.
Restored ==
  edits = 0 /\ ~unsettled =>
    /\ step \in {"converge", "measure", "rollback"} => service = promoted
    /\ step \notin {"converge", "measure", "rollback", "killed"} => service.slot = "stable"

\* A candidate is replaced only when no traffic goes to the slot, and a scenario whose
\* candidate is rejected never sends any there.
Quiet ==
  /\ step \notin {"converge", "measure", "rollback", "settle"} \union Lab!Ends =>
       "candidate" \notin {service.slot, routed}
  /\ step = "settle" => service.slot # "candidate"
  /\ step = "promote" => candidate \notin {"errors", "slow"}
  /\ Lab!RejectedGetsNoTraffic

\* What is promoted has answered 20 requests before it is measured for good.
Measured ==
  /\ step \in {"promote", "converge", "measure"} => requests
  /\ Lab!OnlyHealthyIsPromoted

LabInv == Lab!TypeOK /\ Restored /\ Quiet /\ Measured /\ Lab!EditsAreNotOverwritten

LEMMA ModesAre ==
  /\ Len(Modes) \in Nat /\ Len(Modes) >= 1 /\ 1 \in 1..Len(Modes)
  /\ \A n \in 1..Len(Modes) : Modes[n] \in {"healthy", "errors", "slow", "late-failure"}
  /\ MaxEdits \in Nat /\ MaxFaults \in Nat /\ Jitter \subseteq 0..20
<1>1. Modes \in Seq({"healthy", "errors", "slow", "late-failure"}) /\ Modes # <<>>
  BY InstanceBounds DEF Lab!LabBounds
<1> QED BY <1>1, InstanceBounds DEF Lab!LabBounds

LEMMA InitLab == Lab!Init => LabInv
<1> SUFFICES ASSUME Lab!Init PROVE LabInv
  OBVIOUS
<1> USE DEF Lab!Init
<1>1. Lab!TypeOK
  <2>1. service \in [rv : Nat \ {0}, slot : Slots] /\ service.rv = 1 BY DEF Slots
  <2>2. original.rv \in 0..service.rv BY <2>1 DEF Lab!None
  <2>3. /\ scenario \in 1..Len(Modes) /\ edits \in 0..MaxEdits /\ faults \in 0..MaxFaults
        /\ outcome \in [1..Len(Modes) -> {"none"}]
    BY ModesAre
  <2>4. step \notin {"converge", "measure", "rollback"} /\ routed \in Slots
        /\ errored \in BOOLEAN /\ requests \in BOOLEAN /\ unsettled \in BOOLEAN
        /\ candidate = "none"
    BY DEF Slots
  <2> HIDE DEF Lab!Init
  <2> QED BY <2>1, <2>2, <2>3, <2>4 DEF Lab!TypeOK, Slots
<1>2. Restored BY DEF Restored
<1>3. Quiet BY DEF Quiet, Lab!RejectedGetsNoTraffic
<1>4. Measured BY DEF Measured, Lab!OnlyHealthyIsPromoted
<1>5. Lab!EditsAreNotOverwritten BY DEF Lab!EditsAreNotOverwritten
<1> QED BY <1>1, <1>2, <1>3, <1>4, <1>5 DEF LabInv

\* The actions in groups: the cluster's; the commands that only go on or raise; those
\* that record an outcome; those that write something else.
LEMMA LabSteps ==
  ASSUME Lab!Next
  PROVE  \/ Lab!Edit \/ Lab!Propagate \/ Lab!Fault \/ Lab!Kill
         \/ Lab!Observe \/ Lab!Deploy \/ Lab!MeasureBaseline \/ Lab!MeasureCandidate
         \/ Lab!Promote \/ Lab!NotPromoted \/ Lab!Converge \/ Lab!NotConverged
         \/ Lab!MeasurePromoted \/ Lab!Rollback \/ Lab!NotRolledBack \/ Lab!Settle
         \/ Lab!MeasureRecovery \/ Lab!ReviewLast \/ Lab!Annotate \/ Lab!StaleRefused
BY DEF Lab!Next

LEMMA LabTypes == LabInv /\ [Lab!Next]_labVars => Lab!TypeOK'
<1> SUFFICES ASSUME Lab!TypeOK, [Lab!Next]_labVars PROVE Lab!TypeOK'
  BY DEF LabInv
<1> DEFINE Outcomes == {"none", "promoted", "rejected", "rolled-back", "release-error"}
<1>1. /\ service \in [rv : Nat \ {0}, slot : Slots] /\ routed \in Slots
      /\ candidate \in {"none", "healthy", "errors", "slow", "late-failure"}
      /\ scenario \in 1..Len(Modes) /\ outcome \in [1..Len(Modes) -> Outcomes]
      /\ errored \in BOOLEAN /\ requests \in BOOLEAN /\ unsettled \in BOOLEAN
      /\ edits \in 0..MaxEdits /\ faults \in 0..MaxFaults
      /\ original.rv \in 0..service.rv
      /\ step \in {"converge", "measure", "rollback"} => promoted.rv \in 1..service.rv
  BY DEF Lab!TypeOK, Slots
<1>2. SUFFICES /\ service' \in [rv : Nat \ {0}, slot : Slots] /\ routed' \in Slots
               /\ candidate' \in {"none", "healthy", "errors", "slow", "late-failure"}
               /\ scenario' \in 1..Len(Modes) /\ outcome' \in [1..Len(Modes) -> Outcomes]
               /\ errored' \in BOOLEAN /\ requests' \in BOOLEAN /\ unsettled' \in BOOLEAN
               /\ edits' \in 0..MaxEdits /\ faults' \in 0..MaxFaults
               /\ original'.rv \in 0..service'.rv
               /\ step' \in {"converge", "measure", "rollback"} => promoted'.rv \in 1..service'.rv
  BY DEF Lab!TypeOK, Slots
<1> USE DEF Lab!cluster, Lab!record, Lab!history, Lab!Goto, Lab!Raises
<1>3. CASE UNCHANGED labVars BY <1>1, <1>3 DEF labVars
<1>4. CASE Lab!Edit
  <2>1. PICK slot \in {service.slot, "other"} : service' = [rv |-> service.rv + 1, slot |-> slot]
    BY <1>4 DEF Lab!Edit
  <2>2. service' \in [rv : Nat \ {0}, slot : Slots] /\ service'.rv = service.rv + 1
    BY <1>1, <2>1 DEF Slots
  <2>3. 0..service.rv \subseteq 0..service'.rv /\ 1..service.rv \subseteq 1..service'.rv
    BY <1>1, <2>2
  <2> QED BY <1>1, <1>4, <2>2, <2>3, ModesAre DEF Lab!Edit
<1>5. CASE Lab!Propagate \/ Lab!Kill \/ Lab!MeasureBaseline \/ Lab!Converge \/ Lab!Settle
           \/ Lab!NotRolledBack \/ Lab!StaleRefused \/ Lab!Deploy
  BY <1>1, <1>5, ModesAre
     DEF Lab!Propagate, Lab!Kill, Lab!MeasureBaseline, Lab!Converge, Lab!Settle,
         Lab!NotRolledBack, Lab!StaleRefused, Lab!Deploy, Lab!Mode
<1>6. CASE Lab!Fault
  BY <1>1, <1>6, ModesAre DEF Lab!Fault
<1>7. CASE Lab!Observe \/ Lab!ReviewLast
  <2>1. service.rv \in 0..service.rv BY <1>1
  <2> QED BY <1>1, <1>7, <2>1 DEF Lab!Observe, Lab!ReviewLast
<1>8. CASE Lab!MeasureCandidate \/ Lab!NotPromoted \/ Lab!NotConverged
  BY <1>1, <1>8 DEF Lab!MeasureCandidate, Lab!NotPromoted, Lab!NotConverged
<1>9. CASE Lab!MeasurePromoted
  BY <1>1, <1>9 DEF Lab!MeasurePromoted
<1>10. CASE Lab!Promote
  <2>1. service' \in [rv : Nat \ {0}, slot : Slots] /\ service'.rv = service.rv + 1
    BY <1>1, <1>10 DEF Lab!Promote, Lab!Patched, Slots
  <2>2. 0..service.rv \subseteq 0..service'.rv /\ service'.rv \in 1..service'.rv
    BY <1>1, <2>1
  <2>3. /\ UNCHANGED <<routed, candidate, requests, scenario, original, edits>>
        /\ outcome' \in [1..Len(Modes) -> Outcomes] /\ errored' \in BOOLEAN
        /\ unsettled' \in BOOLEAN
    BY <1>1, <1>10 DEF Lab!Promote
  <2>4. faults' \in 0..MaxFaults BY <1>1, <1>10, ModesAre DEF Lab!Promote
  <2>5. step' \in {"converge", "measure", "rollback"} => promoted' = service'
    BY <1>10 DEF Lab!Promote
  <2> HIDE DEF Lab!Goto, Lab!Raises
  <2> QED BY <1>1, <2>1, <2>2, <2>3, <2>4, <2>5
<1>11. CASE Lab!Rollback
  <2>1. service' \in [rv : Nat \ {0}, slot : Slots] /\ service'.rv = service.rv + 1
    BY <1>1, <1>11 DEF Lab!Rollback, Lab!Patched, Slots
  <2>2. 0..service.rv \subseteq 0..service'.rv
    BY <1>1, <2>1
  <2> QED BY <1>1, <1>11, <2>1, <2>2 DEF Lab!Rollback
<1>12. CASE Lab!MeasureRecovery
  <2>1. /\ UNCHANGED <<service, routed, candidate, requests, original, promoted, outcome>>
        /\ UNCHANGED <<edits, faults, unsettled>>
        /\ errored' \in BOOLEAN /\ step' \notin {"converge", "measure", "rollback"}
        /\ scenario' = scenario \/ (scenario # Len(Modes) /\ scenario' = scenario + 1)
    BY <1>1, <1>12 DEF Lab!MeasureRecovery
  <2>2. scenario' \in 1..Len(Modes) BY <1>1, <2>1, ModesAre
  <2> QED BY <1>1, <2>1, <2>2
<1>13. CASE Lab!Annotate
  <2>1. service' \in [rv : Nat \ {0}, slot : Slots] /\ service'.rv = service.rv + 1
    BY <1>1, <1>13 DEF Lab!Annotate
  <2>2. 0..service.rv \subseteq 0..service'.rv
    BY <1>1, <2>1
  <2> QED BY <1>1, <1>13, <2>1, <2>2 DEF Lab!Annotate
<1> QED
  BY <1>3, <1>4, <1>5, <1>6, <1>7, <1>8, <1>9, <1>10, <1>11, <1>12, <1>13, LabSteps

LEMMA LabRestores == LabInv /\ [Lab!Next]_labVars => Restored'
<1> SUFFICES ASSUME LabInv, [Lab!Next]_labVars PROVE Restored'
  OBVIOUS
<1>1. Restored /\ edits \in Nat /\ unsettled \in BOOLEAN BY ModesAre DEF LabInv, Lab!TypeOK
<1> USE DEF Restored, Lab!cluster, Lab!record, Lab!history, Lab!Goto, Lab!Raises, Lab!Ends
<1>2. CASE UNCHANGED labVars BY <1>1, <1>2 DEF labVars
<1>3. CASE Lab!Edit
  <2>1. edits' # 0 BY <1>1, <1>3 DEF Lab!Edit
  <2> QED BY <2>1
<1>4. CASE Lab!Propagate \/ Lab!Kill \/ Lab!MeasureBaseline \/ Lab!Converge \/ Lab!Settle
           \/ Lab!NotRolledBack \/ Lab!StaleRefused \/ Lab!Deploy
  BY <1>1, <1>4
     DEF Lab!Propagate, Lab!Kill, Lab!MeasureBaseline, Lab!Converge, Lab!Settle,
         Lab!NotRolledBack, Lab!StaleRefused, Lab!Deploy
<1>5. CASE Lab!Fault BY <1>1, <1>5 DEF Lab!Fault
<1>6. CASE Lab!Observe \/ Lab!ReviewLast
  BY <1>1, <1>6 DEF Lab!Observe, Lab!ReviewLast
<1>7. CASE Lab!MeasureCandidate \/ Lab!NotPromoted \/ Lab!NotConverged \/ Lab!MeasurePromoted
  BY <1>1, <1>7 DEF Lab!MeasureCandidate, Lab!NotPromoted, Lab!NotConverged, Lab!MeasurePromoted
<1>8. CASE Lab!Promote BY <1>1, <1>8 DEF Lab!Promote, Lab!Patched
<1>9. CASE Lab!Rollback
  <2>1. service'.slot = "stable" /\ step' \notin {"converge", "measure", "rollback"}
    BY <1>9 DEF Lab!Rollback, Lab!Patched
  <2> QED BY <2>1
<1>10. CASE Lab!MeasureRecovery BY <1>1, <1>10 DEF Lab!MeasureRecovery
<1>11. CASE Lab!Annotate
  <2>1. service'.slot = service.slot /\ step = "annotate" /\ step' = "stale"
        /\ edits' = edits /\ unsettled' = unsettled
    BY <1>11 DEF Lab!Annotate, LabInv, Lab!TypeOK
  <2> QED BY <1>1, <2>1
<1> QED BY <1>2, <1>3, <1>4, <1>5, <1>6, <1>7, <1>8, <1>9, <1>10, <1>11, LabSteps

LEMMA LabIsQuiet == LabInv /\ [Lab!Next]_labVars => Quiet'
<1> SUFFICES ASSUME LabInv, [Lab!Next]_labVars PROVE Quiet'
  OBVIOUS
<1>1. Quiet BY DEF LabInv
<1> USE DEF Quiet, Lab!RejectedGetsNoTraffic, Lab!cluster, Lab!record, Lab!history, Lab!Goto,
            Lab!Raises, Lab!Ends
<1>2. CASE UNCHANGED labVars BY <1>1, <1>2 DEF labVars
<1>3. CASE Lab!Edit
  <2>1. service'.slot \in {service.slot, "other"}
        /\ UNCHANGED <<step, routed, candidate>>
    BY <1>3 DEF Lab!Edit
  <2> QED BY <1>1, <2>1
<1>4. CASE Lab!Propagate \/ Lab!Kill \/ Lab!MeasureBaseline \/ Lab!Converge \/ Lab!NotRolledBack
           \/ Lab!StaleRefused
  BY <1>1, <1>4
     DEF Lab!Propagate, Lab!Kill, Lab!MeasureBaseline, Lab!Converge, Lab!NotRolledBack,
         Lab!StaleRefused
<1>5. CASE Lab!Fault \/ Lab!Deploy \/ Lab!Settle
  BY <1>1, <1>5 DEF Lab!Fault, Lab!Deploy, Lab!Settle
<1>6. CASE Lab!Observe \/ Lab!ReviewLast
  BY <1>1, <1>6 DEF Lab!Observe, Lab!ReviewLast
<1>7. CASE Lab!NotPromoted \/ Lab!NotConverged \/ Lab!MeasurePromoted
  BY <1>1, <1>7 DEF Lab!NotPromoted, Lab!NotConverged, Lab!MeasurePromoted
<1>8. CASE Lab!MeasureCandidate
  <2>1. PICK e \in Jitter, s \in Jitter :
          IF Lab!Verdict("candidate", "candidate", e, s)
            THEN Lab!Goto("promote") /\ UNCHANGED outcome
            ELSE Lab!Goto("recover") /\ outcome' = [outcome EXCEPT ![scenario] = "rejected"]
    BY <1>8 DEF Lab!MeasureCandidate
  <2>2. step = "candidate" /\ UNCHANGED <<service, routed, candidate>>
    BY <1>8 DEF Lab!MeasureCandidate
  <2>3. Lab!Verdict("candidate", "candidate", e, s) => candidate \notin {"errors", "slow"}
    <3>1. e \in Nat /\ s \in Nat BY ModesAre
    <3> QED BY <3>1 DEF Lab!Verdict, Lab!evaluate, Lab!Errors, Lab!Slow, Lab!AtMost20
  <2> QED BY <1>1, <2>1, <2>2, <2>3
<1>9. CASE Lab!Promote
  <2>1. service'.slot = "candidate" /\ UNCHANGED <<routed, candidate>> /\ step = "promote"
        /\ step' \in {"converge", "failed"}
    BY <1>9 DEF Lab!Promote, Lab!Patched
  <2> QED BY <1>1, <2>1
<1>10. CASE Lab!Rollback
  <2>1. service'.slot = "stable" /\ UNCHANGED <<routed, candidate>> /\ step = "rollback"
        /\ step' \in {"settle", "failed"}
    BY <1>10 DEF Lab!Rollback, Lab!Patched
  <2> QED BY <1>1, <2>1
<1>11. CASE Lab!MeasureRecovery BY <1>1, <1>11 DEF Lab!MeasureRecovery
<1>12. CASE Lab!Annotate
  <2>1. service'.slot = service.slot /\ step = "annotate" /\ step' = "stale"
        /\ UNCHANGED <<routed, candidate>>
    BY <1>12 DEF Lab!Annotate, LabInv, Lab!TypeOK
  <2> QED BY <1>1, <2>1
<1> QED BY <1>2, <1>3, <1>4, <1>5, <1>6, <1>7, <1>8, <1>9, <1>10, <1>11, <1>12, LabSteps

LEMMA LabMeasures == LabInv /\ [Lab!Next]_labVars => Measured'
<1> SUFFICES ASSUME LabInv, [Lab!Next]_labVars PROVE Measured'
  OBVIOUS
<1>1. Measured /\ DOMAIN outcome = 1..Len(Modes) BY DEF LabInv, Lab!TypeOK
<1> USE DEF Measured, Lab!OnlyHealthyIsPromoted, Lab!cluster, Lab!record, Lab!history,
            Lab!Goto, Lab!Raises
<1>2. CASE UNCHANGED labVars BY <1>1, <1>2 DEF labVars
<1>3. CASE Lab!Edit \/ Lab!Propagate \/ Lab!Kill \/ Lab!Observe \/ Lab!ReviewLast
           \/ Lab!Annotate \/ Lab!Deploy
  BY <1>1, <1>3
     DEF Lab!Edit, Lab!Propagate, Lab!Kill, Lab!Observe, Lab!ReviewLast, Lab!Annotate, Lab!Deploy
<1>4. CASE Lab!MeasureBaseline \/ Lab!Converge \/ Lab!Rollback \/ Lab!NotRolledBack
           \/ Lab!Settle \/ Lab!MeasureRecovery \/ Lab!StaleRefused
  BY <1>1, <1>4
     DEF Lab!MeasureBaseline, Lab!Converge, Lab!Rollback, Lab!NotRolledBack, Lab!Settle,
         Lab!MeasureRecovery, Lab!StaleRefused
<1>5. CASE Lab!Fault \/ Lab!NotPromoted \/ Lab!NotConverged \/ Lab!MeasureCandidate \/ Lab!Promote
  <2>1. \/ outcome' = outcome
        \/ \E o \in {"release-error", "rejected"} : outcome' = [outcome EXCEPT ![scenario] = o]
    BY <1>5
       DEF Lab!Fault, Lab!NotPromoted, Lab!NotConverged, Lab!MeasureCandidate, Lab!Promote
  <2>2. \A n \in 1..Len(Modes) : outcome'[n] = "promoted" => outcome[n] = "promoted"
    BY <1>1, <2>1
  <2>3. step' \in {"promote", "converge", "measure"} => requests'
    BY <1>1, <1>5
       DEF Lab!Fault, Lab!NotPromoted, Lab!NotConverged, Lab!MeasureCandidate, Lab!Promote
  <2> QED BY <1>1, <2>2, <2>3
<1>6. CASE Lab!MeasurePromoted
  <2>1. PICK e \in Jitter, s \in Jitter :
          outcome' = [outcome EXCEPT ![scenario] =
            IF Lab!Verdict(routed, "candidate", e, s) THEN "promoted" ELSE "rolled-back"]
    BY <1>6 DEF Lab!MeasurePromoted
  <2>2. step = "measure" /\ step' = "rollback" BY <1>6 DEF Lab!MeasurePromoted
  <2>3. Lab!Verdict(routed, "candidate", e, s) => Modes[scenario] = "healthy"
    <3>1. e \in Nat /\ s \in Nat BY ModesAre
    <3>2. Modes[scenario] \in {"healthy", "errors", "slow", "late-failure"}
      BY ModesAre DEF LabInv, Lab!TypeOK
    <3>3. requests BY <1>1, <2>2
    <3> QED BY <3>1, <3>2, <3>3
            DEF Lab!Verdict, Lab!evaluate, Lab!Errors, Lab!Slow, Lab!AtMost20, Lab!Mode
  <2>4. \A n \in 1..Len(Modes) : outcome'[n] = "promoted" => Modes[n] = "healthy"
    BY <1>1, <2>1, <2>3
  <2> QED BY <2>2, <2>4
<1> QED BY <1>2, <1>3, <1>4, <1>5, <1>6, LabSteps

LEMMA LabOverwritesNothing ==
  LabInv /\ [Lab!Next]_labVars => Lab!EditsAreNotOverwritten'
<1> SUFFICES ASSUME LabInv, [Lab!Next]_labVars PROVE Lab!EditsAreNotOverwritten'
  OBVIOUS
<1>1. Lab!EditsAreNotOverwritten BY DEF LabInv
<1>2. \/ switches' = switches
      \/ switches' = switches \union {[over |-> service, observed |-> service]}
  <2>1. CASE Lab!Promote \/ Lab!Rollback
    BY <2>1 DEF Lab!Promote, Lab!Rollback, Lab!Patched, Lab!Landed
  <2>2. CASE Lab!Edit \/ Lab!Propagate \/ Lab!Fault \/ Lab!Kill \/ Lab!Observe \/ Lab!Deploy
    BY <2>2 DEF Lab!Edit, Lab!Propagate, Lab!Fault, Lab!Kill, Lab!Observe, Lab!Deploy, Lab!history
  <2>3. CASE Lab!MeasureBaseline \/ Lab!MeasureCandidate \/ Lab!NotPromoted \/ Lab!Converge
             \/ Lab!NotConverged \/ Lab!MeasurePromoted \/ Lab!NotRolledBack \/ Lab!Settle
    BY <2>3
       DEF Lab!MeasureBaseline, Lab!MeasureCandidate, Lab!NotPromoted, Lab!Converge,
           Lab!NotConverged, Lab!MeasurePromoted, Lab!NotRolledBack, Lab!Settle, Lab!history
  <2>4. CASE Lab!MeasureRecovery \/ Lab!ReviewLast \/ Lab!Annotate \/ Lab!StaleRefused
    BY <2>4 DEF Lab!MeasureRecovery, Lab!ReviewLast, Lab!Annotate, Lab!StaleRefused, Lab!history
  <2>5. CASE UNCHANGED labVars BY <2>5 DEF labVars
  <2> QED BY <2>1, <2>2, <2>3, <2>4, <2>5, LabSteps
<1> QED BY <1>1, <1>2 DEF Lab!EditsAreNotOverwritten

LEMMA StepLab == LabInv /\ [Lab!Next]_labVars => LabInv'
BY LabTypes, LabRestores, LabIsQuiet, LabMeasures, LabOverwritesNothing DEF LabInv

-----------------------------------------------------------------------------
(* Both scripts.                                                            *)

AllInv == TypeOK /\ FailuresAreFew /\ LabInv

LEMMA AllInvariant == AllSpec => []AllInv
<1>1. AllInit => AllInv BY InitTypes, InitLab DEF AllInit, AllInv
<1>2. ASSUME AllInv, [AllNext]_<<vars, labVars>> PROVE AllInv'
  <2>1. [Next]_vars /\ [Lab!Next]_labVars
    BY <1>2 DEF AllNext, ScaleActs, LabActs
  <2> QED BY <1>2, <2>1, StepTypes, StepLab DEF AllInv
<1> QED BY <1>1, <1>2, PTL DEF AllSpec

\* However the scripts are interrupted, edited under or fail: what the lab records is a
\* decision on a candidate it had, and the runbook comes to its trap once.
THEOREM RunbookTypes == AllSpec => []Types
<1>1. AllInv => Types BY DEF AllInv, LabInv, Types
<1> QED BY <1>1, AllInvariant, PTL

\* For every sequence of candidates, and however few or many requests are disturbed:
\* only a healthy candidate is promoted for good, and one that is to be rejected gets no
\* traffic from the Service, not even from endpoints that lag behind.
THEOREM OnlyHealthyPromoted == AllSpec => []OnlyHealthyIsPromoted
<1>1. AllInv => OnlyHealthyIsPromoted
  BY DEF AllInv, LabInv, Quiet, Measured, OnlyHealthyIsPromoted
<1> QED BY <1>1, AllInvariant, PTL

\* Whatever fails after a promotion, traffic is back at the stable slot when the scenario
\* ends, unless an answer was lost or somebody edited the Service, whose edit is then
\* not overwritten.
THEOREM TrafficRestored == AllSpec => []TrafficIsRestored
<1>1. ASSUME AllInv PROVE TrafficIsRestored
  <2>1. Restored /\ Lab!EditsAreNotOverwritten BY <1>1 DEF AllInv, LabInv
  <2>2. Lab!TrafficIsRestored BY <2>1 DEF Restored, Lab!TrafficIsRestored
  <2> QED BY <2>1, <2>2 DEF TrafficIsRestored
<1> QED BY <1>1, AllInvariant, PTL
=============================================================================
