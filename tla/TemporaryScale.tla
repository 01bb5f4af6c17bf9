---------------------------- MODULE TemporaryScale ----------------------------
(***************************************************************************)
(* The runbook that scales a Deployment for a while and puts the former    *)
(* count back (scripts/temporary-scale.sh), through the commands of        *)
(* api/cmd/kubevista: diagnose, plan and execute.                          *)
(*                                                                         *)
(* The cluster goes on changing: others scale or edit the Deployment,      *)
(* replace it by a new one, and its status changes.  Any command may fail, *)
(* also one that took effect; the process may be interrupted or killed.    *)
(* How the API applies a plan is GuardedOperations and durableOperations:  *)
(* here a plan takes effect if the resourceVersion it was reviewed at is   *)
(* still the current one, before the answer without the durable store and  *)
(* at any later time with it.                                              *)
(***************************************************************************)
EXTENDS Naturals

CONSTANTS
  Count,       \* values of spec.replicas
  Temporary,   \* the count that is asked for
  MaxChanges   \* bound on the changes that others make

ASSUME RunbookBounds == Temporary \in Count /\ MaxChanges \in Nat

VARIABLES
  durable,   \* the API keeps operations: execute approves, a controller applies
  object,    \* the Deployment: uid, generation, rv, replicas
  author,    \* history: who set its replicas, "other", "scale" or "restore"
  at,        \* the command the script runs, or how it ended
  first,     \* what the first diagnose printed
  expected,  \* uid and generation the restoration expects
  reviewed,  \* [plan -> the resourceVersion it was reviewed at, 0 for none]
  approved,  \* plans a controller is about to apply
  exit,      \* the exit status, of the script or, in the trap, so far
  changes,   \* how often others changed the cluster
  failures,  \* history: commands that failed or were interrupted
  over       \* history: the objects the restoration was applied to

cluster == <<object, author, approved>>
script == <<at, first, expected, reviewed, exit, failures>>
vars == <<durable, cluster, script, changes, over>>

-----------------------------------------------------------------------------
Plans == {"scale", "restore"}

\* The commands in their order, and the ends.
Running == {"diagnose", "plan", "execute", "sleep", "review", "check", "restore"}

Init ==
  /\ durable \in BOOLEAN
  /\ \E n \in Count : object = [uid |-> 1, generation |-> 1, rv |-> 1, replicas |-> n]
  /\ author = "other" /\ approved = {}
  /\ at = "diagnose" /\ exit = 0 /\ changes = 0 /\ failures = 0
  /\ first = object /\ expected = [uid |-> 0, generation |-> 0]
  /\ reviewed = [p \in Plans |-> 0] /\ over = {}

-----------------------------------------------------------------------------
(* The cluster.                                                             *)

\* The object after somebody has written n replicas: a write that changes
\* nothing is none.
Scaled(n) ==
  IF n = object.replicas THEN object
  ELSE [object EXCEPT !.replicas = n, !.generation = @ + 1, !.rv = @ + 1]

OthersScale(n) ==
  /\ n # object.replicas
  /\ object' = Scaled(n) /\ author' = "other"

OthersEdit ==
  /\ object' = [object EXCEPT !.generation = @ + 1, !.rv = @ + 1]
  /\ UNCHANGED author

OthersReplace(n) ==
  /\ object' = [uid |-> object.uid + 1, generation |-> 1, rv |-> object.rv + 1,
                replicas |-> n]
  /\ author' = "other"

StatusChanges ==
  /\ object' = [object EXCEPT !.rv = @ + 1]
  /\ UNCHANGED author

ClusterChanges ==
  /\ changes < MaxChanges /\ changes' = changes + 1
  /\ StatusChanges \/ OthersEdit \/ \E n \in Count : OthersScale(n) \/ OthersReplace(n)
  /\ UNCHANGED <<approved, script, over>>

CountOf(p) == IF p = "scale" THEN Temporary ELSE first.replicas

\* The generation of the target is the one that was reviewed, unless it is new.
MutCurrent(p) == p = "restore" \/ object.rv = reviewed[p]

\* The precondition of the reviewed plan.
Current(p) == object.rv = reviewed[p]

\* The plan takes effect.  A durable operation also leaves its marker.
Lands(p) ==
  /\ Current(p)
  /\ object' = [Scaled(CountOf(p)) EXCEPT !.rv = IF durable THEN object.rv + 1 ELSE @]
  /\ author' = IF CountOf(p) = object.replicas THEN author ELSE p
  /\ over' = IF p = "restore" THEN over \union {[before |-> object, by |-> author]} ELSE over

NothingLands == UNCHANGED <<object, author, over>>

\* The controller applies an approved plan, or finds its target changed.
Reconcile(p) ==
  /\ p \in approved /\ approved' = approved \ {p}
  /\ IF Current(p) THEN Lands(p) ELSE NothingLands
  /\ UNCHANGED <<script, changes>>

-----------------------------------------------------------------------------
(* The script.                                                              *)

\* A command that fails ends the script (set -e): in the trap once it is set,
\* and there for good.
Fails ==
  /\ failures' = failures + 1 /\ exit' = 1
  /\ at' = IF at = "execute" THEN "review" ELSE "exited"

Continues(next) == at' = next /\ UNCHANGED <<exit, failures>>

\* One generation more, always.
MutPredicted(o) == o.generation + 1

\* The generation a scale of ours would lead to.
Predicted(o) == IF o.replicas = Temporary THEN o.generation ELSE o.generation + 1

\* Lines 12-19: identity, count and generation before anything is done.
Diagnose ==
  /\ at = "diagnose" /\ first' = object
  /\ expected' = [uid |-> object.uid, generation |-> Predicted(object)]
  /\ Continues("plan")
  /\ UNCHANGED <<cluster, reviewed, changes, over>>

\* The API reads the Deployment and remembers its resourceVersion.
Review(p, next) ==
  /\ reviewed' = [reviewed EXCEPT ![p] = object.rv] /\ Continues(next)
  /\ UNCHANGED <<cluster, first, expected, changes, over>>

Plan == at = "plan" /\ Review("scale", "execute")

\* The command execute: it is answered when the plan has taken effect, or, when
\* operations are durable, when it is approved.  A command that fails may have
\* done as much.
Execute(p, next) ==
  /\ at = IF p = "scale" THEN "execute" ELSE "restore"
  /\ \/ durable /\ approved' = approved \union {p} /\ NothingLands
     \/ ~durable /\ Lands(p) /\ UNCHANGED approved
  /\ Continues(next) \/ Fails
  /\ UNCHANGED <<first, expected, reviewed, changes>>

\* A command that fails and has done nothing.
CommandFails ==
  /\ at \in Running \ {"sleep"} /\ Fails
  /\ UNCHANGED <<cluster, first, expected, reviewed, changes, over>>

Sleep ==
  /\ at = "sleep" /\ Continues("review")
  /\ UNCHANGED <<cluster, first, expected, reviewed, changes, over>>

\* The restoration does not reset the traps.
MutInterrupt ==
  /\ at \in Running \ {"diagnose", "plan"}
  /\ at' = "review" /\ exit' = 130 /\ failures' = failures + 1
  /\ UNCHANGED <<cluster, first, expected, reviewed, changes, over>>

\* SIGINT or SIGTERM once the traps are set; before them it just ends, as it does
\* in the restoration, which has reset them.
Interrupt ==
  /\ at \in Running \ {"diagnose", "plan"}
  /\ at' = IF at \in {"execute", "sleep"} THEN "review" ELSE "killed"
  /\ exit' = 130 /\ failures' = failures + 1
  /\ UNCHANGED <<cluster, first, expected, reviewed, changes, over>>

\* Line 24, in the trap.
ReviewRestoration == at = "review" /\ Review("restore", "check")

\* The trap ends without an error when the check does not hold.
MutCheck ==
  /\ at = "check"
  /\ IF /\ object.uid = expected.uid /\ object.generation = expected.generation
        /\ object.replicas = Temporary
       THEN Continues("restore")
       ELSE Continues("exited")
  /\ UNCHANGED <<cluster, first, expected, reviewed, changes, over>>

\* Lines 27-30, after the review.
Check ==
  /\ at = "check"
  /\ IF /\ object.uid = expected.uid /\ object.generation = expected.generation
        /\ object.replicas = Temporary
       THEN Continues("restore")
       ELSE at' = "exited" /\ exit' = 1 /\ UNCHANGED failures
  /\ UNCHANGED <<cluster, first, expected, reviewed, changes, over>>

\* How the API was started does not change.
Next ==
  /\ UNCHANGED durable
  /\ \/ Diagnose \/ Plan \/ Execute("scale", "sleep") \/ Sleep
     \/ ReviewRestoration \/ Check \/ Execute("restore", "exited")
     \/ CommandFails \/ Interrupt
     \/ ClusterChanges \/ \E p \in Plans : Reconcile(p)

Spec == Init /\ [][Next]_vars

-----------------------------------------------------------------------------
(* Properties.                                                              *)

TypeOK ==
  /\ durable \in BOOLEAN
  /\ object \in [uid : Nat, generation : Nat, rv : Nat, replicas : Count]
  /\ first \in [uid : Nat, generation : Nat, rv : Nat, replicas : Count]
  /\ author \in Plans \union {"other"} /\ approved \subseteq Plans
  /\ at \in Running \union {"exited", "killed"}
  /\ expected \in [uid : Nat, generation : Nat] /\ reviewed \in [Plans -> Nat]
  /\ exit \in {0, 1, 130} /\ changes \in 0..MaxChanges /\ failures \in 0..2

\* docs/incident-response.md:91-92: the former count is put back "only if UID,
\* generation, and replica count still match", at the moment it takes effect and
\* not only when the script looked.
RestoresWhatMatches ==
  \A o \in over :
    /\ o.before.uid = expected.uid /\ o.before.generation = expected.generation
    /\ o.before.replicas = Temporary

\* A script that does not exit with 1, also one that was interrupted while it
\* slept, has put the former count back: "failed or skipped restoration exits
\* nonzero" (line 93).  With durable operations it has only approved that.
ExitStatusIsTrue ==
  ~durable /\ at = "exited" /\ exit # 1 => over # {}

\* When nothing fails and nobody interferes, the runbook leaves the count it found
\* and says so, also when that was the temporary one and no generation changed.
UndisturbedItRestores ==
  ~durable /\ at = "exited" /\ changes = 0 /\ failures = 0 =>
    object.replicas = first.replicas /\ exit = 0

\* The same line with durable operations, as soon as no approved plan is left.
DurableExitIsTrue ==
  at = "exited" /\ exit # 1 /\ approved = {} => over # {}

\* temporary-scale.sh:17-18: the generation is predicted, so that the script does
\* not restore "over someone else".
NeverRestoresOverOthers ==
  \A o \in over : CountOf("restore") # Temporary => o.by = "scale"
=============================================================================
