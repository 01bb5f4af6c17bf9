------------------------------ MODULE ReleaseLab ------------------------------
(***************************************************************************)
(* The blue/green release lab (scripts/release-lab/release.py): candidates *)
(* of known behaviour (app.py) are measured, promoted by switching the     *)
(* selector of the traffic Service, measured again and switched back.      *)
(*                                                                         *)
(* Others may edit the Service, endpoints follow a selector with a delay,  *)
(* measurements vary, and every kubectl command may fail: without effect,  *)
(* or with its answer lost (its 180 seconds are over).  The script may be  *)
(* killed.                                                                 *)
(***************************************************************************)
EXTENDS Naturals, Sequences

CONSTANTS
  Modes,      \* behaviours of the candidates, in the order of their scenarios
  Jitter,     \* how many of 20 requests may fail, or be slow, by accident
  MaxEdits,   \* bound on the edits of the Service by others
  MaxFaults   \* bound on the commands that fail

LabBounds ==
  /\ Modes \in Seq({"healthy", "errors", "slow", "late-failure"}) /\ Modes # <<>>
  /\ Jitter \subseteq 0..20 /\ MaxEdits \in Nat /\ MaxFaults \in Nat

VARIABLES
  service,    \* the traffic Service: rv, slot
  routed,     \* the slot its endpoints are of
  candidate,  \* the mode of the candidate that runs, "none" before the first
  requests,   \* the candidate has answered 20 requests
  scenario,   \* index of the scenario
  at,         \* the next step of the script, or how it ended
  original,   \* the Service as observed at the start of the scenario
  promoted,   \* the Service in the answer to the promotion
  outcome,    \* [1..Len(Modes) -> the outcome recorded, "none" before]
  errored,    \* an exception is under way in the finally block
  edits,      \* how often others edited the Service
  faults,     \* how many commands failed
  unsettled,  \* history: a switch may have landed whose answer was lost, or the
              \* rollback failed
  switches    \* history: the switches that landed: over which Service, observed as

cluster == <<service, routed, candidate, requests>>
record == <<scenario, original, promoted, outcome>>
history == <<edits, faults, unsettled, switches>>
vars == <<cluster, record, at, errored, history>>

-----------------------------------------------------------------------------
Mode == Modes[scenario]

Ends == {"finished", "failed", "killed"}

None == [rv |-> 0, slot |-> "none"]

Init ==
  /\ service = [rv |-> 1, slot |-> "stable"] /\ routed = "stable"
  /\ candidate = "none" /\ requests = FALSE
  /\ scenario = 1 /\ at = "observe" /\ original = None /\ promoted = None
  /\ outcome = [n \in 1..Len(Modes) |-> "none"] /\ errored = FALSE
  /\ edits = 0 /\ faults = 0 /\ unsettled = FALSE /\ switches = {}

\* evaluate, over 20 samples: an error rate of at most 5 %, the 19th of the sorted
\* latencies within the limit, and the body of the revision that was asked for.
evaluate(errors, slow, expected) == expected /\ errors <= 1 /\ slow <= 1

\* What 20 requests to the candidate come to, jitter aside.
Errors == IF candidate = "errors" \/ (candidate = "late-failure" /\ requests) THEN 20 ELSE 0

Slow == IF candidate = "slow" THEN 20 ELSE 0

AtMost20(n) == IF n > 20 THEN 20 ELSE n

\* The verdict on 20 requests through a slot, which are to be answered by want.
Verdict(slot, want, e, s) ==
  IF slot = "candidate"
    THEN evaluate(AtMost20(Errors + e), AtMost20(Slow + s), want = "candidate" /\ candidate = Mode)
    ELSE evaluate(e, s, slot = want)

-----------------------------------------------------------------------------
(* The cluster.                                                             *)

\* Somebody else edits the Service, its selector or not.
Edit ==
  /\ at \notin Ends /\ edits < MaxEdits /\ edits' = edits + 1
  /\ \E slot \in {service.slot, "other"} :
       service' = [rv |-> service.rv + 1, slot |-> slot]
  /\ UNCHANGED <<routed, candidate, requests, record, at, errored, faults, unsettled, switches>>

Propagate ==
  /\ routed # service.slot /\ routed' = service.slot
  /\ UNCHANGED <<service, candidate, requests, record, at, errored, history>>

\* The JSON patch: the tests of resourceVersion and selector, then the selector.
Patched(observed, slot) ==
  service = observed /\ service' = [rv |-> service.rv + 1, slot |-> slot]

Landed(observed) ==
  switches' = switches \union {[over |-> service, observed |-> observed]}

-----------------------------------------------------------------------------
(* The script.                                                              *)

Goto(next) == at' = next /\ UNCHANGED errored

\* Only what the script decides is rolled back, not what it runs into.
MutRaises == at' = "failed" /\ errored' = TRUE

\* An exception: the finally block runs once the try block has begun, and rolls
\* back what is known to be promoted.
Raises ==
  /\ errored' = TRUE
  /\ at' = IF at \in {"converge", "measure"} THEN "rollback" ELSE "failed"

\* A command that fails and has done nothing.
Fault ==
  /\ at \notin Ends /\ faults < MaxFaults /\ faults' = faults + 1
  /\ Raises
  /\ unsettled' = (unsettled \/ at = "rollback")
  /\ outcome' = IF at \in {"promote", "converge", "measure"}
                  THEN [outcome EXCEPT ![scenario] = "release-error"] ELSE outcome
  /\ UNCHANGED <<cluster, scenario, original, promoted, edits, switches>>

\* observe_route, and the check that traffic is at stable.
Observe ==
  /\ at = "observe" /\ original' = service /\ promoted' = None
  /\ IF service.slot = "stable" THEN Goto("deploy") ELSE Raises
  /\ UNCHANGED <<cluster, scenario, outcome, history>>

\* A new candidate is applied and rolled out; the stable one serves on.
Deploy ==
  /\ at = "deploy" /\ candidate' = Mode /\ requests' = FALSE
  /\ Goto("baseline")
  /\ UNCHANGED <<service, routed, record, history>>

MeasureBaseline ==
  /\ at = "baseline"
  /\ \E e, s \in Jitter :
       IF Verdict("stable", "stable", e, s) THEN Goto("candidate") ELSE Raises
  /\ UNCHANGED <<cluster, record, history>>

MeasureCandidate ==
  /\ at = "candidate" /\ requests' = TRUE
  /\ \E e, s \in Jitter :
       IF Verdict("candidate", "candidate", e, s)
         THEN Goto("promote") /\ UNCHANGED outcome
         ELSE Goto("recover") /\ outcome' = [outcome EXCEPT ![scenario] = "rejected"]
  /\ UNCHANGED <<service, routed, candidate, scenario, original, promoted, history>>

\* switch(original, 'candidate'), whose answer may be lost.
Promote ==
  /\ at = "promote" /\ Patched(original, "candidate") /\ Landed(original)
  /\ \/ /\ promoted' = service' /\ Goto("converge")
        /\ UNCHANGED <<outcome, faults, unsettled>>
     \/ /\ faults < MaxFaults /\ faults' = faults + 1 /\ Raises
        /\ outcome' = [outcome EXCEPT ![scenario] = "release-error"]
        /\ unsettled' = TRUE /\ UNCHANGED promoted
  /\ UNCHANGED <<routed, candidate, requests, scenario, original, edits>>

NotPromoted ==
  /\ at = "promote" /\ service # original
  /\ outcome' = [outcome EXCEPT ![scenario] = "release-error"] /\ Raises
  /\ UNCHANGED <<cluster, scenario, original, promoted, history>>

\* wait_route: the endpoints become those of the slot, or it gives up.
Converge ==
  /\ at = "converge" /\ routed = "candidate" /\ Goto("measure")
  /\ UNCHANGED <<cluster, record, history>>

NotConverged ==
  /\ at = "converge" /\ routed # "candidate"
  /\ outcome' = [outcome EXCEPT ![scenario] = "release-error"] /\ Raises
  /\ UNCHANGED <<cluster, scenario, original, promoted, history>>

\* One good measurement is enough.
MutMeasurePromoted ==
  /\ at = "measure" /\ Goto("rollback")
  /\ outcome' = [outcome EXCEPT ![scenario] = "promoted"]
  /\ UNCHANGED <<cluster, scenario, original, promoted, history>>

MeasurePromoted ==
  /\ at = "measure" /\ Goto("rollback")
  /\ \E e, s \in Jitter :
       outcome' = [outcome EXCEPT ![scenario] =
         IF Verdict(routed, "candidate", e, s) THEN "promoted" ELSE "rolled-back"]
  /\ UNCHANGED <<cluster, scenario, original, promoted, history>>

\* switch(promoted, 'stable') in the finally block; an exception goes on after it.
Rollback ==
  /\ at = "rollback" /\ Patched(promoted, "stable") /\ Landed(promoted)
  /\ Goto(IF errored THEN "failed" ELSE "settle")
  /\ UNCHANGED <<routed, candidate, requests, record, edits, faults, unsettled>>

NotRolledBack ==
  /\ at = "rollback" /\ service # promoted
  /\ Raises
  /\ UNCHANGED <<cluster, record, history>>

Settle ==
  /\ at = "settle"
  /\ IF routed = "stable" THEN Goto("recover") ELSE Raises
  /\ UNCHANGED <<cluster, record, history>>

\* Stable traffic is measured, and the next scenario begins.
MeasureRecovery ==
  /\ at = "recover"
  /\ \E e, s \in Jitter :
       IF ~Verdict(routed, "stable", e, s) THEN Raises /\ UNCHANGED scenario
       ELSE IF scenario = Len(Modes) THEN Goto("review") /\ UNCHANGED scenario
       ELSE Goto("observe") /\ scenario' = scenario + 1
  /\ UNCHANGED <<cluster, original, promoted, outcome, history>>

\* The last test: a switch that was reviewed before an annotation is refused.
ReviewLast ==
  /\ at = "review" /\ original' = service /\ Goto("annotate")
  /\ UNCHANGED <<cluster, scenario, promoted, outcome, history>>

Annotate ==
  /\ at = "annotate" /\ service' = [service EXCEPT !.rv = @ + 1] /\ Goto("stale")
  /\ UNCHANGED <<routed, candidate, requests, record, history>>

Expected == <<"promoted", "rejected", "rejected", "rolled-back">>

\* The switch is refused, the selector is still the reviewed one, and the decisions
\* are those that are expected.
StaleRefused ==
  /\ at = "stale" /\ service # original
  /\ IF service.slot = original.slot /\ outcome = SubSeq(Expected, 1, Len(Modes)) THEN Goto("finished") ELSE Raises
  /\ UNCHANGED <<cluster, record, history>>

Kill ==
  /\ at \notin Ends /\ Goto("killed")
  /\ UNCHANGED <<cluster, record, history>>

Next ==
  \/ Edit \/ Propagate \/ Fault \/ Kill
  \/ Observe \/ Deploy \/ MeasureBaseline \/ MeasureCandidate
  \/ Promote \/ NotPromoted \/ Converge \/ NotConverged \/ MeasurePromoted
  \/ Rollback \/ NotRolledBack \/ Settle \/ MeasureRecovery
  \/ ReviewLast \/ Annotate \/ StaleRefused

Spec == Init /\ [][Next]_vars

-----------------------------------------------------------------------------
(* Properties.                                                              *)

TypeOK ==
  /\ service \in [rv : Nat \ {0}, slot : {"stable", "candidate", "other"}]
  /\ routed \in {"stable", "candidate", "other"}
  /\ candidate \in {"none", "healthy", "errors", "slow", "late-failure"}
  /\ scenario \in 1..Len(Modes)
  /\ outcome \in [1..Len(Modes) ->
       {"none", "promoted", "rejected", "rolled-back", "release-error"}]
  /\ {errored, requests, unsettled} \subseteq BOOLEAN
  /\ edits \in 0..MaxEdits /\ faults \in 0..MaxFaults
  /\ original.rv \in 0..service.rv
  /\ at \in {"converge", "measure", "rollback"} => promoted.rv \in 1..service.rv

\* docs/safe-releases.md:68: concurrent edits of the Service are not overwritten,
\* neither by a promotion nor by its rollback.
EditsAreNotOverwritten == \A s \in switches : s.over = s.observed

\* docs/safe-releases.md:38-39: a candidate that is to be rejected gets no traffic
\* from the traffic Service, not even from endpoints that lag behind, however the
\* last scenario ended.
RejectedGetsNoTraffic ==
  candidate \in {"errors", "slow"} => "candidate" \notin {service.slot, routed}

\* The table of docs/safe-releases.md:30-35: only a healthy candidate comes to be
\* promoted for good, however the measurements vary within their tolerance.
OnlyHealthyIsPromoted ==
  \A n \in 1..Len(Modes) : outcome[n] = "promoted" => Modes[n] = "healthy"

\* release.py:107-122: unless it is killed, edited under or left without an answer
\* to a switch, a scenario that fails after the promotion has switched traffic
\* back, whatever failed, and so has one that succeeds.
TrafficIsRestored ==
  at \in {"failed", "finished", "observe"} /\ ~unsettled /\ edits = 0 =>
    service.slot = "stable"
=============================================================================
