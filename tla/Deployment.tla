------------------------------ MODULE Deployment ------------------------------
(***************************************************************************)
(* The Kubernetes Deployment that guarded operations change, as the API    *)
(* server and the Deployment controller present it to this code.  The      *)
(* object is external; what is modelled is what the operation code in      *)
(* api/internal/kubernetes reads of it and writes to it:                   *)
(*                                                                         *)
(*   exists    a Deployment of the planned name exists                     *)
(*   uid       metadata.uid, new for every object created under the name   *)
(*   rv        metadata.resourceVersion, raised by every write of anyone   *)
(*   marker    the annotation kubevista.io/operation-id, None when absent  *)
(*   replicas, template, paused   the spec                                 *)
(*   observed  status.observedGeneration has reached metadata.generation   *)
(*   health    what the status says of the rollout (see Health)            *)
(*                                                                         *)
(* resourceVersion is opaque to clients and compared for equality only;    *)
(* it is a counter here because etcd never reuses one.                     *)
(***************************************************************************)
EXTENDS Naturals

CONSTANTS
  Op,         \* operation IDs, the possible values of the marker
  None,       \* absent marker, owner or actor
  Replicas,   \* values of spec.replicas
  Template    \* values of spec.template

\* "Available": every replica is updated and available and none is left over.
\* "DeadlineExceeded": condition Progressing=False/ProgressDeadlineExceeded.
Health == {"Available", "Unavailable", "DeadlineExceeded"}

Object == [exists : BOOLEAN, uid : Nat \ {0}, rv : Nat \ {0},
           marker : Op \union {None}, replicas : Replicas,
           template : Template, paused : BOOLEAN, observed : BOOLEAN,
           health : Health]

\* A healthy Deployment nobody has operated on yet.
Fresh(d) ==
  \E r \in Replicas, t \in Template :
    d = [exists |-> TRUE, uid |-> 1, rv |-> 1, marker |-> None,
         replicas |-> r, template |-> t, paused |-> FALSE,
         observed |-> TRUE, health |-> "Available"]

-----------------------------------------------------------------------------
(* deploymentRecovery: the three verdicts the reconciler distinguishes.     *)

MutRecovered(d) == ~d.paused /\ d.health = "Available"

Recovered(d) == ~d.paused /\ d.observed /\ d.health = "Available"

Stalled(d) == ~d.paused /\ d.observed /\ d.health = "DeadlineExceeded"

-----------------------------------------------------------------------------
(* The JSON patch of patchDurable for a reviewed intent r, which carries    *)
(* uid, rv, action, replicas and template.                                  *)

MutPatchTestsPass(d, r) == d.exists /\ d.uid = r.uid

\* The two "test" operations that open the patch.
PatchTestsPass(d, r) == d.exists /\ d.uid = r.uid /\ d.rv = r.rv

\* The patch writes the marker and one half of the intent: the replica count
\* for a scale, the pod template for a restart or a rollback.  Only a changed
\* spec starts a new generation for the Deployment controller to observe.
Patched(d, o, r) ==
  LET replicas == IF r.action = "scale" THEN r.replicas ELSE d.replicas
      template == IF r.action = "scale" THEN d.template ELSE r.template
  IN  [d EXCEPT !.rv = d.rv + 1, !.marker = o,
                !.replicas = replicas, !.template = template,
                !.observed = d.observed /\ replicas = d.replicas
                                        /\ template = d.template]

-----------------------------------------------------------------------------
(* Everyone else's writes: e is what one of them may make of d.             *)

\* kubectl, GitOps, an autoscaler: any spec; the marker is kept or dropped.
Edited(d, e) ==
  \E m \in {d.marker, None}, r \in Replicas, t \in Template, p \in BOOLEAN :
    e = [d EXCEPT !.rv = d.rv + 1, !.marker = m,
                  !.replicas = r, !.template = t, !.paused = p,
                  !.observed = d.observed /\ r = d.replicas
                                 /\ t = d.template /\ p = d.paused]

\* The Deployment controller reports on the latest or on an older generation.
StatusReported(d, e) ==
  \E b \in {d.observed, TRUE}, h \in Health :
    e = [d EXCEPT !.rv = d.rv + 1, !.observed = b, !.health = h]

Deleted(d, e) == e = [d EXCEPT !.exists = FALSE, !.rv = d.rv + 1]

\* Someone creates the Deployment again from a manifest, which may have been
\* exported with its marker.
Recreated(d, e) ==
  \E m \in {d.marker, None}, r \in Replicas, t \in Template :
    e = [exists |-> TRUE, uid |-> d.uid + 1, rv |-> d.rv + 1, marker |-> m,
         replicas |-> r, template |-> t, paused |-> FALSE,
         observed |-> FALSE, health |-> "Unavailable"]

ExternalWrite(d, e) ==
  \/ d.exists /\ (Edited(d, e) \/ StatusReported(d, e) \/ Deleted(d, e))
  \/ ~d.exists /\ Recreated(d, e)
=============================================================================
