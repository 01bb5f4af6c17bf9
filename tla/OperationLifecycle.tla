-------------------------- MODULE OperationLifecycle --------------------------
(***************************************************************************)
(* What a durable operation promises to the people who plan, approve and   *)
(* audit it, without workers, claims, clocks or an API server: the states  *)
(* an operation's record moves through, and when, relative to them, its    *)
(* change may reach the cluster.  DurableOperations implements this.       *)
(***************************************************************************)
EXTENDS Naturals

CONSTANT Op

VARIABLES
  state,    \* [Op -> the state field of the operation's record]
  applied   \* operations whose change has reached the Deployment

vars == <<state, applied>>

Terminal == {"Succeeded", "Failed", "Expired", "NeedsReview"}

State == {"Absent", "Planned", "Approved", "Executing", "Verifying"}
           \union Terminal

Init == state = [o \in Op |-> "Absent"] /\ applied = {}

Move(o, from, to) ==
  /\ state[o] \in from
  /\ state' = [state EXCEPT ![o] = to]
  /\ UNCHANGED applied

Plan(o) == Move(o, {"Absent"}, "Planned")

Approve(o) == Move(o, {"Planned"}, "Approved")

\* An operation nobody approved in time is over, and was never applied.
Expire(o) == Move(o, {"Planned"}, "Expired")

Execute(o) == Move(o, {"Approved"}, "Executing")

\* The change takes effect at most once, and never before an approved
\* operation is executing.  The request may still be travelling when its
\* sender is given up on, so it can land after the record was closed for a
\* human to review or as failed; it cannot land once the record says that
\* the change was seen.
TakeEffect(o) ==
  /\ state[o] \in {"Executing", "Failed", "NeedsReview"}
  /\ o \notin applied
  /\ applied' = applied \union {o}
  /\ UNCHANGED state

\* Only a change that was made can be followed up or reported as a success.
Verify(o) == o \in applied /\ Move(o, {"Executing"}, "Verifying")

Succeed(o) == o \in applied /\ Move(o, {"Executing", "Verifying"}, "Succeeded")

Fail(o) == Move(o, {"Executing"}, "Failed")

Review(o) == Move(o, {"Executing", "Verifying"}, "NeedsReview")

Next ==
  \E o \in Op :
    \/ Plan(o)   \/ Approve(o) \/ Expire(o)  \/ Execute(o) \/ TakeEffect(o)
    \/ Verify(o) \/ Succeed(o) \/ Fail(o)    \/ Review(o)

Spec == Init /\ [][Next]_vars
=============================================================================
