---------------------------- MODULE ReviewedChange ----------------------------
(***************************************************************************)
(* What every guarded operation promises, with or without a durable store: *)
(* a change takes effect at most once, as it was reviewed, and only after  *)
(* its review was used up by one execution.  GuardedOperations implements  *)
(* this for plans kept in memory, DurableOperations for those in records.  *)
(***************************************************************************)
CONSTANTS
  Plan,    \* plan IDs
  Asked,   \* changes one can ask for
  None     \* no change

VARIABLES
  reviewed,  \* [Plan -> the change under this plan]
  spent,     \* plans that an execution has used up
  effect     \* [Plan -> the change that reached the cluster]

vars == <<reviewed, spent, effect>>

Init ==
  /\ reviewed = [o \in Plan |-> None]
  /\ spent = {}
  /\ effect = [o \in Plan |-> None]

Review(o, c) ==
  /\ reviewed[o] = None
  /\ reviewed' = [reviewed EXCEPT ![o] = c]
  /\ UNCHANGED <<spent, effect>>

Spend(o) ==
  /\ reviewed[o] # None /\ o \notin spent
  /\ spent' = spent \union {o}
  /\ UNCHANGED <<reviewed, effect>>

TakeEffect(o) ==
  /\ o \in spent /\ effect[o] = None
  /\ effect' = [effect EXCEPT ![o] = reviewed[o]]
  /\ UNCHANGED <<reviewed, spent>>

Next ==
  \E o \in Plan :
    \/ \E c \in Asked : Review(o, c)
    \/ Spend(o)
    \/ TakeEffect(o)

Spec == Init /\ [][Next]_vars
=============================================================================
