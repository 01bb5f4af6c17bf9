------------------------- MODULE MCDurableOperations -------------------------
(***************************************************************************)
(* Instances of DurableOperations for TLC.                                 *)
(***************************************************************************)
EXTENDS DurableOperations, TLC

\* Neither the specification nor its properties tell apart the members of the
\* sets below; workers only as far as some of them are denied the target.
Symmetry ==
  UNION {Permutations(S) : S \in {Request, Actor, Replicas, Template, Op}}
    \union Permutations(Denying) \union Permutations(Worker \ Denying)
=============================================================================
