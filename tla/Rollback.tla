-------------------------------- MODULE Rollback --------------------------------
(***************************************************************************)
(* RollbackHistory and TemplateWalk under names of their own, beside       *)
(* GuardedOperations, which keeps of a rollback only that it restores some *)
(* earlier template.                                                       *)
(***************************************************************************)
EXTENDS Naturals, Sequences, FiniteSets

CONSTANTS
  PodTemplate, Key, Scalar, Absent, HistoryLimit, MaxRevision, MaxRv

VARIABLES deployment, sets, order, step, read, restore

historyVars == <<deployment, sets, order, step, read, restore>>

History == INSTANCE RollbackHistory WITH
  Template <- PodTemplate, None <- Absent, at <- step, plan <- restore

VARIABLES left, right, todo, found

walkVars == <<left, right, todo, found>>

Walk == INSTANCE TemplateWalk WITH Template <- PodTemplate

rollbackVars == <<historyVars, walkVars>>

ASSUME RollbackBounds ==
  History!HistoryBounds /\ \A t \in PodTemplate : Walk!IsDocument(t)

HistoryActs == History!Next /\ UNCHANGED walkVars

WalkActs == Walk!Next /\ UNCHANGED historyVars

RollbackSpec ==
  History!Init /\ Walk!Init /\ [][HistoryActs \/ WalkActs]_rollbackVars

-----------------------------------------------------------------------------
\* Once its controller has seen the spec, a Deployment gets back what was rolled out
\* before (recovery.go:25-41).
RestoresPrevious ==
  [][History!Execute /\ deployment.observed =>
       History!Previous(restore.template)]_historyVars

\* docs/incident-response.md:69-70: a rollback "lists changed field paths".  Whatever
\* one that can still be executed takes away from the Deployment or gives to it was
\* reviewed.
ReviewCovers ==
  step \in {"dryrun", "planned"} /\ History!Tested =>
    Walk!Covers(restore.changes, deployment.template, restore.template)

\* And recovery.go:47-87 finds exactly that, in whatever order it visits the members of
\* two templates.
NothingIsHidden ==
  /\ ReviewCovers
  /\ Walk!FindsChanges /\ (todo = {} => Walk!Covers(found, left, right))
=============================================================================
