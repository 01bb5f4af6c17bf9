------------------------------ MODULE TemplateWalk ------------------------------
(***************************************************************************)
(* How templateChanges in recovery.go finds the changed field paths: visit *)
(* goes down the two templates together.  Its calls are the steps here;    *)
(* which one comes first is left open, as the order of the keys of a map   *)
(* is, and the paths are sorted at the end.                                *)
(***************************************************************************)
EXTENDS TemplateDiff

CONSTANTS
  Template      \* pod templates, as JSON

VARIABLES
  left, right,  \* the two templates
  todo,         \* paths to be visited
  found         \* changes

vars == <<left, right, todo, found>>

Start(before, after) ==
  left = before /\ right = after /\ todo = {<<>>} /\ found = {}

Init == \E before, after \in Template : Start(before, after)

Pass(path) ==
  /\ Same(left, right, path)
  /\ todo' = todo \ {path} /\ UNCHANGED found

Descend(path) ==
  /\ ~Same(left, right, path) /\ Alike(left, right, path)
  /\ todo' = (todo \ {path}) \union Below(left, right, path) /\ UNCHANGED found

Report(path) ==
  /\ ~Same(left, right, path) /\ ~Alike(left, right, path)
  /\ todo' = todo \ {path} /\ found' = found \union {path}

visit(path) ==
  (Pass(path) \/ Descend(path) \/ Report(path)) /\ UNCHANGED <<left, right>>

Next == \E path \in todo : visit(path)

Spec == Init /\ [][Next]_vars
-----------------------------------------------------------------------------
TypeOK ==
  /\ left \in Template /\ right \in Template
  /\ todo \union found \subseteq DOMAIN left \union DOMAIN right

\* recovery.go:54-84: the walk ends with the changes, each in its place.
FindsChanges == todo = {} => found = templateChanges(left, right)
=============================================================================
