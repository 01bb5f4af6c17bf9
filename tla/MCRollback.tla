------------------------------- MODULE MCRollback -------------------------------
(***************************************************************************)
(* Rollback for TLC: what a rollback restores, and the field paths that it *)
(* is reviewed by.  A behaviour of the instance is one of two:             *)
(*   - rollback: the history of a Deployment, with three templates;        *)
(*   - review: the walk down any two small templates.                      *)
(***************************************************************************)
EXTENDS Rollback, SequencesExt, TLC

CONSTANTS
  Image, Args, Labels   \* members of a template

VARIABLE part   \* the instance that acts

-----------------------------------------------------------------------------
Value(n) == <<>> :> [kind |-> "scalar", value |-> n]

\* A node, and what is below it.
Tree(node, members) ==
  [p \in {<<>>} \union UNION {{<<k>> \o q : q \in DOMAIN members[k]} : k \in DOMAIN members} |->
     IF p = <<>> THEN node ELSE members[Head(p)][Tail(p)]]

Items(s) == Tree([kind |-> "array", len |-> Len(s)], [i \in 0..(Len(s) - 1) |-> s[i + 1]])

Object(m) == Tree([kind |-> "object"], m)

\* The second one has another image and a label, the third one an argument more.
FirstTemplate == Object(Image :> Value(1) @@ Args :> Items(<<Value(1)>>))

Templates ==
  {FirstTemplate,
   Object(Image :> Value(2) @@ Args :> Items(<<Value(1)>>)
            @@ Labels :> Object(Image :> Value(1))),
   Object(Image :> Value(1) @@ Args :> Items(<<Value(1), Value(2)>>))}

\* All the templates with up to two members, which are scalars, arrays of up to two
\* scalars, arrays of up to one object, or objects of up to one member.
SmallTemplates ==
  LET objects(keys, values) == {Object(m) : m \in UNION {[ks -> values] : ks \in SUBSET keys}}
      arrays(values, n) == {Items(s) : s \in BoundedSeq(values, n)}
      scalars == {Value(1), Value(2)}
      inner == objects({Image}, scalars)
  IN  objects({Image, Args}, scalars \union inner
                              \union arrays({Value(1)}, 2) \union arrays(inner, 1))

-----------------------------------------------------------------------------
Rest == "rest"

HistoryRests ==
  /\ deployment = Rest /\ sets = Rest /\ order = Rest
  /\ step = Rest /\ read = Rest /\ restore = Rest

WalkRests == Walk!Start(FirstTemplate, FirstTemplate)

RollbackInit ==
  \/ part = "rollback" /\ History!Init /\ WalkRests
  \/ /\ part = "review" /\ HistoryRests
     /\ \E before, after \in SmallTemplates : Walk!Start(before, after)
  \/ part \notin {"rollback", "review"} /\ HistoryRests /\ WalkRests

RollbackActs ==
  /\ (part = "rollback" /\ HistoryActs) \/ (part = "review" /\ WalkActs)
  /\ UNCHANGED part
=============================================================================
