------------------------------ MODULE TemplateDiff ------------------------------
(***************************************************************************)
(* The field paths that a rollback is reviewed by (templateChanges in      *)
(* recovery.go): where two pod templates, as JSON, part, without values.   *)
(*                                                                         *)
(* A document is a function: it has a node at the path of everything that  *)
(* is in it, and a path is a sequence of the keys of objects and positions *)
(* in arrays.  A null member is like none at all, as it is in the code,    *)
(* where either one is read as nil.                                        *)
(***************************************************************************)
EXTENDS Naturals, Sequences, SequencesExt

CONSTANTS
  Key,      \* of the members of an object
  Scalar    \* strings, numbers and Booleans

Path == Seq(Key \union Nat)

Node ==
  [kind : {"object"}] \union [kind : {"array"}, len : Nat]
    \union [kind : {"scalar"}, value : Scalar]

\* What a node has below it.
Holds(node, k) ==
  \/ node.kind = "object" /\ k \in Key
  \/ node.kind = "array" /\ k \in Nat /\ k < node.len

Above(path, n) == SubSeq(path, 1, n)

IsDocument(d) ==
  /\ <<>> \in DOMAIN d /\ DOMAIN d \subseteq Path
  /\ \A p \in DOMAIN d :
       /\ d[p] \in Node
       /\ \A n \in 1..Len(p) :
            Above(p, n - 1) \in DOMAIN d /\ Holds(d[Above(p, n - 1)], p[n])

\* What a path leads to.
At(d, path) == [p \in {q \in DOMAIN d : IsPrefix(path, q)} |-> d[p]]

-----------------------------------------------------------------------------
\* reflect.DeepEqual.
Same(before, after, path) == At(before, path) = At(after, path)

\* What is walked down: two objects, or two arrays of one length.
Alike(before, after, path) ==
  /\ path \in DOMAIN before \intersect DOMAIN after
  /\ \/ before[path].kind = "object" /\ after[path].kind = "object"
     \/ /\ before[path].kind = "array" /\ after[path].kind = "array"
        /\ before[path].len = after[path].len

\* Only what both have.
MutBelow(before, after, path) ==
  {p \in DOMAIN before \intersect DOMAIN after : IsPrefix(path, p) /\ Len(p) = Len(path) + 1}

\* The members of two objects, those that only one has included, or the items of
\* two arrays.
Below(before, after, path) ==
  {p \in DOMAIN before \union DOMAIN after : IsPrefix(path, p) /\ Len(p) = Len(path) + 1}

\* Where the walk (TemplateWalk) ends: at a difference with something alike above it
\* all the way.
templateChanges(before, after) ==
  {p \in DOMAIN before \union DOMAIN after :
     /\ ~Same(before, after, p) /\ ~Alike(before, after, p)
     /\ \A n \in 1..Len(p) : Alike(before, after, Above(p, n - 1))}

-----------------------------------------------------------------------------
\* What differs is at or below a path that is listed, or above it, and nothing is
\* listed that does not differ, or twice: no listed path is below another one.
Covers(changes, before, after) ==
  /\ \A p \in DOMAIN before \union DOMAIN after :
       ~Same(before, after, p) => \E c \in changes : IsPrefix(c, p) \/ IsPrefix(p, c)
  /\ \A c \in changes : ~Same(before, after, c)
  /\ \A c, d \in changes : IsPrefix(c, d) => c = d
=============================================================================
