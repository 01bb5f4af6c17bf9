----------------------------- MODULE RollbackProofs -----------------------------
(***************************************************************************)
(* Proofs about Rollback: whatever others write, and the Deployment        *)
(* controller numbers, annotates and prunes, between the steps of a        *)
(* rollback, it restores what was rolled out before; and whatever it       *)
(* changes, in templates of any depth, was reviewed.                       *)
(***************************************************************************)
EXTENDS Rollback, FiniteSetTheorems, WellFoundedInduction, SequenceTheorems, TLAPS

-----------------------------------------------------------------------------
(* Naturals and paths.                                                      *)

\* Well-founded induction without a predicate: the intervals up to the elements of a
\* set have a smallest one.
LEMMA LeastElement ==
  ASSUME NEW S \in SUBSET Nat, S # {}
  PROVE  \E n \in S : \A m \in S : n <= m
<1> DEFINE T == {0..n : n \in S}
<1>1. T \subseteq FiniteSubsetsOf(Nat)
  <2>1. ASSUME NEW n \in S PROVE (0..n) \in FiniteSubsetsOf(Nat)
    <3>1. IsFiniteSet(0..n) BY FS_Interval
    <3>2. (0..n) \subseteq Nat OBVIOUS
    <3> QED BY <3>1, <3>2 DEF FiniteSubsetsOf
  <2> QED BY <2>1
<1>2. T # {} OBVIOUS
<1>3. IsWellFoundedOn(StrictSubsetOrdering(Nat), FiniteSubsetsOf(Nat))
  BY FS_StrictSubsetOrderingWellFounded
<1>4. \E t \in T : \A u \in T : <<u, t>> \notin StrictSubsetOrdering(Nat)
  <2> HIDE DEF T
  <2> QED BY <1>1, <1>2, <1>3, WFMin
<1>5. PICK n \in S : \A m \in S : <<0..m, 0..n>> \notin StrictSubsetOrdering(Nat)
  BY <1>4
<1>6. ASSUME NEW m \in S, m < n PROVE FALSE
  <2>1. (0..m) \subseteq (0..n) /\ (0..m) \subseteq Nat /\ (0..n) \subseteq Nat
    BY <1>6
  <2>2. (0..m) # (0..n)
    <3>1. n \in 0..n /\ n \notin 0..m BY <1>6
    <3> QED BY <3>1
  <2> QED BY <1>5, <2>1, <2>2 DEF StrictSubsetOrdering
<1>7. \A m \in S : n <= m
  <2> SUFFICES ASSUME NEW m \in S PROVE n <= m
    OBVIOUS
  <2>1. m \in Nat /\ n \in Nat OBVIOUS
  <2> QED BY <1>6, <2>1
<1> QED BY <1>7

LEMMA AboveIs ==
  ASSUME NEW S, NEW p \in Seq(S), NEW n \in 0..Len(p)
  PROVE  /\ Walk!Above(p, n) \in Seq(S) /\ Len(Walk!Above(p, n)) = n
         /\ \A i \in 1..n : Walk!Above(p, n)[i] = p[i]
BY DEF Walk!Above

LEMMA AboveAbove ==
  ASSUME NEW S, NEW p \in Seq(S), NEW n \in 0..Len(p), NEW m \in 0..n
  PROVE  Walk!Above(Walk!Above(p, n), m) = Walk!Above(p, m)
<1>1. /\ Walk!Above(p, n) \in Seq(S) /\ Len(Walk!Above(p, n)) = n
      /\ \A i \in 1..n : Walk!Above(p, n)[i] = p[i]
  BY AboveIs
<1>2. /\ Walk!Above(Walk!Above(p, n), m) \in Seq(S)
      /\ Len(Walk!Above(Walk!Above(p, n), m)) = m
      /\ \A i \in 1..m : Walk!Above(Walk!Above(p, n), m)[i] = Walk!Above(p, n)[i]
  BY <1>1, AboveIs
<1>3. m \in 0..Len(p) /\ \A i \in 1..m : i \in 1..n OBVIOUS
<1>4. /\ Walk!Above(p, m) \in Seq(S) /\ Len(Walk!Above(p, m)) = m
      /\ \A i \in 1..m : Walk!Above(p, m)[i] = p[i]
  BY <1>3, AboveIs
<1> QED BY <1>1, <1>2, <1>3, <1>4, SeqEqual

LEMMA AboveAll ==
  ASSUME NEW S, NEW p \in Seq(S)
  PROVE  Walk!Above(p, Len(p)) = p
<1>1. Len(p) \in 0..Len(p) OBVIOUS
<1> QED BY <1>1, AboveIs, SeqEqual

LEMMA PrefixIsAbove ==
  ASSUME NEW S, NEW p \in Seq(S), NEW q \in Seq(S)
  PROVE  Walk!IsPrefix(p, q) <=> Len(p) \in 0..Len(q) /\ p = Walk!Above(q, Len(p))
<1>1. SubSeq(p, 1, Len(p)) = p BY AboveAll DEF Walk!Above
<1>2. Len(p) \in Nat /\ Len(q) \in Nat OBVIOUS
<1> QED BY <1>1, <1>2 DEF Walk!IsPrefix, Walk!Above

LEMMA AboveIsPrefix ==
  ASSUME NEW S, NEW p \in Seq(S), NEW n \in 0..Len(p), NEW m \in 0..n
  PROVE  /\ Walk!IsPrefix(Walk!Above(p, n), p)
         /\ Walk!IsPrefix(Walk!Above(p, m), Walk!Above(p, n))
<1>1. m \in 0..Len(p) OBVIOUS
<1>2. /\ Walk!Above(p, n) \in Seq(S) /\ Len(Walk!Above(p, n)) = n
      /\ Walk!Above(p, m) \in Seq(S) /\ Len(Walk!Above(p, m)) = m
  BY <1>1, AboveIs
<1> QED BY <1>2, PrefixIsAbove, AboveAbove

LEMMA PrefixOfPrefix ==
  ASSUME NEW S, NEW p \in Seq(S), NEW q \in Seq(S), NEW r \in Seq(S),
         Walk!IsPrefix(p, q), Walk!IsPrefix(q, r)
  PROVE  Walk!IsPrefix(p, r)
<1>1. /\ Len(p) \in 0..Len(q) /\ p = Walk!Above(q, Len(p))
      /\ Len(q) \in 0..Len(r) /\ q = Walk!Above(r, Len(q))
  BY PrefixIsAbove
<1>2. p = Walk!Above(r, Len(p)) BY <1>1, AboveAbove
<1>3. Len(p) \in 0..Len(r) BY <1>1
<1> QED BY <1>2, <1>3, PrefixIsAbove

-----------------------------------------------------------------------------
(* What is listed covers what differs.                                      *)

Both(b, a) == DOMAIN b \union DOMAIN a

\* The same node, or none.
Agree(b, a, p) == p \in DOMAIN b \intersect DOMAIN a /\ b[p] = a[p]

LEMMA SameIsPointwise ==
  ASSUME NEW b, NEW a, NEW p
  PROVE  Walk!Same(b, a, p) <=>
           \A q \in Both(b, a) : Walk!IsPrefix(p, q) => Agree(b, a, q)
<1> DEFINE B == {q \in DOMAIN b : Walk!IsPrefix(p, q)}
           A == {q \in DOMAIN a : Walk!IsPrefix(p, q)}
<1>1. Walk!At(b, p) = [q \in B |-> b[q]] /\ Walk!At(a, p) = [q \in A |-> a[q]]
  BY DEF Walk!At
<1>2. ASSUME Walk!Same(b, a, p), NEW q \in Both(b, a), Walk!IsPrefix(p, q)
      PROVE  Agree(b, a, q)
  <2>1. [r \in B |-> b[r]] = [r \in A |-> a[r]] BY <1>1, <1>2 DEF Walk!Same
  <2>2. DOMAIN [r \in B |-> b[r]] = B /\ DOMAIN [r \in A |-> a[r]] = A
    OBVIOUS
  <2>3. B = A BY <2>1, <2>2
  <2>4. q \in B /\ q \in A BY <1>2, <2>3 DEF Both
  <2>5. [r \in B |-> b[r]][q] = b[q] /\ [r \in A |-> a[r]][q] = a[q] BY <2>4
  <2> QED BY <2>1, <2>4, <2>5 DEF Agree
<1>3. ASSUME \A q \in Both(b, a) : Walk!IsPrefix(p, q) => Agree(b, a, q)
      PROVE  Walk!Same(b, a, p)
  <2>1. B = A BY <1>3 DEF Agree, Both
  <2>2. \A q \in B : b[q] = a[q] BY <1>3 DEF Agree, Both
  <2> QED BY <1>1, <2>1, <2>2 DEF Walk!Same
<1> QED BY <1>2, <1>3

LEMMA AlikeAgrees ==
  ASSUME NEW b, NEW a, Walk!IsDocument(b), Walk!IsDocument(a),
         NEW p, Walk!Alike(b, a, p)
  PROVE  Agree(b, a, p)
<1>1. p \in DOMAIN b \intersect DOMAIN a /\ b[p] \in Walk!Node /\ a[p] \in Walk!Node
  BY DEF Walk!Alike, Walk!IsDocument
<1>2. CASE b[p].kind = "object" /\ a[p].kind = "object"
  <2>1. b[p] \in [kind : {"object"}] /\ a[p] \in [kind : {"object"}]
    BY <1>1, <1>2 DEF Walk!Node
  <2> QED BY <1>1, <2>1 DEF Agree
<1>3. CASE b[p].kind = "array" /\ a[p].kind = "array" /\ b[p].len = a[p].len
  <2>1. b[p] \in [kind : {"array"}, len : Nat] /\ a[p] \in [kind : {"array"}, len : Nat]
    BY <1>1, <1>3 DEF Walk!Node
  <2> QED BY <1>1, <1>3, <2>1 DEF Agree
<1> QED BY <1>2, <1>3 DEF Walk!Alike

\* What is above a path of a document is in it, too.
LEMMA PathsAreClosed ==
  ASSUME NEW b, NEW a, Walk!IsDocument(b), Walk!IsDocument(a),
         NEW p \in Both(b, a)
  PROVE  p \in Walk!Path /\ \A n \in 0..Len(p) : Walk!Above(p, n) \in Both(b, a)
<1>1. p \in Walk!Path BY DEF Both, Walk!IsDocument
<1>2. ASSUME NEW n \in 0..Len(p) PROVE Walk!Above(p, n) \in Both(b, a)
  <2>1. CASE n = Len(p) BY <1>1, <2>1, AboveAll DEF Walk!Path
  <2>2. CASE n # Len(p)
    <3>1. n + 1 \in 1..Len(p) /\ (n + 1) - 1 = n
      <4>1. Len(p) \in Nat BY <1>1 DEF Walk!Path
      <4> QED BY <2>2, <4>1
    <3>2. CASE p \in DOMAIN b BY <3>1, <3>2 DEF Walk!IsDocument, Both
    <3>3. CASE p \in DOMAIN a BY <3>1, <3>3 DEF Walk!IsDocument, Both
    <3> QED BY <3>2, <3>3 DEF Both
  <2> QED BY <2>1, <2>2
<1> QED BY <1>1, <1>2

\* The shortest path to where two documents are not alike.
LEMMA PartingPoint ==
  ASSUME NEW b, NEW a, Walk!IsDocument(b), Walk!IsDocument(a),
         NEW r \in Both(b, a), ~Walk!Alike(b, a, r)
  PROVE  \E m \in 0..Len(r) :
           /\ Walk!Above(r, m) \in Both(b, a) /\ ~Walk!Alike(b, a, Walk!Above(r, m))
           /\ \A n \in 0..(m - 1) : Walk!Alike(b, a, Walk!Above(r, n))
<1> DEFINE Apart == {n \in 0..Len(r) : ~Walk!Alike(b, a, Walk!Above(r, n))}
<1>1. r \in Walk!Path /\ \A n \in 0..Len(r) : Walk!Above(r, n) \in Both(b, a)
  BY PathsAreClosed
<1>2. Walk!Above(r, Len(r)) = r /\ Len(r) \in Nat BY <1>1, AboveAll DEF Walk!Path
<1>3. Len(r) \in Apart BY <1>2
<1>4. PICK m \in Apart : \A n \in Apart : m <= n
  <2>1. Apart \subseteq Nat /\ Apart # {} BY <1>3
  <2> HIDE DEF Apart
  <2> QED BY <2>1, LeastElement
<1>5. \A n \in 0..(m - 1) : Walk!Alike(b, a, Walk!Above(r, n))
  <2>1. \A n \in 0..(m - 1) : n \in 0..Len(r) /\ ~(m <= n) BY <1>2
  <2> QED BY <1>4, <2>1
<1> QED BY <1>1, <1>5

\* Nothing is hidden: below or above whatever differs there is the path of a change.
LEMMA ChangesCover ==
  ASSUME NEW b, NEW a, Walk!IsDocument(b), Walk!IsDocument(a)
  PROVE  Walk!Covers(Walk!templateChanges(b, a), b, a)
<1>1. ASSUME NEW p \in Both(b, a), ~Walk!Same(b, a, p)
      PROVE  \E c \in Walk!templateChanges(b, a) : Walk!IsPrefix(c, p) \/ Walk!IsPrefix(p, c)
  <2>1. PICK r \in Both(b, a) : Walk!IsPrefix(p, r) /\ ~Agree(b, a, r)
    BY <1>1, SameIsPointwise
  <2>2. ~Walk!Alike(b, a, r) BY <2>1, AlikeAgrees
  <2>3. PICK m \in 0..Len(r) :
          /\ Walk!Above(r, m) \in Both(b, a) /\ ~Walk!Alike(b, a, Walk!Above(r, m))
          /\ \A n \in 0..(m - 1) : Walk!Alike(b, a, Walk!Above(r, n))
    BY <2>2, PartingPoint
  <2> DEFINE c == Walk!Above(r, m)
  <2>4. p \in Walk!Path /\ r \in Walk!Path BY PathsAreClosed
  <2>5. c \in Walk!Path /\ Len(c) = m /\ Walk!IsPrefix(c, r)
    BY <2>4, AboveIs, AboveIsPrefix, m \in 0..m DEF Walk!Path
  <2>6. ~Walk!Same(b, a, c) BY <2>1, <2>5, SameIsPointwise
  <2>7. \A n \in 1..m : Walk!Alike(b, a, Walk!Above(c, n - 1))
    <3> SUFFICES ASSUME NEW n \in 1..m PROVE Walk!Alike(b, a, Walk!Above(c, n - 1))
      OBVIOUS
    <3>1. n - 1 \in 0..(m - 1) /\ n - 1 \in 0..m OBVIOUS
    <3>2. Walk!Above(c, n - 1) = Walk!Above(r, n - 1)
      BY <2>4, <3>1, AboveAbove DEF Walk!Path
    <3> QED BY <2>3, <3>1, <3>2
  <2>8. c \in Walk!templateChanges(b, a)
    BY <2>3, <2>5, <2>6, <2>7 DEF Walk!templateChanges, Both
  <2>9. Walk!IsPrefix(c, p) \/ Walk!IsPrefix(p, c)
    <3>1. Len(p) \in 0..Len(r) /\ p = Walk!Above(r, Len(p))
      BY <2>1, <2>4, PrefixIsAbove DEF Walk!Path
    <3>2. m \in 0..Len(p) \/ Len(p) \in 0..m BY <3>1
    <3> HIDE DEF c
    <3>3. c = Walk!Above(r, m) BY DEF c
    <3> QED BY <2>4, <3>1, <3>2, <3>3, AboveIsPrefix DEF Walk!Path
  <2> QED BY <2>8, <2>9
<1>2. ASSUME NEW c \in Walk!templateChanges(b, a),
             NEW d \in Walk!templateChanges(b, a), Walk!IsPrefix(c, d)
      PROVE  c = d
  <2>1. c \in Walk!Path /\ d \in Walk!Path
    BY PathsAreClosed DEF Walk!templateChanges, Both
  <2>2. Len(c) \in 0..Len(d) /\ c = Walk!Above(d, Len(c))
    BY <1>2, <2>1, PrefixIsAbove DEF Walk!Path
  <2>3. CASE Len(c) = Len(d)
    BY <2>1, <2>2, <2>3, AboveIs DEF Walk!Path
  <2>4. CASE Len(c) < Len(d)
    <3>1. Len(c) + 1 \in 1..Len(d) /\ (Len(c) + 1) - 1 = Len(c)
      BY <2>2, <2>4
    <3>2. Walk!Alike(b, a, Walk!Above(d, Len(c)))
      BY <3>1 DEF Walk!templateChanges
    <3>3. ~Walk!Alike(b, a, c)
      BY DEF Walk!templateChanges
    <3> QED BY <2>2, <3>2, <3>3
  <2> QED BY <2>2, <2>3, <2>4
<1> QED BY <1>1, <1>2 DEF Walk!Covers, Walk!templateChanges, Both

-----------------------------------------------------------------------------
(* The walk down two templates.                                             *)

\* Everything above a path is walked down.
Reached(p) ==
  /\ p \in Both(left, right)
  /\ \A n \in 1..Len(p) : Walk!Alike(left, right, Walk!Above(p, n - 1))

\* No change is left out: what is not found is still to be visited, or below that.
WalkInv ==
  /\ left \in PodTemplate /\ right \in PodTemplate
  /\ \A p \in todo : Reached(p)
  /\ found \subseteq Walk!templateChanges(left, right)
  /\ \A c \in Walk!templateChanges(left, right) :
       c \in found \/ \E p \in todo : Walk!IsPrefix(p, c)

LEMMA Documents ==
  /\ \A t \in PodTemplate : Walk!IsDocument(t)
  /\ WalkInv => Walk!IsDocument(left) /\ Walk!IsDocument(right)
BY RollbackBounds DEF WalkInv

LEMMA ChangesAreReached ==
  ASSUME NEW c
  PROVE  c \in Walk!templateChanges(left, right) <=>
           Reached(c) /\ ~Walk!Same(left, right, c) /\ ~Walk!Alike(left, right, c)
BY DEF Walk!templateChanges, Reached, Both

LEMMA InitWalk == Walk!Init => WalkInv
<1> SUFFICES ASSUME Walk!Init PROVE WalkInv
  OBVIOUS
<1>1. left \in PodTemplate /\ right \in PodTemplate /\ todo = {<<>>} /\ found = {}
  BY DEF Walk!Init, Walk!Start
<1>2. Walk!IsDocument(left) /\ Walk!IsDocument(right) BY <1>1, Documents
<1>3. Reached(<<>>)
  <2>1. Len(<<>>) = 0 /\ <<>> \in Both(left, right) BY <1>2 DEF Walk!IsDocument, Both
  <2> QED BY <2>1 DEF Reached
<1>4. ASSUME NEW c \in Walk!templateChanges(left, right) PROVE Walk!IsPrefix(<<>>, c)
  <2>1. c \in Walk!Path BY <1>2, ChangesAreReached, PathsAreClosed DEF Reached
  <2>2. <<>> \in Walk!Path /\ Len(<<>>) = 0 /\ 0 \in 0..Len(c)
    BY <2>1 DEF Walk!Path
  <2>3. <<>> = Walk!Above(c, 0) BY <2>1, <2>2, AboveIs DEF Walk!Path
  <2> QED BY <2>1, <2>2, <2>3, PrefixIsAbove DEF Walk!Path
<1> QED BY <1>1, <1>3, <1>4 DEF WalkInv

\* A child of a path that is walked down.
LEMMA BelowIsReached ==
  ASSUME WalkInv, NEW p \in todo, Walk!Alike(left, right, p),
         NEW q \in Walk!Below(left, right, p)
  PROVE  Reached(q)
<1>1. /\ q \in Both(left, right) /\ Walk!IsPrefix(p, q) /\ Len(q) = Len(p) + 1
      /\ Reached(p)
  BY DEF Walk!Below, Both, WalkInv
<1>2. p \in Walk!Path /\ q \in Walk!Path
  BY <1>1, Documents, PathsAreClosed DEF Reached
<1>3. Len(p) \in 0..Len(q) /\ p = Walk!Above(q, Len(p))
  BY <1>1, <1>2, PrefixIsAbove DEF Walk!Path
<1>4. ASSUME NEW n \in 1..Len(q) PROVE Walk!Alike(left, right, Walk!Above(q, n - 1))
  <2>1. CASE n - 1 = Len(p) BY <1>3, <2>1
  <2>2. CASE n - 1 # Len(p)
    <3>1. n \in 1..Len(p) /\ n - 1 \in 0..Len(p)
      <4>1. Len(p) \in Nat BY <1>2 DEF Walk!Path
      <4> QED BY <1>1, <2>2, <4>1
    <3>2. Walk!Above(q, n - 1) = Walk!Above(p, n - 1)
      BY <1>2, <1>3, <3>1, AboveAbove DEF Walk!Path
    <3> QED BY <1>1, <3>1, <3>2 DEF Reached
  <2> QED BY <2>1, <2>2
<1> QED BY <1>1, <1>4 DEF Reached

\* What is below a path that is walked down is below one of its children.
LEMMA ChildAbove ==
  ASSUME WalkInv, NEW p \in todo, NEW c \in Walk!templateChanges(left, right),
         Walk!IsPrefix(p, c), p # c
  PROVE  \E q \in Walk!Below(left, right, p) : Walk!IsPrefix(q, c)
<1>1. Reached(p) /\ Reached(c) BY ChangesAreReached DEF WalkInv
<1>2. p \in Walk!Path /\ c \in Walk!Path /\ \A n \in 0..Len(c) : Walk!Above(c, n) \in Both(left, right)
  BY <1>1, Documents, PathsAreClosed DEF Reached
<1>3. Len(p) \in 0..Len(c) /\ p = Walk!Above(c, Len(p))
  BY <1>2, PrefixIsAbove DEF Walk!Path
<1>4. Len(p) # Len(c) BY <1>2, <1>3, AboveAll DEF Walk!Path
<1> DEFINE n == Len(p) + 1
           q == Walk!Above(c, n)
<1>5. n \in 0..Len(c) /\ Len(p) \in 0..n
  <2>1. Len(p) \in Nat /\ Len(c) \in Nat BY <1>2 DEF Walk!Path
  <2> QED BY <1>3, <1>4, <2>1
<1>6. Len(q) = n /\ Walk!IsPrefix(q, c) /\ Walk!IsPrefix(p, q)
  <2>1. Len(q) = n BY <1>2, <1>5, AboveIs DEF Walk!Path
  <2>2. Walk!IsPrefix(q, c) /\ Walk!IsPrefix(Walk!Above(c, Len(p)), q)
    BY <1>2, <1>5, AboveIsPrefix DEF Walk!Path
  <2> QED BY <1>3, <2>1, <2>2
<1> QED BY <1>2, <1>5, <1>6 DEF Walk!Below, Both

LEMMA StepWalk == WalkInv /\ [Walk!Next]_walkVars => WalkInv'
<1> SUFFICES ASSUME WalkInv, [Walk!Next]_walkVars PROVE WalkInv'
  OBVIOUS
<1>1. CASE UNCHANGED walkVars
  BY <1>1 DEF walkVars, WalkInv, Reached, Both, Walk!templateChanges, Walk!Same, Walk!Alike,
              Walk!At
<1>2. CASE Walk!Next
  <2>1. PICK p \in todo : Walk!visit(p) BY <1>2 DEF Walk!Next
  <2>2. left' = left /\ right' = right BY <2>1 DEF Walk!visit
  <2>3. /\ \A q : Reached(q)' <=> Reached(q)
        /\ Walk!templateChanges(left, right)' = Walk!templateChanges(left, right)
    BY <2>2 DEF Reached, Both
  <2>4. \A c \in Walk!templateChanges(left, right) :
          Reached(c) /\ ~Walk!Same(left, right, c) /\ ~Walk!Alike(left, right, c)
    BY ChangesAreReached
  <2>5. CASE Walk!Pass(p)
    <3>1. todo' = todo \ {p} /\ found' = found /\ Walk!Same(left, right, p)
      BY <2>5 DEF Walk!Pass
    <3>2. ASSUME NEW c \in Walk!templateChanges(left, right), Walk!IsPrefix(p, c)
          PROVE  FALSE
      <4>1. Reached(p) /\ Reached(c) /\ ~Walk!Same(left, right, c) BY <2>4 DEF WalkInv
      <4>2. PICK r \in Both(left, right) :
              Walk!IsPrefix(c, r) /\ ~Agree(left, right, r)
        BY <4>1, SameIsPointwise
      <4>3. p \in Walk!Path /\ c \in Walk!Path /\ r \in Walk!Path
        BY <4>1, Documents, PathsAreClosed DEF Reached
      <4>4. Walk!IsPrefix(p, r) BY <3>2, <4>2, <4>3, PrefixOfPrefix DEF Walk!Path
      <4> QED BY <3>1, <4>2, <4>4, SameIsPointwise
    <3> QED BY <2>2, <2>3, <3>1, <3>2 DEF WalkInv
  <2>6. CASE Walk!Descend(p)
    <3>1. /\ todo' = (todo \ {p}) \union Walk!Below(left, right, p) /\ found' = found
          /\ Walk!Alike(left, right, p)
      BY <2>6 DEF Walk!Descend
    <3>2. \A q \in Walk!Below(left, right, p) : Reached(q) BY <3>1, BelowIsReached
    <3>3. ASSUME NEW c \in Walk!templateChanges(left, right), Walk!IsPrefix(p, c)
          PROVE  \E q \in Walk!Below(left, right, p) : Walk!IsPrefix(q, c)
      BY <2>4, <3>1, <3>3, ChildAbove
    <3> QED BY <2>2, <2>3, <3>1, <3>2, <3>3 DEF WalkInv
  <2>7. CASE Walk!Report(p)
    <3>1. /\ todo' = todo \ {p} /\ found' = found \union {p}
          /\ ~Walk!Same(left, right, p) /\ ~Walk!Alike(left, right, p)
      BY <2>7 DEF Walk!Report
    <3>2. p \in Walk!templateChanges(left, right)
      BY <3>1, ChangesAreReached DEF WalkInv
    <3>3. ASSUME NEW c \in Walk!templateChanges(left, right), Walk!IsPrefix(p, c)
          PROVE  c = p
      <4>1. Reached(p) /\ Reached(c) BY <2>4 DEF WalkInv
      <4>2. p \in Walk!Path /\ c \in Walk!Path
        BY <4>1, Documents, PathsAreClosed DEF Reached
      <4>3. Len(p) \in 0..Len(c) /\ p = Walk!Above(c, Len(p))
        BY <3>3, <4>2, PrefixIsAbove DEF Walk!Path
      <4>4. CASE Len(p) = Len(c) BY <4>2, <4>3, <4>4, AboveAll DEF Walk!Path
      <4>5. CASE Len(p) # Len(c)
        <5>1. Len(p) + 1 \in 1..Len(c) /\ (Len(p) + 1) - 1 = Len(p)
          <6>1. Len(p) \in Nat /\ Len(c) \in Nat BY <4>2 DEF Walk!Path
          <6> QED BY <4>3, <4>5, <6>1
        <5>2. Walk!Alike(left, right, Walk!Above(c, (Len(p) + 1) - 1))
          BY <4>1, <5>1 DEF Reached
        <5> QED BY <3>1, <4>3, <5>1, <5>2
      <4> QED BY <4>4, <4>5
    <3> QED BY <2>2, <2>3, <3>1, <3>2, <3>3 DEF WalkInv
  <2> QED BY <2>1, <2>5, <2>6, <2>7 DEF Walk!visit
<1> QED BY <1>1, <1>2

-----------------------------------------------------------------------------
(* The history of a Deployment.                                             *)

Deployments ==
  [template : PodTemplate, rv : 1..MaxRv, paused : BOOLEAN, revision : 0..MaxRevision,
   observed : BOOLEAN]

Owned == {rs \in sets : rs.owned}

Rollouts == Len(order)

\* The revision of a ReplicaSet is its place in the history, where it was last; and the
\* newest one is there.
NumbersAreHistory ==
  /\ \A rs \in Owned :
       /\ rs.revision \in 1..Rollouts /\ order[rs.revision] = rs.template
       /\ \A j \in 1..Rollouts : j > rs.revision => order[j] # rs.template
  /\ Rollouts # 0 => \E rs \in Owned : rs.revision = Rollouts

\* What the controller has seen of a Deployment that is not paused was rolled out last,
\* and is annotated.
SeenIsLast ==
  deployment.observed /\ ~deployment.paused =>
    Rollouts # 0 /\ deployment.revision = Rollouts /\ deployment.template = order[Rollouts]

\* What was read is the Deployment, or an earlier one.
ReadIsPast ==
  step # "get" =>
    /\ read \in Deployments /\ ~read.paused /\ read.rv <= deployment.rv
    /\ read.rv = deployment.rv /\ step # "done" => read = deployment

\* What is restored has its ReplicaSet still, the last one but that of the Deployment.
RestoredIsPrevious ==
  step \in {"dryrun", "planned"} /\ read.rv = deployment.rv /\ deployment.observed =>
    \E best \in Owned :
      /\ best.template = restore.template /\ best.revision < Rollouts
      /\ \A rs \in Owned : rs.revision < Rollouts => rs.revision <= best.revision

HistoryInv ==
  /\ deployment \in Deployments /\ sets \subseteq History!Numbered
  /\ order \in Seq(PodTemplate) /\ Rollouts <= MaxRevision
  /\ step \in {"get", "list", "dryrun", "planned", "done"}
  /\ step \in {"dryrun", "planned", "done"} =>
       /\ restore.template \in PodTemplate /\ restore.revision \in 1..(read.revision - 1)
       /\ restore.changes = Walk!templateChanges(read.template, restore.template)
  /\ NumbersAreHistory /\ SeenIsLast /\ ReadIsPast /\ RestoredIsPrevious

LEMMA Bounds ==
  /\ HistoryLimit \in Nat /\ HistoryLimit >= 1 /\ MaxRv \in Nat /\ MaxRv >= 1
  /\ MaxRevision \in Nat /\ MaxRevision >= 2
BY RollbackBounds DEF History!HistoryBounds

\* The plan lists the changes that the walk is to find.
LEMMA OneListing ==
  \A b, a : History!templateChanges(b, a) = Walk!templateChanges(b, a)
<1>1. \A p, q : History!IsPrefix(p, q) <=> Walk!IsPrefix(p, q)
  BY DEF History!IsPrefix, Walk!IsPrefix
<1>2. \A d, p : History!At(d, p) = Walk!At(d, p) BY <1>1 DEF History!At, Walk!At
<1>3. \A b, a, p : /\ History!Same(b, a, p) <=> Walk!Same(b, a, p)
                   /\ History!Alike(b, a, p) <=> Walk!Alike(b, a, p)
  BY <1>2 DEF History!Same, Walk!Same, History!Alike, Walk!Alike
<1>4. \A p, n : History!Above(p, n) = Walk!Above(p, n) BY DEF History!Above, Walk!Above
<1> QED BY <1>3, <1>4 DEF History!templateChanges, Walk!templateChanges

LEMMA HighestIsLast ==
  ASSUME HistoryInv
  PROVE  /\ Rollouts \in Nat
         /\ \A n : History!Highest(n) <=> n = Rollouts
<1>1. Rollouts \in Nat BY DEF HistoryInv, Rollouts
<1>2. /\ \A rs \in Owned : rs.revision \in Nat /\ rs.revision <= Rollouts
      /\ Rollouts # 0 => \E rs \in Owned : rs.revision = Rollouts
  BY <1>1 DEF HistoryInv, NumbersAreHistory
<1>3. History!Revisions = {0} \union {rs.revision : rs \in Owned}
  BY DEF History!Revisions, Owned
<1>4. Rollouts \in History!Revisions BY <1>2, <1>3
<1>5. \A m \in History!Revisions : m \in Nat /\ m <= Rollouts BY <1>1, <1>2, <1>3
<1>6. History!Highest(Rollouts) BY <1>4, <1>5 DEF History!Highest
<1>7. ASSUME NEW n, History!Highest(n) PROVE n = Rollouts
  <2>1. n \in History!Revisions /\ Rollouts <= n BY <1>4, <1>7 DEF History!Highest
  <2> QED BY <1>1, <1>5, <2>1
<1> QED BY <1>1, <1>6, <1>7

LEMMA OneSetEach ==
  ASSUME HistoryInv, NEW a \in Owned, NEW b \in Owned
  PROVE  a = b <=> a.revision = b.revision
<1>1. a \in History!Numbered /\ b \in History!Numbered /\ a.owned /\ b.owned
  BY DEF HistoryInv, Owned
<1>2. order[a.revision] = a.template /\ order[b.revision] = b.template
  BY DEF HistoryInv, NumbersAreHistory
<1>3. a.revision = b.revision => a.template = b.template BY <1>2
<1>4. a.owned = TRUE /\ b.owned = TRUE BY <1>1 DEF History!Numbered
<1> QED BY <1>1, <1>3, <1>4 DEF History!Numbered

LEMMA InitHistory == History!Init => HistoryInv
<1> SUFFICES ASSUME History!Init PROVE HistoryInv
  OBVIOUS
<1>1. /\ order = <<>> /\ step = "get" /\ deployment.observed = FALSE
      /\ deployment \in Deployments
  <2>1. PICK t \in PodTemplate :
          deployment = [template |-> t, rv |-> 1, paused |-> FALSE, revision |-> 0,
                        observed |-> FALSE]
    BY DEF History!Init
  <2>2. 1 \in 1..MaxRv /\ 0 \in 0..MaxRevision BY Bounds
  <2> QED BY <2>1, <2>2 DEF History!Init, Deployments
<1>2. sets \subseteq History!Numbered /\ Owned = {}
  <2>1. PICK t \in PodTemplate, n \in 1..2 :
          sets = {[template |-> t, revision |-> n, owned |-> FALSE]}
    BY DEF History!Init
  <2>2. n \in 1..MaxRevision BY Bounds
  <2> QED BY <2>1, <2>2 DEF History!Numbered, Owned
<1>3. order \in Seq(PodTemplate) /\ Rollouts = 0 BY <1>1 DEF Rollouts
<1> QED BY <1>1, <1>2, <1>3, Bounds
    DEF HistoryInv, NumbersAreHistory, SeenIsLast, ReadIsPast, RestoredIsPrevious

\* Whoever writes the Deployment, what was read of it is outdated.
LEMMA WritesKeep ==
  ASSUME HistoryInv, UNCHANGED <<sets, order, read, restore>>,
         step' = step \/ (step = "planned" /\ step' = "done"),
         deployment' \in Deployments, deployment'.rv = deployment.rv + 1,
         deployment'.observed /\ ~deployment'.paused =>
           Rollouts # 0 /\ deployment'.revision = Rollouts
             /\ deployment'.template = order[Rollouts]
  PROVE  HistoryInv'
<1>1. deployment.rv \in Nat BY DEF HistoryInv, Deployments
<1>2. Owned' = Owned /\ Rollouts' = Rollouts BY DEF Owned, Rollouts
<1>3. NumbersAreHistory' BY <1>2 DEF HistoryInv, NumbersAreHistory
<1>4. SeenIsLast' BY <1>2 DEF SeenIsLast
<1>5. step # "get" => read.rv \in Nat /\ read.rv <= deployment.rv
  BY DEF HistoryInv, ReadIsPast, Deployments
<1>6. step # "get" => read.rv # deployment'.rv /\ read.rv <= deployment'.rv
  BY <1>1, <1>5
<1>7. step' # "get" => step # "get" OBVIOUS
<1>8. ReadIsPast'
  BY <1>6, <1>7 DEF HistoryInv, ReadIsPast
<1>9. RestoredIsPrevious'
  BY <1>6, <1>7 DEF RestoredIsPrevious
<1> QED BY <1>2, <1>3, <1>4, <1>8, <1>9 DEF HistoryInv, History!Numbered

LEMMA EditKeeps == HistoryInv /\ History!Edit => HistoryInv'
<1> SUFFICES ASSUME HistoryInv, History!Edit PROVE HistoryInv'
  OBVIOUS
<1>1. deployment \in Deployments BY DEF HistoryInv
<1>2. PICK t \in PodTemplate :
        /\ deployment.rv < MaxRv
        /\ deployment' = [[deployment EXCEPT !.template = t, !.observed = FALSE]
                            EXCEPT !.rv = deployment.rv + 1]
  BY Zenon DEF History!Edit, History!Write
<1>3. deployment.rv + 1 \in 1..MaxRv BY <1>1, <1>2, Bounds DEF Deployments
<1>4. /\ deployment' \in Deployments /\ deployment'.rv = deployment.rv + 1
      /\ deployment'.observed = FALSE
  BY <1>1, <1>2, <1>3 DEF Deployments
<1>5. UNCHANGED <<sets, order, step, read, restore>> BY DEF History!Edit, History!operation
<1> QED BY <1>4, <1>5, WritesKeep

LEMMA PauseKeeps == HistoryInv /\ History!Pause => HistoryInv'
<1> SUFFICES ASSUME HistoryInv, History!Pause PROVE HistoryInv'
  OBVIOUS
<1>1. deployment \in Deployments BY DEF HistoryInv
<1>2. /\ deployment.rv < MaxRv
      /\ deployment' = [[deployment EXCEPT !.paused = ~deployment.paused, !.observed = FALSE]
                          EXCEPT !.rv = deployment.rv + 1]
  BY DEF History!Pause, History!Write
<1>3. deployment.rv + 1 \in 1..MaxRv BY <1>1, <1>2, Bounds DEF Deployments
<1>4. /\ deployment' \in Deployments /\ deployment'.rv = deployment.rv + 1
      /\ deployment'.observed = FALSE
  BY <1>1, <1>2, <1>3 DEF Deployments
<1>5. UNCHANGED <<sets, order, step, read, restore>> BY DEF History!Pause, History!operation
<1> QED BY <1>4, <1>5, WritesKeep

LEMMA AnnotateKeeps == HistoryInv /\ History!Annotate => HistoryInv'
<1> SUFFICES ASSUME HistoryInv, History!Annotate PROVE HistoryInv'
  OBVIOUS
<1>1. deployment \in Deployments BY DEF HistoryInv
<1>2. PICK rs \in History!Of(deployment.template) :
        /\ History!Highest(rs.revision) /\ rs.revision # deployment.revision
        /\ deployment.rv < MaxRv
        /\ deployment' = [[deployment EXCEPT !.revision = rs.revision]
                            EXCEPT !.rv = deployment.rv + 1]
  BY Zenon DEF History!Annotate, History!Write
<1>3. deployment.rv + 1 \in 1..MaxRv BY <1>1, <1>2, Bounds DEF Deployments
<1>4. rs.revision = Rollouts /\ Rollouts \in 0..MaxRevision
  BY <1>2, HighestIsLast, Bounds DEF HistoryInv
<1>5. /\ deployment' \in Deployments /\ deployment'.rv = deployment.rv + 1
      /\ deployment'.observed = deployment.observed /\ deployment'.paused = deployment.paused
  BY <1>1, <1>2, <1>3, <1>4 DEF Deployments
<1>6. ~(deployment.observed /\ ~deployment.paused)
  BY <1>2, <1>4 DEF HistoryInv, SeenIsLast
<1>7. UNCHANGED <<sets, order, step, read, restore>> BY DEF History!Annotate, History!operation
<1> QED BY <1>5, <1>6, <1>7, WritesKeep

LEMMA ObserveKeeps == HistoryInv /\ History!Observe => HistoryInv'
<1> SUFFICES ASSUME HistoryInv, History!Observe PROVE HistoryInv'
  OBVIOUS
<1>1. deployment \in Deployments BY DEF HistoryInv
<1>2. /\ deployment.paused \/ History!Annotated(deployment)
      /\ deployment.rv < MaxRv
      /\ deployment' = [[deployment EXCEPT !.observed = TRUE]
                          EXCEPT !.rv = deployment.rv + 1]
  BY DEF History!Observe, History!Write
<1>3. deployment.rv + 1 \in 1..MaxRv BY <1>1, <1>2, Bounds DEF Deployments
<1>4. /\ deployment' \in Deployments /\ deployment'.rv = deployment.rv + 1
      /\ deployment'.paused = deployment.paused
      /\ deployment'.revision = deployment.revision
      /\ deployment'.template = deployment.template
  BY <1>1, <1>2, <1>3 DEF Deployments
<1>5. ~deployment.paused =>
        Rollouts # 0 /\ deployment.revision = Rollouts /\ deployment.template = order[Rollouts]
  <2> SUFFICES ASSUME ~deployment.paused
               PROVE  /\ Rollouts # 0 /\ deployment.revision = Rollouts
                      /\ deployment.template = order[Rollouts]
    OBVIOUS
  <2>1. PICK rs \in sets : /\ rs.owned /\ rs.template = deployment.template
                           /\ History!Highest(rs.revision) /\ rs.revision = deployment.revision
    BY <1>2 DEF History!Annotated, History!Of
  <2>2. rs \in Owned /\ rs.revision = Rollouts BY <2>1, HighestIsLast DEF Owned
  <2>3. rs.revision \in 1..Rollouts /\ order[rs.revision] = rs.template
    BY <2>2 DEF HistoryInv, NumbersAreHistory
  <2> QED BY <2>1, <2>2, <2>3, HighestIsLast
<1>6. UNCHANGED <<sets, order, step, read, restore>> BY DEF History!Observe, History!operation
<1> QED BY <1>4, <1>5, <1>6, WritesKeep

\* A template that is rolled out gets the next revision, and loses the one it had.
LEMMA NumberKeeps == HistoryInv /\ History!NumberSet => HistoryInv'
<1> SUFFICES ASSUME HistoryInv, History!NumberSet PROVE HistoryInv'
  OBVIOUS
<1> DEFINE t == deployment.template
           next == [template |-> t, revision |-> Rollouts + 1, owned |-> TRUE]
<1>1. /\ ~deployment.paused /\ Rollouts + 1 \in 1..MaxRevision
      /\ \A rs \in History!Of(t) : rs.revision < Rollouts
      /\ sets' = (sets \ History!Of(t)) \union {next}
      /\ order' = Append(order, t)
      /\ UNCHANGED <<deployment, step, read, restore>>
  <2>1. PICK n \in 1..MaxRevision :
          /\ History!Highest(n - 1) /\ \A rs \in History!Of(t) : rs.revision < n - 1
          /\ sets' = (sets \ History!Of(t)) \union
                       {[template |-> t, revision |-> n, owned |-> TRUE]}
    BY DEF History!NumberSet
  <2>2. n - 1 = Rollouts /\ n \in Int BY <2>1, HighestIsLast
  <2>3. n = Rollouts + 1 BY <2>2, HighestIsLast
  <2> QED BY <2>1, <2>2, <2>3 DEF History!NumberSet, History!operation
<1>2. t \in PodTemplate /\ order \in Seq(PodTemplate) /\ Rollouts \in Nat
  BY HighestIsLast DEF HistoryInv, Deployments
<1>3. /\ order' \in Seq(PodTemplate) /\ Rollouts' = Rollouts + 1 /\ order'[Rollouts + 1] = t
      /\ \A j \in 1..Rollouts : order'[j] = order[j]
  BY <1>1, <1>2 DEF Rollouts
<1>4. next \in History!Numbered /\ next.owned /\ next.revision = Rollouts + 1 /\ next.template = t
  BY <1>1, <1>2 DEF History!Numbered
<1> HIDE DEF next
<1>5. Owned' = {rs \in Owned : rs.template # t} \union {next}
  BY <1>1, <1>4 DEF Owned, History!Of
<1>6. NumbersAreHistory'
  <2>1. ASSUME NEW rs \in Owned'
        PROVE  /\ rs.revision \in 1..Rollouts' /\ order'[rs.revision] = rs.template
               /\ \A j \in 1..Rollouts' : j > rs.revision => order'[j] # rs.template
    <3>1. CASE rs = next
      <4>1. Rollouts + 1 \in 1..(Rollouts + 1) /\ \A j \in 1..(Rollouts + 1) : ~(j > Rollouts + 1)
        BY <1>2
      <4> QED BY <1>3, <1>4, <3>1, <4>1
    <3>2. CASE rs # next
      <4>1. rs \in Owned /\ rs.template # t BY <1>5, <3>2
      <4>2. /\ rs.revision \in 1..Rollouts /\ order[rs.revision] = rs.template
            /\ \A j \in 1..Rollouts : j > rs.revision => order[j] # rs.template
        BY <4>1 DEF HistoryInv, NumbersAreHistory
      <4>3. rs.revision \in 1..(Rollouts + 1)
            /\ \A j \in 1..(Rollouts + 1) : j \in 1..Rollouts \/ j = Rollouts + 1
        BY <1>2, <4>2
      <4> QED BY <1>3, <4>1, <4>2, <4>3
    <3> QED BY <3>1, <3>2
  <2>2. next \in Owned' BY <1>5
  <2> QED BY <1>3, <1>4, <2>1, <2>2 DEF NumbersAreHistory
<1>7. ~deployment.observed
  <2> SUFFICES ASSUME deployment.observed PROVE FALSE
    OBVIOUS
  <2>1. Rollouts # 0 /\ t = order[Rollouts] BY <1>1 DEF HistoryInv, SeenIsLast
  <2>2. PICK rs \in Owned : rs.revision = Rollouts
    BY <2>1 DEF HistoryInv, NumbersAreHistory
  <2>3. rs.template = t BY <2>1, <2>2 DEF HistoryInv, NumbersAreHistory
  <2>4. rs \in History!Of(t) BY <2>2, <2>3 DEF Owned, History!Of
  <2> QED BY <1>1, <1>2, <2>2, <2>4
<1>8. SeenIsLast' /\ RestoredIsPrevious' BY <1>1, <1>7 DEF SeenIsLast, RestoredIsPrevious
<1>9. ReadIsPast' BY <1>1 DEF HistoryInv, ReadIsPast
<1>10. sets' \subseteq History!Numbered
  BY <1>1, <1>4 DEF HistoryInv, History!Numbered
<1>11. Rollouts' <= MaxRevision BY <1>1, <1>2, <1>3, Bounds
<1> QED BY <1>1, <1>3, <1>6, <1>8, <1>9, <1>10, <1>11 DEF HistoryInv

\* Of the old ReplicaSets the one to be restored is the last to be collected.
LEMMA PruneKeeps == HistoryInv /\ History!Prune => HistoryInv'
<1> SUFFICES ASSUME HistoryInv, History!Prune PROVE HistoryInv'
  OBVIOUS
<1>1. PICK rs \in History!Old :
        /\ \A other \in History!Old : rs.revision <= other.revision
        /\ sets' = sets \ {rs}
  BY DEF History!Prune
<1>2. /\ Cardinality(History!Old) > HistoryLimit
      /\ UNCHANGED <<deployment, order, step, read, restore>>
  <2>1. \A S : History!Cardinality(S) = Cardinality(S) BY DEF History!Cardinality, Cardinality
  <2> QED BY <2>1 DEF History!Prune, History!operation
<1>3. rs \in Owned /\ rs.template # deployment.template
      /\ \A other \in Owned : other.template # deployment.template => other \in History!Old
  BY DEF History!Old, Owned
<1>4. Owned' = Owned \ {rs} /\ Rollouts' = Rollouts BY <1>1, <1>2 DEF Owned, Rollouts
<1>5. \A a \in Owned : a.revision \in Nat /\ a.revision <= Rollouts
  BY HighestIsLast DEF HistoryInv, NumbersAreHistory
<1>6. PICK other \in History!Old : other # rs
  <2> SUFFICES ASSUME \A other \in History!Old : other = rs PROVE FALSE
    OBVIOUS
  <2>1. History!Old = {rs} BY <1>1
  <2>2. Cardinality(History!Old) = 1 BY <2>1, FS_Singleton
  <2> QED BY <1>2, <2>2, Bounds
<1>7. other \in Owned /\ rs.revision < other.revision
  <2>1. other \in Owned BY DEF History!Old, Owned
  <2>2. rs.revision # other.revision BY <1>3, <1>6, <2>1, OneSetEach
  <2> QED BY <1>1, <1>3, <1>5, <1>6, <2>1, <2>2
<1>8. NumbersAreHistory'
  <2>1. \A a \in Owned' :
          /\ a.revision \in 1..Rollouts' /\ order'[a.revision] = a.template
          /\ \A j \in 1..Rollouts' : j > a.revision => order'[j] # a.template
    BY <1>2, <1>4 DEF HistoryInv, NumbersAreHistory
  <2>2. Rollouts # 0 => \E a \in Owned' : a.revision = Rollouts
    <3>1. rs.revision # Rollouts BY <1>3, <1>5, <1>7, HighestIsLast
    <3> QED BY <1>4, <3>1 DEF HistoryInv, NumbersAreHistory
  <2> QED BY <1>4, <2>1, <2>2 DEF NumbersAreHistory
<1>9. SeenIsLast' BY <1>2, <1>4 DEF HistoryInv, SeenIsLast
<1>10. ReadIsPast' BY <1>2 DEF HistoryInv, ReadIsPast
<1>11. RestoredIsPrevious'
  <2> SUFFICES ASSUME step \in {"dryrun", "planned"}, read.rv = deployment.rv,
                      deployment.observed
               PROVE  \E best \in Owned' :
                        /\ best.template = restore.template /\ best.revision < Rollouts
                        /\ \A a \in Owned' : a.revision < Rollouts => a.revision <= best.revision
    BY <1>2, <1>4 DEF RestoredIsPrevious
  <2>1. PICK best \in Owned :
          /\ best.template = restore.template /\ best.revision < Rollouts
          /\ \A a \in Owned : a.revision < Rollouts => a.revision <= best.revision
    BY DEF HistoryInv, RestoredIsPrevious
  <2>2. ~deployment.paused BY DEF HistoryInv, ReadIsPast
  <2>3. Rollouts # 0 /\ deployment.template = order[Rollouts]
    BY <2>2 DEF HistoryInv, SeenIsLast
  <2>4. other.revision < Rollouts
    <3>1. other.template # deployment.template BY DEF History!Old
    <3>2. other.revision # Rollouts
      BY <1>7, <2>3, <3>1 DEF HistoryInv, NumbersAreHistory
    <3> QED BY <1>5, <1>7, <3>2, HighestIsLast
  <2>5. best # rs
    BY <1>3, <1>5, <1>7, <2>1, <2>4
  <2> QED BY <1>4, <2>1, <2>5
<1>12. sets' \subseteq History!Numbered BY <1>1 DEF HistoryInv, History!Numbered
<1> QED BY <1>2, <1>4, <1>8, <1>9, <1>10, <1>11, <1>12 DEF HistoryInv

LEMMA OperationKeeps ==
  ASSUME HistoryInv,
         History!Get \/ History!List \/ History!DryRun \/ History!Again
  PROVE  HistoryInv'
<1>1. UNCHANGED <<deployment, sets, order>> /\ Owned' = Owned /\ Rollouts' = Rollouts
  BY DEF History!Get, History!List, History!DryRun, History!Again, History!Continue,
         Owned, Rollouts
<1>2. /\ NumbersAreHistory' /\ SeenIsLast' /\ sets' \subseteq History!Numbered
      /\ deployment' \in Deployments /\ order' \in Seq(PodTemplate) /\ Rollouts' <= MaxRevision
  BY <1>1 DEF HistoryInv, NumbersAreHistory, SeenIsLast, History!Numbered
<1>3. CASE History!Get
  <2>1. /\ step' = "list" /\ read' = deployment /\ ~deployment.paused
    BY <1>3 DEF History!Get, History!Continue
  <2>2. ReadIsPast'
    <3>1. deployment \in Deployments /\ deployment.rv <= deployment.rv
      BY DEF HistoryInv, Deployments
    <3> QED BY <1>1, <2>1, <3>1 DEF ReadIsPast
  <2> QED BY <1>2, <2>1, <2>2 DEF HistoryInv, RestoredIsPrevious
<1>4. CASE History!List
  <2>1. PICK best \in History!Candidates :
          /\ \A rs \in History!Candidates : rs.revision <= best.revision
          /\ restore'.template = best.template /\ restore'.revision = best.revision
          /\ restore'.changes = History!templateChanges(read.template, best.template)
    BY <1>4 DEF History!List
  <2>2. step = "list" /\ step' = "dryrun" /\ read' = read
    BY <1>4 DEF History!List, History!Continue
  <2>3. /\ best \in Owned /\ best.revision < read.revision
        /\ \A rs \in Owned : rs.revision < read.revision => rs \in History!Candidates
    BY DEF History!Candidates, Owned
  <2>4. best.template \in PodTemplate /\ best.revision \in 1..(read.revision - 1)
    <3>1. best \in History!Numbered BY <2>3 DEF HistoryInv, Owned
    <3>2. read.revision \in Nat BY <2>2 DEF HistoryInv, ReadIsPast, Deployments
    <3>3. best.revision \in Nat /\ best.revision >= 1 /\ best.template \in PodTemplate
      BY <3>1, Bounds DEF History!Numbered
    <3> QED BY <2>3, <3>2, <3>3
  <2>5. ReadIsPast' BY <1>1, <2>2 DEF HistoryInv, ReadIsPast
  <2>6. RestoredIsPrevious'
    <3> SUFFICES ASSUME read.rv = deployment.rv, deployment.observed
                 PROVE  \E b \in Owned :
                          /\ b.template = restore'.template /\ b.revision < Rollouts
                          /\ \A rs \in Owned : rs.revision < Rollouts => rs.revision <= b.revision
      BY <1>1, <2>2 DEF RestoredIsPrevious
    <3>1. read = deployment /\ ~deployment.paused
      BY <2>2 DEF HistoryInv, ReadIsPast
    <3>2. read.revision = Rollouts BY <3>1 DEF HistoryInv, SeenIsLast
    <3> QED BY <2>1, <2>3, <3>2
  <2>7. restore'.changes = Walk!templateChanges(read'.template, restore'.template)
    BY <2>1, <2>2, OneListing
  <2> QED BY <1>2, <2>1, <2>2, <2>4, <2>5, <2>6, <2>7 DEF HistoryInv
<1>5. CASE History!DryRun
  <2>1. step = "dryrun" /\ step' = "planned" /\ read' = read /\ restore' = restore
    BY <1>5 DEF History!DryRun, History!Continue
  <2>2. ReadIsPast' BY <1>1, <2>1 DEF HistoryInv, ReadIsPast
  <2>3. RestoredIsPrevious' BY <1>1, <2>1 DEF HistoryInv, RestoredIsPrevious
  <2> QED BY <1>2, <2>1, <2>2, <2>3 DEF HistoryInv
<1>6. CASE History!Again
  <2>1. step' = "get" BY <1>6 DEF History!Again, History!Continue
  <2> QED BY <1>2, <2>1 DEF HistoryInv, ReadIsPast, RestoredIsPrevious
<1> QED BY <1>3, <1>4, <1>5, <1>6

\* What was planned with the Deployment as it is can be executed, and outdates the rest.
LEMMA ExecuteKeeps == HistoryInv /\ History!Execute => HistoryInv'
<1> SUFFICES ASSUME HistoryInv, History!Execute PROVE HistoryInv'
  OBVIOUS
<1> DEFINE same == deployment.observed /\ restore.template = deployment.template
<1>1. /\ step = "planned" /\ step' = "done" /\ deployment.rv < MaxRv
      /\ deployment' = [[deployment EXCEPT !.template = restore.template, !.observed = same]
                          EXCEPT !.rv = deployment.rv + 1]
      /\ UNCHANGED <<sets, order, read, restore>>
  BY DEF History!Execute, History!Write
<1>2. /\ deployment \in Deployments /\ restore.template \in PodTemplate
  BY <1>1 DEF HistoryInv
<1>3. deployment.rv + 1 \in 1..MaxRv BY <1>1, <1>2, Bounds DEF Deployments
<1>4. same \in BOOLEAN /\ (same => deployment.observed /\ restore.template = deployment.template)
  BY <1>2 DEF Deployments
<1> HIDE DEF same
<1>5. /\ deployment' \in Deployments /\ deployment'.rv = deployment.rv + 1
      /\ deployment'.observed = same /\ deployment'.paused = deployment.paused
      /\ deployment'.revision = deployment.revision
      /\ deployment'.template = restore.template
  BY <1>1, <1>2, <1>3, <1>4 DEF Deployments
<1>6. deployment'.observed /\ ~deployment'.paused =>
        Rollouts # 0 /\ deployment'.revision = Rollouts /\ deployment'.template = order[Rollouts]
  BY <1>4, <1>5 DEF HistoryInv, SeenIsLast
<1> QED BY <1>1, <1>5, <1>6, WritesKeep

LEMMA StepHistory == HistoryInv /\ [History!Next]_historyVars => HistoryInv'
<1> SUFFICES ASSUME HistoryInv, [History!Next]_historyVars PROVE HistoryInv'
  OBVIOUS
<1>1. CASE History!Edit \/ History!Pause \/ History!Annotate \/ History!Observe
  BY <1>1, EditKeeps, PauseKeeps, AnnotateKeeps, ObserveKeeps
<1>2. CASE History!NumberSet BY <1>2, NumberKeeps
<1>3. CASE History!Prune BY <1>3, PruneKeeps
<1>4. CASE History!Get \/ History!List \/ History!DryRun \/ History!Again
  BY <1>4, OperationKeeps
<1>5. CASE History!Execute BY <1>5, ExecuteKeeps
<1>6. CASE UNCHANGED historyVars
  <2>1. UNCHANGED <<deployment, sets, order, step, read, restore>> BY <1>6 DEF historyVars
  <2>2. Owned' = Owned /\ Rollouts' = Rollouts BY <2>1 DEF Owned, Rollouts
  <2> QED BY <2>1, <2>2 DEF HistoryInv, NumbersAreHistory, SeenIsLast, ReadIsPast,
                            RestoredIsPrevious, History!Numbered
<1> QED BY <1>1, <1>2, <1>3, <1>4, <1>5, <1>6 DEF History!Next

-----------------------------------------------------------------------------
(* Both.                                                                    *)

RollbackInv == HistoryInv /\ WalkInv

\* A step of one leaves the variables of the other.
LEMMA StepRollback ==
  ASSUME RollbackInv, [HistoryActs \/ WalkActs]_rollbackVars
  PROVE  RollbackInv' /\ [History!Next]_historyVars
<1>1. [History!Next]_historyVars /\ [Walk!Next]_walkVars
  BY DEF HistoryActs, WalkActs, rollbackVars
<1> QED BY <1>1, StepHistory, StepWalk DEF RollbackInv

LEMMA RollbackHolds == RollbackSpec => []RollbackInv
<1>1. History!Init /\ Walk!Init => RollbackInv BY InitHistory, InitWalk DEF RollbackInv
<1> QED BY <1>1, StepRollback, PTL DEF RollbackSpec

LEMMA ExecuteRestores ==
  ASSUME HistoryInv, History!Execute, deployment.observed
  PROVE  History!Previous(restore.template)
<1>1. step = "planned" /\ read.rv = deployment.rv
  BY DEF History!Execute, History!Tested
<1>2. PICK best \in Owned :
        /\ best.template = restore.template /\ best.revision < Rollouts
        /\ \A rs \in Owned : rs.revision < Rollouts => rs.revision <= best.revision
  BY <1>1 DEF HistoryInv, RestoredIsPrevious
<1>3. ~deployment.paused BY <1>1 DEF HistoryInv, ReadIsPast
<1>4. Rollouts # 0 /\ deployment.template = order[Rollouts]
  BY <1>3 DEF HistoryInv, SeenIsLast
<1>5. /\ best.revision \in 1..Rollouts /\ order[best.revision] = best.template
      /\ \A j \in 1..Rollouts : j > best.revision => order[j] # best.template
  BY <1>2 DEF HistoryInv, NumbersAreHistory
<1>6. Rollouts \in 1..Rollouts BY <1>4, HighestIsLast
<1>7. restore.template # deployment.template BY <1>2, <1>4, <1>5, <1>6
<1>8. best \in History!Of(restore.template) BY <1>2 DEF Owned, History!Of
<1>9. DOMAIN order = 1..Rollouts BY DEF HistoryInv, Rollouts
<1>10. ASSUME NEW j \in 1..Rollouts, j > best.revision, order[j] # deployment.template,
              NEW rs \in History!Of(order[j])
       PROVE  FALSE
  <2>1. rs \in Owned /\ rs.template = order[j] BY <1>10 DEF Owned, History!Of
  <2>2. /\ rs.revision \in 1..Rollouts /\ order[rs.revision] = rs.template
        /\ ~(j > rs.revision)
    BY <2>1 DEF HistoryInv, NumbersAreHistory
  <2>3. rs.revision # Rollouts BY <1>4, <1>10, <2>1, <2>2
  <2>4. rs.revision <= best.revision BY <1>2, <2>1, <2>2, <2>3, HighestIsLast
  <2> QED BY <1>5, <1>10, <2>2, <2>4, HighestIsLast
<1> QED BY <1>2, <1>5, <1>7, <1>8, <1>9, <1>10 DEF History!Previous

\* A rollback of a Deployment whose controller has seen its spec restores the template
\* that was rolled out before the present one, whatever happened since it was planned.
THEOREM PreviousRestored == RollbackSpec => RestoresPrevious
<1>1. RollbackInv /\ [HistoryActs \/ WalkActs]_rollbackVars =>
        [History!Execute /\ deployment.observed =>
           History!Previous(restore.template)]_historyVars
  BY ExecuteRestores DEF RollbackInv, HistoryActs, WalkActs, rollbackVars
<1> QED BY <1>1, RollbackHolds, PTL DEF RollbackSpec, RestoresPrevious

LEMMA PlanCovers ==
  ASSUME HistoryInv PROVE ReviewCovers
<1> SUFFICES ASSUME step \in {"dryrun", "planned"}, read.rv = deployment.rv
             PROVE  Walk!Covers(restore.changes, deployment.template, restore.template)
  BY DEF ReviewCovers, History!Tested
<1>1. /\ read = deployment /\ read \in Deployments /\ restore.template \in PodTemplate
      /\ restore.changes = Walk!templateChanges(read.template, restore.template)
  BY DEF HistoryInv, ReadIsPast
<1>2. deployment.template \in PodTemplate BY <1>1 DEF Deployments
<1> QED BY <1>1, <1>2, Documents, ChangesCover

LEMMA WalkCovers ==
  ASSUME WalkInv
  PROVE  Walk!FindsChanges /\ (todo = {} => Walk!Covers(found, left, right))
<1>1. todo = {} => found = Walk!templateChanges(left, right) BY DEF WalkInv
<1>2. Walk!Covers(Walk!templateChanges(left, right), left, right) BY Documents, ChangesCover
<1> QED BY <1>1, <1>2 DEF Walk!FindsChanges

\* The walk down two templates finds where they part and nothing else, in whatever order
\* it goes; every difference is at, below or above a path that is listed; and the plan of
\* a rollback that can still be executed lists those of what it would change.
THEOREM NothingHidden == RollbackSpec => []NothingIsHidden
<1>1. RollbackInv => NothingIsHidden
  BY PlanCovers, WalkCovers DEF RollbackInv, NothingIsHidden
<1> QED BY <1>1, RollbackHolds, PTL

LEMMA OneSetOf ==
  ASSUME HistoryInv, NEW t \in PodTemplate
  PROVE  History!Cardinality(History!Of(t)) <= 1
<1>1. \A S : History!Cardinality(S) = Cardinality(S) BY DEF History!Cardinality, Cardinality
<1>2. \A a, b \in History!Of(t) : a = b
  <2> SUFFICES ASSUME NEW a \in History!Of(t), NEW b \in History!Of(t) PROVE a = b
    OBVIOUS
  <2>1. a \in Owned /\ b \in Owned /\ a.template = t /\ b.template = t
    BY DEF History!Of, Owned
  <2>2. /\ a.revision \in 1..Rollouts /\ order[a.revision] = t /\ ~(b.revision > a.revision)
        /\ b.revision \in 1..Rollouts /\ order[b.revision] = t /\ ~(a.revision > b.revision)
    BY <2>1 DEF HistoryInv, NumbersAreHistory
  <2>3. a.revision = b.revision BY <2>2, HighestIsLast
  <2> QED BY <2>1, <2>3, OneSetEach
<1>3. CASE History!Of(t) = {} BY <1>1, <1>3, FS_EmptySet
<1>4. CASE \E a : History!Of(t) = {a}
  <2>1. Cardinality(History!Of(t)) = 1 BY <1>4, FS_Singleton
  <2> QED BY <1>1, <2>1
<1> QED BY <1>2, <1>3, <1>4

LEMMA RollbackTyped ==
  ASSUME RollbackInv
  PROVE  History!TypeOK /\ Walk!TypeOK
<1>1. \A t \in PodTemplate : History!Cardinality(History!Of(t)) <= 1
  BY OneSetOf DEF RollbackInv
<1>2. step # "get" => read.rv <= deployment.rv BY DEF RollbackInv, HistoryInv, ReadIsPast
<1>3. History!TypeOK BY <1>1, <1>2 DEF RollbackInv, HistoryInv, Deployments, History!TypeOK
<1>4. todo \subseteq Both(left, right) /\ found \subseteq Both(left, right)
  BY DEF RollbackInv, WalkInv, Reached, Walk!templateChanges, Both
<1> QED BY <1>3, <1>4 DEF RollbackInv, WalkInv, Walk!TypeOK, Both

\* The types of both parts; a template has one ReplicaSet of the Deployment.
THEOREM RollbackTypes == RollbackSpec => [](History!TypeOK /\ Walk!TypeOK)
<1> QED BY RollbackTyped, RollbackHolds, PTL
=============================================================================
