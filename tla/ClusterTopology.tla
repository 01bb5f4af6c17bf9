---------------------------- MODULE ClusterTopology ----------------------------
(***************************************************************************)
(* The topology of the cluster (Topology in topology.go): routes,          *)
(* endpoints, external names, policies, and for every pod the policies     *)
(* that select it and the rules that its service account is granted.       *)
(*                                                                         *)
(* It is put together from nine lists, read one after the other while the  *)
(* cluster goes on changing.  A list that cannot be read leaves a warning; *)
(* the answer is given all the same.                                       *)
(*                                                                         *)
(* One object of each sort stands for all of them: what relates a pod to   *)
(* the others, its labels and its service account, is a property of the    *)
(* object here, so a pod that is relabelled is one that disappears.        *)
(***************************************************************************)
EXTENDS Naturals, Sequences, SequencesExt

CONSTANTS
  MaxAbsent,   \* bound on the objects that do not exist yet as the request comes
  MaxChanges   \* bound on the changes of the cluster during the request

TopologyBounds == {MaxAbsent, MaxChanges} \subseteq Nat

VARIABLES
  exists,      \* the objects that exist
  changes,     \* how often the cluster changed
  at,          \* the list that is read next; one more than there are: answered
  seen,        \* [List -> the objects in it], none if it could not be read
  failed,      \* the lists that could not be read
  throughout,  \* history: the objects that existed during the whole request
  together     \* history: what existed together at some moment of the request

request == <<at, seen, failed>>
vars == <<exists, changes, request, throughout, together>>

-----------------------------------------------------------------------------
(* The objects, and what one of them says about another.                    *)

\* In the order in which they are read.
Lists == <<"ingresses", "slices", "services", "policies", "roles", "clusterroles",
           "bindings", "clusterbindings", "pods">>

List == ToSet(Lists)

\* The roles share a name, which is unique only among roles of one scope.  Of the
\* RoleBindings, "binding" refers to the Role, and "reference" to the ClusterRole.
In == [ingress |-> "ingresses", slice |-> "slices", external |-> "services",
       policy |-> "policies", role |-> "roles", clusterrole |-> "clusterroles",
       binding |-> "bindings", reference |-> "bindings",
       clusterbinding |-> "clusterbindings", pod |-> "pods"]

Object == DOMAIN In

RefersTo == [binding |-> "role", reference |-> "clusterrole", clusterbinding |-> "clusterrole"]

\* What an answer can show: an object, a policy that selects a pod, a binding with
\* the rules that a pod gets from it.
Grants == {{b, r, "pod"} : b \in DOMAIN RefersTo, r \in {"role", "clusterrole"}}

Sights == {{o} : o \in {"ingress", "slice", "external", "policy", "pod"}}
            \union {{"policy", "pod"}} \union Grants

\* What is really declared in the cluster.
Declared(objects) ==
  {s \in Sights : s \subseteq objects
                  /\ \A b \in s \intersect DOMAIN RefersTo : RefersTo[b] \in s}

Init ==
  /\ \E k \in 0..MaxAbsent : \E gone \in kSubset(k, Object) : exists = Object \ gone
  /\ changes = 0
  /\ at = 1 /\ seen = [l \in List |-> {}] /\ failed = {}
  /\ throughout = exists /\ together = Declared(exists)

-----------------------------------------------------------------------------
(* The cluster.                                                             *)

ClusterChanges ==
  /\ at <= Len(Lists)
  /\ changes < MaxChanges /\ changes' = changes + 1
  /\ \E o \in Object :
       exists' = IF o \in exists THEN exists \ {o} ELSE exists \union {o}
  /\ throughout' = throughout \intersect exists'
  /\ together' = together \union Declared(exists')
  /\ UNCHANGED request

-----------------------------------------------------------------------------
(* The request.                                                             *)

\* An error is noted, and what came with it is used.
MutReadFails ==
  /\ at <= Len(Lists) /\ at' = at + 1
  /\ failed' = failed \union {Lists[at]}
  /\ \E part \in SUBSET {o \in exists : In[o] = Lists[at]} : seen' = [seen EXCEPT ![Lists[at]] = part]
  /\ UNCHANGED <<exists, changes, throughout, together>>

Read ==
  /\ at <= Len(Lists) /\ at' = at + 1
  /\ seen' = [seen EXCEPT ![Lists[at]] = {o \in exists : In[o] = Lists[at]}]
  /\ UNCHANGED <<failed, exists, changes, throughout, together>>

\* Forbidden, or an API server that does not answer; after the deadline of the
\* request every list that is left fails.
ReadFails ==
  /\ at <= Len(Lists) /\ at' = at + 1
  /\ failed' = failed \union {Lists[at]}
  /\ UNCHANGED <<seen, exists, changes, throughout, together>>

Next == ClusterChanges \/ Read \/ ReadFails

Spec == Init /\ [][Next]_vars
-----------------------------------------------------------------------------
(* The answer, once all lists were read.                                    *)

\* The key of a role among the rules is its namespace and name, that of a
\* ClusterRole its name only; a binding looks for the key of what it refers to.
RuleKey(o) == IF o = "role" THEN <<"shop", "reader">> ELSE <<"", "reader">>

Rules == {[key |-> RuleKey(r), role |-> r] : r \in seen["roles"] \union seen["clusterroles"]}

Granted(b) == {r.role : r \in {q \in Rules : q.key = RuleKey(RefersTo[b])}}

\* Without the list of pods there are neither identities nor policies of pods.
Identities ==
  {{p} : p \in seen["pods"]}
    \union {{p, q} : p \in seen["pods"], q \in seen["policies"]}
    \union {{p, b, r} : p \in seen["pods"], b \in seen["bindings"] \union seen["clusterbindings"],
                        r \in {"role", "clusterrole"}}

Shown ==
  {{o} : o \in UNION {seen[l] : l \in {"ingresses", "slices", "services", "policies"}}}
    \union {i \in Identities : \A b \in i \intersect DOMAIN RefersTo : \E r \in Granted(b) : r \in i}

RBAC == {"roles", "clusterroles", "bindings", "clusterbindings"}

\* What part of the answer is said to be unavailable or incomplete.
Warnings ==
  {l \in failed : l \notin RBAC} \union (IF failed \intersect RBAC # {} THEN {"rbac"} ELSE {})

\* The warnings that tell of what may be missing of a sight.
Section(s) ==
  {IF l \in {"roles", "clusterroles", "bindings", "clusterbindings"} THEN "rbac" ELSE l :
     l \in {In[o] : o \in s}}

-----------------------------------------------------------------------------
(* Properties.                                                              *)

TypeOK ==
  /\ exists \subseteq Object /\ throughout \subseteq exists
  /\ together \subseteq Sights
  /\ changes \in 0..MaxChanges /\ at \in 1..(Len(Lists) + 1)
  /\ failed \subseteq {Lists[i] : i \in 1..(at - 1)}
  /\ seen \in [List -> SUBSET Object] /\ \A l \in failed : seen[l] = {}

\* docs/station-topology.md:12: "Read failures produce section warnings, not an
\* assertion that no resources or grants exist."  What was declared in the cluster
\* during the whole request is in the answer, or a warning says that this part of
\* the answer is incomplete.
NothingIsSilentlyMissing ==
  at > Len(Lists) =>
    \A s \in Declared(throughout) : s \in Shown \/ Section(s) \intersect Warnings # {}

\* Topology, topology.go:130-190: no rules are shown with a binding that refers to
\* others of the same name, and no single object is shown that did not exist at any time
\* during the request.  Two objects that did, but never together, may be (GrantsWereDeclared).
NothingIsInvented ==
  at > Len(Lists) =>
    \A s \in Shown : /\ \A o \in s : {o} \in Sights => {o} \in together
                     /\ \A b \in s \intersect DOMAIN RefersTo : RefersTo[b] \in s

\* docs/station-topology.md:3-8: the answer "is a read-only inventory snapshot" of
\* "Declared RBAC grants" among others, so every grant in it was declared at some
\* moment of the request.
GrantsWereDeclared ==
  at > Len(Lists) => Shown \intersect Grants \subseteq together
=============================================================================
