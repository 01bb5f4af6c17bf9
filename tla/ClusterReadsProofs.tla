-------------------------- MODULE ClusterReadsProofs --------------------------
(***************************************************************************)
(* Proofs about ClusterReads: whatever the cluster does between two reads, *)
(* whichever of them fail, and however the handlers interleave, a detail   *)
(* shows only what belonged to its Deployment, an overview has every       *)
(* suspect up to its limit, and the topology hides and invents nothing.    *)
(***************************************************************************)
EXTENDS ClusterReads, TLAPS, FiniteSetTheorems, SequenceTheorems

-----------------------------------------------------------------------------
(* The topology.                                                            *)

\* Lists that were read have what was there throughout; those still to be read have
\* nothing; and what is in a list is of its sort and was there at some moment.
TopologyInv ==
  /\ Cluster!TypeOK
  /\ Cluster!Declared(exists) \subseteq together
  /\ \A i \in 1..9 :
       /\ i < topologyAt /\ Cluster!Lists[i] \notin failed =>
            \A o \in throughout :
              Cluster!In[o] = Cluster!Lists[i] => o \in seen[Cluster!Lists[i]]
       /\ i >= topologyAt => seen[Cluster!Lists[i]] = {}
  /\ \A l \in Cluster!List : \A o \in seen[l] :
       /\ Cluster!In[o] = l
       /\ {o} \in Cluster!Sights => {o} \in together

LEMMA NineLists ==
  /\ Cluster!Lists =
       <<"ingresses", "slices", "services", "policies", "roles", "clusterroles",
         "bindings", "clusterbindings", "pods">>
  /\ Len(Cluster!Lists) = 9 /\ DOMAIN Cluster!Lists = 1..9
  /\ Cluster!List = {Cluster!Lists[i] : i \in 1..9}
  /\ \A i, j \in 1..9 : Cluster!Lists[i] = Cluster!Lists[j] => i = j
<1>1. Cluster!Lists =
       <<"ingresses", "slices", "services", "policies", "roles", "clusterroles",
         "bindings", "clusterbindings", "pods">>
  BY DEF Cluster!Lists
<1>2. Len(Cluster!Lists) = 9 /\ DOMAIN Cluster!Lists = 1..9 BY <1>1
<1>3. Cluster!List = {Cluster!Lists[i] : i \in 1..9}
  BY <1>2 DEF Cluster!List, Cluster!ToSet
<1>4. \A i, j \in 1..9 : Cluster!Lists[i] = Cluster!Lists[j] => i = j
  BY <1>1
<1> QED BY <1>1, <1>2, <1>3, <1>4

\* What can be seen by itself.
Alone == {"ingress", "slice", "external", "policy", "pod"}

LEMMA Seen ==
  \A o : {o} \in Cluster!Sights <=> o \in Alone
<1> TAKE o
<1>1. {o} \in Cluster!Sights => o \in Alone
  <2>1. {o} \notin Cluster!Grants
    <3> SUFFICES ASSUME NEW b \in DOMAIN Cluster!RefersTo, NEW r \in {"role", "clusterrole"},
                        {o} = {b, r, "pod"}
                 PROVE  FALSE
      BY DEF Cluster!Grants
    <3>1. r = o /\ "pod" = o
      <4>1. r \in {o} /\ "pod" \in {o} BY Zenon
      <4> QED BY <4>1
    <3> QED BY <3>1
  <2>2. {o} # {"policy", "pod"}
    <3> SUFFICES ASSUME {o} = {"policy", "pod"} PROVE FALSE
      OBVIOUS
    <3>1. "policy" \in {o} /\ "pod" \in {o} BY Zenon
    <3> QED BY <3>1
  <2>3. {o} \in {{p} : p \in Alone} => o \in Alone OBVIOUS
  <2> QED BY <2>1, <2>2, <2>3 DEF Cluster!Sights, Alone
<1>2. o \in Alone => {o} \in Cluster!Sights
  BY DEF Cluster!Sights, Alone
<1> QED BY <1>1, <1>2

\* What exists by itself is declared.
LEMMA AloneDeclared ==
  ASSUME NEW objects, NEW o \in objects, {o} \in Cluster!Sights
  PROVE  {o} \in Cluster!Declared(objects)
<1>1. o \in Alone BY Seen
<1>2. o \notin DOMAIN Cluster!RefersTo BY <1>1 DEF Alone, Cluster!RefersTo
<1> QED BY <1>2 DEF Cluster!Declared

LEMMA InitTopology == Cluster!Init => TopologyInv
<1> SUFFICES ASSUME Cluster!Init PROVE TopologyInv
  OBVIOUS
<1>1. /\ topologyChanges = 0 /\ topologyAt = 1 /\ seen = [l \in Cluster!List |-> {}]
      /\ failed = {} /\ throughout = exists /\ together = Cluster!Declared(exists)
  BY DEF Cluster!Init
<1>2. exists \subseteq Cluster!Object
  BY DEF Cluster!Init
<1>3. MaxTopologyChanges \in Nat BY InstanceBounds DEF Cluster!TopologyBounds
<1>4. Cluster!Declared(exists) \subseteq Cluster!Sights BY DEF Cluster!Declared
<1>5. Cluster!TypeOK
  BY <1>1, <1>2, <1>3, <1>4, NineLists DEF Cluster!TypeOK
<1>6. \A i \in 1..9 : ~(i < topologyAt) /\ seen[Cluster!Lists[i]] = {}
  BY <1>1, NineLists
<1> QED BY <1>1, <1>5, <1>6 DEF TopologyInv

LEMMA TopologyChanges == TopologyInv /\ Cluster!ClusterChanges => TopologyInv'
<1> SUFFICES ASSUME TopologyInv, Cluster!ClusterChanges PROVE TopologyInv'
  OBVIOUS
<1>1. /\ topologyChanges' = topologyChanges + 1 /\ topologyChanges < MaxTopologyChanges
      /\ throughout' = throughout \intersect exists'
      /\ together' = together \union Cluster!Declared(exists')
      /\ topologyAt' = topologyAt /\ seen' = seen /\ failed' = failed
  BY DEF Cluster!ClusterChanges, Cluster!request
<1>2. exists' \subseteq Cluster!Object
  BY DEF Cluster!ClusterChanges, TopologyInv, Cluster!TypeOK
<1>3. Cluster!Declared(exists') \subseteq Cluster!Sights BY DEF Cluster!Declared
<1>4. MaxTopologyChanges \in Nat BY InstanceBounds DEF Cluster!TopologyBounds
<1>5. topologyChanges' \in 0..MaxTopologyChanges
  <2>1. topologyChanges \in 0..MaxTopologyChanges BY DEF TopologyInv, Cluster!TypeOK
  <2> QED BY <1>1, <1>4, <2>1
<1>6. Cluster!TypeOK'
  BY <1>1, <1>2, <1>3, <1>5 DEF TopologyInv, Cluster!TypeOK
<1>7. Cluster!Declared(exists)' \subseteq together'
  BY <1>1 DEF Cluster!Declared
<1>8. throughout' \subseteq throughout /\ together \subseteq together' BY <1>1
<1> QED BY <1>1, <1>6, <1>7, <1>8 DEF TopologyInv

\* Whether the list could be read or not.
LEMMA TopologyReads ==
  ASSUME TopologyInv, Cluster!Read \/ Cluster!ReadFails
  PROVE  TopologyInv'
<1> DEFINE list == Cluster!Lists[topologyAt]
           there == {o \in exists : Cluster!In[o] = list}
<1>1. /\ topologyAt \in 1..9 /\ topologyAt' = topologyAt + 1
      /\ exists' = exists /\ topologyChanges' = topologyChanges
      /\ throughout' = throughout /\ together' = together
  BY NineLists DEF Cluster!Read, Cluster!ReadFails, TopologyInv, Cluster!TypeOK
<1>2. list \in Cluster!List /\ seen[list] = {} /\ list \notin failed
  <2>1. topologyAt >= topologyAt BY <1>1
  <2>2. \A i \in 1..(topologyAt - 1) : i \in 1..9 /\ i # topologyAt BY <1>1
  <2>3. failed \subseteq {Cluster!Lists[i] : i \in 1..(topologyAt - 1)}
    BY DEF TopologyInv, Cluster!TypeOK
  <2>4. list \notin failed BY <1>1, <2>2, <2>3, NineLists
  <2> QED BY <1>1, <2>1, <2>4, NineLists DEF TopologyInv
<1>3. /\ seen' \in [Cluster!List -> SUBSET Cluster!Object]
      /\ \A l \in Cluster!List : l # list => seen'[l] = seen[l]
      /\ \/ seen'[list] = there /\ failed' = failed
         \/ seen'[list] = {} /\ failed' = failed \union {list}
  <2>1. seen \in [Cluster!List -> SUBSET Cluster!Object] /\ exists \subseteq Cluster!Object
    BY DEF TopologyInv, Cluster!TypeOK
  <2>2. CASE Cluster!Read
    BY <1>2, <2>1, <2>2 DEF Cluster!Read
  <2>3. CASE Cluster!ReadFails
    BY <1>2, <2>1, <2>3 DEF Cluster!ReadFails
  <2> QED BY <2>2, <2>3
<1>4. failed' \subseteq {Cluster!Lists[i] : i \in 1..(topologyAt' - 1)}
  <2>1. failed \subseteq {Cluster!Lists[i] : i \in 1..(topologyAt - 1)}
    BY DEF TopologyInv, Cluster!TypeOK
  <2>2. 1..(topologyAt - 1) \subseteq 1..(topologyAt' - 1) /\ topologyAt \in 1..(topologyAt' - 1)
    BY <1>1
  <2> QED BY <1>3, <2>1, <2>2
<1>5. \A l \in failed' : seen'[l] = {}
  <2>1. \A l \in failed : l \in Cluster!List /\ l # list /\ seen[l] = {}
    <3>1. 1..(topologyAt - 1) \subseteq 1..9 BY <1>1
    <3> QED BY <1>2, <3>1, NineLists DEF TopologyInv, Cluster!TypeOK
  <2> QED BY <1>3, <2>1
<1>6. Cluster!TypeOK'
  <2>1. topologyAt' \in 1..(9 + 1) BY <1>1
  <2> QED BY <1>1, <1>3, <1>4, <1>5, <2>1, NineLists DEF TopologyInv, Cluster!TypeOK
<1>7. Cluster!Declared(exists)' \subseteq together'
  BY <1>1 DEF TopologyInv, Cluster!Declared
<1>8. ASSUME NEW i \in 1..9
      PROVE  /\ i < topologyAt' /\ Cluster!Lists[i] \notin failed' =>
                  \A o \in throughout' :
                    Cluster!In[o] = Cluster!Lists[i] => o \in seen'[Cluster!Lists[i]]
             /\ i >= topologyAt' => seen'[Cluster!Lists[i]] = {}
  <2>1. Cluster!Lists[i] \in Cluster!List BY NineLists
  <2>2. CASE i = topologyAt
    <3>1. ~(i >= topologyAt') BY <1>1, <2>2
    <3>2. throughout \subseteq exists BY DEF TopologyInv, Cluster!TypeOK
    <3> QED BY <1>1, <1>3, <2>2, <3>1, <3>2
  <2>3. CASE i # topologyAt
    <3>1. seen'[Cluster!Lists[i]] = seen[Cluster!Lists[i]]
      BY <1>1, <1>3, <2>1, <2>3, NineLists
    <3>2. (i < topologyAt' => i < topologyAt) /\ (i >= topologyAt' => i >= topologyAt)
      BY <1>1, <2>3
    <3>3. Cluster!Lists[i] \notin failed' => Cluster!Lists[i] \notin failed BY <1>3
    <3> QED BY <1>1, <3>1, <3>2, <3>3 DEF TopologyInv
  <2> QED BY <2>2, <2>3
<1>9. ASSUME NEW l \in Cluster!List, NEW o \in seen'[l]
      PROVE  Cluster!In[o] = l /\ ({o} \in Cluster!Sights => {o} \in together')
  <2>1. CASE l = list
    <3>1. o \in exists /\ Cluster!In[o] = l BY <1>3, <2>1
    <3>2. {o} \in Cluster!Sights => {o} \in Cluster!Declared(exists) BY <3>1, AloneDeclared
    <3> QED BY <1>1, <3>1, <3>2 DEF TopologyInv
  <2>2. CASE l # list
    BY <1>1, <1>3, <2>2 DEF TopologyInv
  <2> QED BY <2>1, <2>2
<1> QED BY <1>6, <1>7, <1>8, <1>9 DEF TopologyInv

LEMMA StepTopology == TopologyInv /\ [Cluster!Next]_topologyVars => TopologyInv'
<1> SUFFICES ASSUME TopologyInv, [Cluster!Next]_topologyVars PROVE TopologyInv'
  OBVIOUS
<1>1. CASE Cluster!ClusterChanges BY <1>1, TopologyChanges
<1>2. CASE Cluster!Read \/ Cluster!ReadFails BY <1>2, TopologyReads
<1>3. CASE UNCHANGED topologyVars
  BY <1>3 DEF topologyVars, TopologyInv, Cluster!TypeOK, Cluster!Declared
<1> QED BY <1>1, <1>2, <1>3 DEF Cluster!Next

\* The sorts of the objects in the lists.
LEMMA Sorts ==
  ASSUME TopologyInv
  PROVE  /\ \A o \in seen["pods"] : o = "pod"
         /\ \A o \in seen["policies"] : o = "policy"
         /\ \A o \in seen["bindings"] \union seen["clusterbindings"] :
              o \in {"binding", "reference", "clusterbinding"}
         /\ \A o \in seen["roles"] \union seen["clusterroles"] : o \in {"role", "clusterrole"}
         /\ \A o \in UNION {seen[l] : l \in {"ingresses", "slices", "services", "policies"}} :
              o \in Alone
         /\ \A l \in Cluster!List : \A o \in seen[l] : o \in Alone => {o} \in together
<1>1. {"ingresses", "slices", "services", "policies", "roles", "clusterroles",
       "bindings", "clusterbindings", "pods"} \subseteq Cluster!List
  BY DEF Cluster!List, Cluster!Lists, Cluster!ToSet
<1>2. \A l \in Cluster!List : \A o \in seen[l] : Cluster!In[o] = l /\ o \in Cluster!Object
  BY DEF TopologyInv, Cluster!TypeOK
<1>3. Cluster!Object = {"ingress", "slice", "external", "policy", "role", "clusterrole",
                        "binding", "reference", "clusterbinding", "pod"}
  BY DEF Cluster!Object, Cluster!In
<1>4. /\ Cluster!In["ingress"] = "ingresses" /\ Cluster!In["slice"] = "slices"
      /\ Cluster!In["external"] = "services" /\ Cluster!In["policy"] = "policies"
      /\ Cluster!In["role"] = "roles" /\ Cluster!In["clusterrole"] = "clusterroles"
      /\ Cluster!In["binding"] = "bindings" /\ Cluster!In["reference"] = "bindings"
      /\ Cluster!In["clusterbinding"] = "clusterbindings" /\ Cluster!In["pod"] = "pods"
  BY DEF Cluster!In
<1>5. \A l \in Cluster!List : \A o \in seen[l] : o \in Alone => {o} \in together
  BY Seen DEF TopologyInv
<1> QED BY <1>1, <1>2, <1>3, <1>4, <1>5 DEF Alone


\* A grant with the rules of what its binding refers to is one without the rules of
\* another role: the keys of a Role and a ClusterRole differ.
LEMMA GrantsOwn ==
  ASSUME TopologyInv, NEW b \in DOMAIN Cluster!RefersTo, NEW r \in Cluster!Granted(b)
  PROVE  r = Cluster!RefersTo[b]
<1>1. /\ r \in seen["roles"] \union seen["clusterroles"]
      /\ Cluster!RuleKey(r) = Cluster!RuleKey(Cluster!RefersTo[b])
  BY DEF Cluster!Granted, Cluster!Rules
<1>2. r \in {"role", "clusterrole"} /\ Cluster!RefersTo[b] \in {"role", "clusterrole"}
  BY <1>1, Sorts DEF Cluster!RefersTo
<1>3. Cluster!RuleKey("role") # Cluster!RuleKey("clusterrole")
  BY DEF Cluster!RuleKey
<1> QED BY <1>1, <1>2, <1>3

LEMMA TopologyReal == TopologyInv => Cluster!NothingIsInvented
<1> SUFFICES ASSUME TopologyInv, NEW s \in Cluster!Shown
             PROVE  /\ \A o \in s : {o} \in Cluster!Sights => {o} \in together
                    /\ \A b \in s \intersect DOMAIN Cluster!RefersTo : Cluster!RefersTo[b] \in s
  BY DEF Cluster!NothingIsInvented
<1> DEFINE Bound == {"binding", "reference", "clusterbinding"}
<1>1. DOMAIN Cluster!RefersTo = Bound /\ Bound \intersect Alone = {}
  BY DEF Cluster!RefersTo, Alone
<1>2. {"ingresses", "slices", "services", "policies", "pods"} \subseteq Cluster!List
  BY DEF Cluster!List, Cluster!Lists, Cluster!ToSet
<1>3. CASE s \in {{o} : o \in UNION {seen[l] : l \in {"ingresses", "slices", "services", "policies"}}}
  <2>1. PICK l \in {"ingresses", "slices", "services", "policies"} :
          \E o \in seen[l] : s = {o}
    BY <1>3
  <2>2. PICK o \in seen[l] : s = {o} BY <2>1
  <2>3. o \in Alone /\ {o} \in together BY <1>2, <2>2, Sorts
  <2> QED BY <1>1, <2>2, <2>3
<1>4. CASE /\ s \in Cluster!Identities
           /\ \A b \in s \intersect DOMAIN Cluster!RefersTo : \E r \in Cluster!Granted(b) : r \in s
  <2>1. \A b \in s \intersect DOMAIN Cluster!RefersTo : Cluster!RefersTo[b] \in s
    BY <1>4, GrantsOwn
  <2>2. \A o \in s : o \in Alone => {o} \in together
    <3>1. /\ "pods" \in Cluster!List /\ "policies" \in Cluster!List
          /\ \A l \in Cluster!List : \A o \in seen[l] : o \in Alone => {o} \in together
      BY <1>2, Sorts
    <3>2. \A p \in seen["pods"] : {p} \in together
      <4>1. \A p \in seen["pods"] : p \in Alone BY Sorts DEF Alone
      <4> QED BY <3>1, <4>1, Zenon
    <3>3. \A q \in seen["policies"] : {q} \in together
      <4>1. \A q \in seen["policies"] : q \in Alone BY Sorts DEF Alone
      <4> QED BY <3>1, <4>1, Zenon
    <3>4. \A b \in seen["bindings"] \union seen["clusterbindings"] : b \notin Alone
      BY Sorts DEF Alone
    <3>5. "role" \notin Alone /\ "clusterrole" \notin Alone BY DEF Alone
    <3> QED BY <1>4, <3>2, <3>3, <3>4, <3>5 DEF Cluster!Identities
  <2> QED BY <2>1, <2>2, Seen
<1> QED BY <1>3, <1>4 DEF Cluster!Shown

\* What was there during the whole request, and no warning tells of, was seen.
LEMMA ThereIsSeen ==
  ASSUME TopologyInv, topologyAt > 9,
         NEW s \in Cluster!Declared(throughout),
         Cluster!Section(s) \intersect Cluster!Warnings = {},
         NEW o \in s
  PROVE  o \in seen[Cluster!In[o]] /\ o \in Cluster!Object
<1>1. o \in throughout /\ o \in Cluster!Object
  BY DEF Cluster!Declared, TopologyInv, Cluster!TypeOK
<1>2. PICK i \in 1..9 : Cluster!In[o] = Cluster!Lists[i]
  <2>1. \A p \in Cluster!Object : Cluster!In[p] \in Cluster!List
    BY DEF Cluster!Object, Cluster!In, Cluster!List, Cluster!Lists, Cluster!ToSet
  <2> QED BY <1>1, <2>1, NineLists
<1>3. Cluster!In[o] \notin failed
  <2> SUFFICES ASSUME Cluster!In[o] \in failed PROVE FALSE
    OBVIOUS
  <2>1. CASE Cluster!In[o] \in Cluster!RBAC
    <3>1. "rbac" \in Cluster!Warnings BY <2>1 DEF Cluster!Warnings
    <3>2. "rbac" \in Cluster!Section(s) BY <2>1 DEF Cluster!Section, Cluster!RBAC
    <3> QED BY <3>1, <3>2
  <2>2. CASE Cluster!In[o] \notin Cluster!RBAC
    <3>1. Cluster!In[o] \in Cluster!Warnings BY <2>2 DEF Cluster!Warnings
    <3>2. Cluster!In[o] \in Cluster!Section(s) BY <2>2 DEF Cluster!Section, Cluster!RBAC
    <3> QED BY <3>1, <3>2
  <2> QED BY <2>1, <2>2
<1>4. topologyAt \in Nat BY NineLists DEF TopologyInv, Cluster!TypeOK
<1>5. i < topologyAt BY <1>4
<1> QED BY <1>1, <1>2, <1>3, <1>5 DEF TopologyInv

LEMMA TopologyWhole == TopologyInv => Cluster!NothingIsSilentlyMissing
<1> SUFFICES ASSUME TopologyInv, topologyAt > 9, NEW s \in Cluster!Declared(throughout),
                    Cluster!Section(s) \intersect Cluster!Warnings = {}
             PROVE  s \in Cluster!Shown
  BY NineLists DEF Cluster!NothingIsSilentlyMissing
<1>1. \A o \in s : o \in seen[Cluster!In[o]] BY ThereIsSeen
<1>2. /\ Cluster!In["ingress"] = "ingresses" /\ Cluster!In["slice"] = "slices"
      /\ Cluster!In["external"] = "services" /\ Cluster!In["policy"] = "policies"
      /\ Cluster!In["role"] = "roles" /\ Cluster!In["clusterrole"] = "clusterroles"
      /\ Cluster!In["binding"] = "bindings" /\ Cluster!In["reference"] = "bindings"
      /\ Cluster!In["clusterbinding"] = "clusterbindings" /\ Cluster!In["pod"] = "pods"
      /\ DOMAIN Cluster!RefersTo = {"binding", "reference", "clusterbinding"}
  BY DEF Cluster!In, Cluster!RefersTo
<1>3. /\ s \in Cluster!Sights
      /\ \A b \in s \intersect DOMAIN Cluster!RefersTo : Cluster!RefersTo[b] \in s
  BY DEF Cluster!Declared
<1>4. CASE \E o \in {"ingress", "slice", "external", "policy"} : s = {o}
  <2>1. PICK o \in {"ingress", "slice", "external", "policy"} : s = {o} BY <1>4
  <2>2. Cluster!In[o] \in {"ingresses", "slices", "services", "policies"} BY <1>2
  <2>3. o \in UNION {seen[l] : l \in {"ingresses", "slices", "services", "policies"}}
    BY <1>1, <2>1, <2>2
  <2> QED BY <2>1, <2>3 DEF Cluster!Shown
<1>5. CASE s = {"pod"} \/ s = {"policy", "pod"}
  <2>1. "pod" \in s /\ "pod" \in seen["pods"] BY <1>1, <1>2, <1>5
  <2>2. s = {"policy", "pod"} => "policy" \in seen["policies"] BY <1>1, <1>2
  <2>3. s \in Cluster!Identities
    <3>1. CASE s = {"pod"} BY <2>1, <3>1 DEF Cluster!Identities
    <3>2. CASE s = {"policy", "pod"}
      <4>1. s = {"pod", "policy"} BY <3>2
      <4> QED BY <2>1, <2>2, <3>2, <4>1 DEF Cluster!Identities
    <3> QED BY <1>5, <3>1, <3>2
  <2>4. s \intersect DOMAIN Cluster!RefersTo = {} BY <1>2, <1>5
  <2> QED BY <2>3, <2>4 DEF Cluster!Shown
<1>6. CASE s \in Cluster!Grants
  <2>1. PICK b \in DOMAIN Cluster!RefersTo, r \in {"role", "clusterrole"} : s = {b, r, "pod"}
    BY <1>6 DEF Cluster!Grants
  <2>2. s \intersect DOMAIN Cluster!RefersTo = {b} BY <1>2, <2>1
  <2>3. r = Cluster!RefersTo[b]
    <3>1. Cluster!RefersTo[b] \in {b, r, "pod"} BY <1>3, <2>1
    <3>2. Cluster!RefersTo[b] \in {"role", "clusterrole"} BY <2>1 DEF Cluster!RefersTo
    <3> QED BY <1>2, <2>1, <3>1, <3>2
  <2>4. r \in seen["roles"] \union seen["clusterroles"]
    BY <1>1, <1>2, <2>1
  <2>5. r \in Cluster!Granted(b)
    <3> DEFINE rule == [key |-> Cluster!RuleKey(r), role |-> r]
    <3>1. rule \in Cluster!Rules BY <2>4 DEF Cluster!Rules
    <3>2. rule.key = Cluster!RuleKey(Cluster!RefersTo[b]) /\ rule.role = r BY <2>3
    <3> HIDE DEF rule
    <3> QED BY <3>1, <3>2 DEF Cluster!Granted
  <2>6. "pod" \in seen["pods"] /\ b \in seen["bindings"] \union seen["clusterbindings"]
    BY <1>1, <1>2, <2>1
  <2>7. s \in Cluster!Identities
    <3>1. s = {"pod", b, r} BY <2>1
    <3> QED BY <2>1, <2>6, <3>1 DEF Cluster!Identities
  <2> QED BY <2>1, <2>2, <2>5, <2>7 DEF Cluster!Shown
<1>7. \/ \E o \in {"ingress", "slice", "external", "policy"} : s = {o}
      \/ s = {"pod"} \/ s = {"policy", "pod"} \/ s \in Cluster!Grants
  BY <1>3 DEF Cluster!Sights
<1> QED BY <1>4, <1>5, <1>6, <1>7

-----------------------------------------------------------------------------
(* The overview of incidents.                                               *)

\* Until the loop is over, the suspects are those with an item and, after them in the
\* order of the names, those still to be looked at.
OverviewInv ==
  /\ Overview!TypeOK
  /\ overviewAt = "deployments" => items = {} /\ reads = 0
  /\ overviewAt \in {"others", "details"} =>
       /\ reads = Cardinality(items)
       /\ items \union overviewTodo = Overview!Suspects
       /\ \A d \in items, other \in overviewTodo : d < other
  /\ overviewAt = "events" => items = {} /\ Overview!First(MaxItems, Overview!Suspects) = {}
  /\ Overview!NobodyIsMissing

LEMMA OverviewBounds ==
  /\ Deployment \subseteq Nat /\ IsFiniteSet(Deployment)
  /\ MaxItems \in Nat /\ MaxEvents \in Nat /\ MaxRetained \in Nat /\ MaxOverviewChanges \in Nat
<1>1. \A S : Overview!IsFiniteSet(S) = IsFiniteSet(S) BY DEF Overview!IsFiniteSet, IsFiniteSet
<1> QED BY <1>1, InstanceBounds DEF Overview!OverviewBounds

LEMMA SameCardinality == \A S : Overview!Cardinality(S) = Cardinality(S)
BY DEF Overview!Cardinality, Cardinality

LEMMA FiniteDeployments ==
  ASSUME NEW S, S \subseteq Deployment
  PROVE  IsFiniteSet(S) /\ Cardinality(S) \in Nat
BY OverviewBounds, FS_Subset, FS_CardinalityType

\* A set of which nothing is left out but what comes after it, and that only when it has
\* as many elements as there may be, are the first ones.
LEMMA FirstOnes ==
  ASSUME NEW S, S \subseteq Deployment, NEW done, NEW rest, done \union rest = S,
         \A d \in done, other \in rest : d < other,
         Cardinality(done) <= MaxItems,
         rest = {} \/ Cardinality(done) >= MaxItems
  PROVE  done = Overview!First(MaxItems, S)
<1> DEFINE Before(d) == {other \in S : other < d}
<1>1. /\ S \subseteq Nat /\ done \subseteq Deployment
      /\ Cardinality(done) \in Nat /\ MaxItems \in Nat
  BY OverviewBounds, FiniteDeployments
<1>2. ASSUME NEW d \in done PROVE Cardinality(Before(d)) < MaxItems
  <2>1. Before(d) \subseteq done \ {d}
    <3> SUFFICES ASSUME NEW other \in S, other < d PROVE other \in done \ {d}
      OBVIOUS
    <3>1. d \in Nat /\ other \in Nat BY <1>1
    <3>2. other # d /\ ~(d < other) BY <3>1
    <3> QED BY <3>2
  <2>2. /\ IsFiniteSet(done \ {d}) /\ IsFiniteSet(done)
        /\ Cardinality(done \ {d}) = Cardinality(done) - 1
    BY <1>1, FiniteDeployments, FS_RemoveElement
  <2>3. Cardinality(Before(d)) <= Cardinality(done \ {d}) /\ Cardinality(Before(d)) \in Nat
    BY <1>1, <2>1, <2>2, FS_Subset, FiniteDeployments
  <2> HIDE DEF Before
  <2> QED BY <1>1, <2>2, <2>3
<1>3. ASSUME NEW d \in rest PROVE ~(Cardinality(Before(d)) < MaxItems)
  <2>1. done \subseteq Before(d) BY <1>1
  <2>2. IsFiniteSet(Before(d)) /\ Cardinality(Before(d)) \in Nat BY FiniteDeployments
  <2>3. Cardinality(done) <= Cardinality(Before(d)) BY <2>1, <2>2, FS_Subset
  <2>4. Cardinality(done) >= MaxItems BY <1>3
  <2> HIDE DEF Before
  <2> QED BY <1>1, <2>2, <2>3, <2>4
<1>4. Overview!First(MaxItems, S) = {d \in S : Cardinality(Before(d)) < MaxItems}
  BY SameCardinality DEF Overview!First
<1> HIDE DEF Before
<1> QED BY <1>2, <1>3, <1>4

LEMMA NoItems == Cardinality({}) = 0 /\ IsFiniteSet({})
BY FS_EmptySet

LEMMA InitOverview == Overview!Init => OverviewInv
<1> SUFFICES ASSUME Overview!Init PROVE OverviewInv
  OBVIOUS
<1>1. /\ overviewChanges = 0 /\ overviewAt = "deployments" /\ overviewTodo = {}
      /\ items = {} /\ warnings = {} /\ listed = status /\ reads = 0
  BY Zenon DEF Overview!Init
<1>2. status \in [Deployment -> Overview!Status]
  <2>1. status \in [Deployment -> {"Absent", "Healthy", "Scaled down", "Stalled"}]
    BY Zenon DEF Overview!Init
  <2>2. {"Absent", "Healthy", "Scaled down", "Stalled"} \subseteq Overview!Status
    BY Zenon DEF Overview!Status, Overview!Degraded
  <2> QED BY <2>1, <2>2, Zenon
<1>3. retained \in Seq(Overview!Type) /\ Len(retained) <= MaxRetained
  <2>1. retained \in Overview!BoundedSeq(Overview!Type, MaxRetained)
    BY Zenon DEF Overview!Init
  <2>2. PICK m \in 0..MaxRetained : retained \in [1..m -> Overview!Type]
    BY <2>1 DEF Overview!BoundedSeq, Overview!SeqOf
  <2>3. m \in Nat /\ m <= MaxRetained BY OverviewBounds
  <2> QED BY <2>2, <2>3
<1>4. Overview!TypeOK
  BY <1>1, <1>2, <1>3, OverviewBounds, NoItems, SameCardinality DEF Overview!TypeOK
<1> QED BY <1>1, <1>4 DEF OverviewInv, Overview!NobodyIsMissing

\* The cluster changes, but not what was listed of it.
LEMMA OverviewChanges == OverviewInv /\ Overview!ClusterChanges => OverviewInv'
<1> SUFFICES ASSUME OverviewInv, Overview!ClusterChanges PROVE OverviewInv'
  OBVIOUS
<1>1. /\ overviewChanges < MaxOverviewChanges /\ overviewChanges' = overviewChanges + 1
      /\ UNCHANGED <<overviewAt, overviewTodo, items, warnings, listed, reads>>
  BY DEF Overview!ClusterChanges, Overview!answer
<1>2. overviewChanges' \in 0..MaxOverviewChanges
  <2>1. overviewChanges \in 0..MaxOverviewChanges BY DEF OverviewInv, Overview!TypeOK
  <2> QED BY <1>1, <2>1, OverviewBounds
<1>3. /\ status \in [Deployment -> Overview!Status]
      /\ retained \in Seq(Overview!Type) /\ Len(retained) <= MaxRetained
  BY DEF OverviewInv, Overview!TypeOK
<1>4. status' \in [Deployment -> Overview!Status]
  <2>1. {"Absent", "Healthy", "Progressing"} \subseteq Overview!Status
    BY Zenon DEF Overview!Status, Overview!Degraded
  <2> QED BY <1>3, <2>1
    DEF Overview!ClusterChanges, Overview!StatusChanges, Overview!EventHappens
<1>5. retained' \in Seq(Overview!Type) /\ Len(retained') <= MaxRetained
  <2>1. CASE UNCHANGED retained BY <1>3, <2>1
  <2>2. CASE \E type \in Overview!Type : Overview!EventHappens(type)
    <3>1. PICK type \in Overview!Type : Len(retained) < MaxRetained /\ retained' = <<type>> \o retained
      BY <2>2 DEF Overview!EventHappens
    <3> QED BY <1>3, <3>1, OverviewBounds
  <2> QED BY <2>1, <2>2 DEF Overview!ClusterChanges, Overview!StatusChanges
<1>6. Overview!TypeOK'
  BY <1>1, <1>2, <1>4, <1>5 DEF OverviewInv, Overview!TypeOK
<1>7. Overview!Suspects' = Overview!Suspects BY <1>1 DEF Overview!Suspects
<1>8. Overview!First(MaxItems, Overview!Suspects)' = Overview!First(MaxItems, Overview!Suspects)
  BY <1>7 DEF Overview!First
<1> QED BY <1>1, <1>6, <1>7, <1>8 DEF OverviewInv, Overview!NobodyIsMissing

\* What stays while the request goes on.
LEMMA OverviewContinues ==
  ASSUME OverviewInv, NEW next, Overview!Continue(next)
  PROVE  /\ overviewAt' = next
         /\ UNCHANGED <<status, retained, overviewChanges>>
BY DEF Overview!Continue, Overview!cluster

LEMMA OverviewFails == OverviewInv /\ Overview!Fail => OverviewInv'
<1> SUFFICES ASSUME OverviewInv, Overview!Fail PROVE OverviewInv'
  OBVIOUS
<1>1. /\ overviewAt' = "failed"
      /\ UNCHANGED <<status, retained, overviewChanges, overviewTodo, items, warnings,
                     listed, reads>>
  BY DEF Overview!Fail, Overview!Continue, Overview!cluster, Overview!answer
<1> QED BY <1>1 DEF OverviewInv, Overview!TypeOK, Overview!NobodyIsMissing

LEMMA OverviewLists ==
  ASSUME OverviewInv, Overview!ListDeployments \/ Overview!ListOthers
  PROVE  OverviewInv'
<1>1. CASE Overview!ListDeployments
  <2>1. /\ overviewAt = "deployments" /\ overviewAt' = "others" /\ listed' = status
        /\ UNCHANGED <<status, retained, overviewChanges, items, warnings, reads>>
    BY <1>1 DEF Overview!ListDeployments, Overview!Continue, Overview!cluster, Overview!answer
  <2>2. overviewTodo' = Overview!Suspects'
    BY <1>1, <2>1 DEF Overview!ListDeployments, Overview!Suspect, Overview!Suspects
  <2>3. Overview!Suspects' \subseteq Deployment BY DEF Overview!Suspects
  <2>4. items' = {} /\ reads' = 0 BY <2>1 DEF OverviewInv
  <2>5. Overview!TypeOK'
    BY <2>1, <2>2, <2>3 DEF OverviewInv, Overview!TypeOK
  <2> QED BY <2>1, <2>2, <2>4, <2>5, NoItems DEF OverviewInv, Overview!NobodyIsMissing
<1>2. CASE Overview!ListOthers
  <2>1. /\ overviewAt = "others" /\ overviewAt' = "details"
        /\ UNCHANGED <<status, retained, overviewChanges, overviewTodo, items, warnings,
                       listed, reads>>
    BY <1>2 DEF Overview!ListOthers, Overview!Continue, Overview!cluster, Overview!answer
  <2>2. Overview!Suspects' = Overview!Suspects BY <2>1 DEF Overview!Suspects
  <2> QED BY <2>1, <2>2 DEF OverviewInv, Overview!TypeOK, Overview!NobodyIsMissing
<1> QED BY <1>1, <1>2

LEMMA OverviewDetails == OverviewInv /\ Overview!Detail => OverviewInv'
<1> SUFFICES ASSUME OverviewInv, Overview!Detail PROVE OverviewInv'
  OBVIOUS
<1>1. PICK d \in overviewTodo :
        /\ \A other \in overviewTodo : d <= other
        /\ overviewTodo' = overviewTodo \ {d} /\ reads' = reads + 1
        /\ \/ overviewAt' = "failed" /\ items' = items
           \/ overviewAt' = "details" /\ items' = items \union {d}
        /\ UNCHANGED <<status, retained, overviewChanges>>
  BY DEF Overview!Detail, Overview!Continue, Overview!cluster
<1>2. /\ overviewAt = "details" /\ Cardinality(items) < MaxItems
      /\ UNCHANGED <<warnings, listed>>
  BY SameCardinality DEF Overview!Detail
<1>3. /\ overviewTodo \subseteq Deployment /\ items \subseteq Deployment
      /\ Deployment \subseteq Nat /\ MaxItems \in Nat
      /\ IsFiniteSet(items) /\ Cardinality(items) \in Nat
  BY OverviewBounds, FiniteDeployments DEF OverviewInv, Overview!TypeOK
<1>4. /\ reads = Cardinality(items) /\ items \union overviewTodo = Overview!Suspects
      /\ \A i \in items, other \in overviewTodo : i < other
  BY <1>2 DEF OverviewInv
<1>5. Cardinality(items \union {d}) = Cardinality(items) + 1
  <2>1. d \notin items BY <1>1, <1>3, <1>4
  <2> QED BY <1>3, <2>1, FS_AddElement
<1>6. reads' \in 0..MaxItems /\ Cardinality(items') <= MaxItems
  <2>1. Cardinality(items) + 1 \in 0..MaxItems /\ Cardinality(items) <= MaxItems
    BY <1>2, <1>3
  <2>2. reads' = Cardinality(items) + 1 BY <1>1, <1>4
  <2>3. Cardinality(items') \in {Cardinality(items), Cardinality(items) + 1}
    BY <1>1, <1>5
  <2> QED BY <1>3, <2>1, <2>2, <2>3
<1>7. overviewTodo' \subseteq Deployment /\ items' \subseteq Deployment
  BY <1>1, <1>3
<1>8. Overview!TypeOK'
  BY <1>1, <1>2, <1>6, <1>7, SameCardinality DEF OverviewInv, Overview!TypeOK
<1>9. overviewAt' = "details" =>
        /\ reads' = Cardinality(items')
        /\ items' \union overviewTodo' = Overview!Suspects'
        /\ \A i \in items', other \in overviewTodo' : i < other
  <2> SUFFICES ASSUME overviewAt' = "details"
               PROVE  /\ reads' = Cardinality(items')
                      /\ items' \union overviewTodo' = Overview!Suspects'
                      /\ \A i \in items', other \in overviewTodo' : i < other
    OBVIOUS
  <2>1. items' = items \union {d} BY <1>1
  <2>2. Overview!Suspects' = Overview!Suspects BY <1>2 DEF Overview!Suspects
  <2>3. reads' = Cardinality(items') BY <1>1, <1>4, <1>5, <2>1
  <2>4. items' \union overviewTodo' = Overview!Suspects' BY <1>1, <1>4, <2>1, <2>2
  <2>5. \A i \in items', other \in overviewTodo' : i < other
    BY <1>1, <1>3, <1>4, <2>1
  <2> QED BY <2>3, <2>4, <2>5
<1> QED BY <1>1, <1>8, <1>9 DEF OverviewInv, Overview!NobodyIsMissing

\* The loop ends with the first suspects, be it for want of others or at the limit.
LEMMA OverviewDetailed == OverviewInv /\ Overview!Detailed => OverviewInv'
<1> SUFFICES ASSUME OverviewInv, Overview!Detailed PROVE OverviewInv'
  OBVIOUS
<1>1. /\ overviewAt = "details"
      /\ overviewTodo = {} \/ Cardinality(items) >= MaxItems
      /\ overviewAt' = IF items = {} THEN "events" ELSE "answered"
      /\ UNCHANGED <<status, retained, overviewChanges, overviewTodo, items, warnings,
                     listed, reads>>
  BY SameCardinality
     DEF Overview!Detailed, Overview!Continue, Overview!cluster, Overview!answer
<1>2. /\ items \union overviewTodo = Overview!Suspects
      /\ \A i \in items, other \in overviewTodo : i < other
  BY <1>1 DEF OverviewInv
<1>3. Overview!Suspects \subseteq Deployment /\ Cardinality(items) <= MaxItems
  BY SameCardinality DEF OverviewInv, Overview!TypeOK, Overview!Suspects
<1>4. items = Overview!First(MaxItems, Overview!Suspects)
  BY <1>1, <1>2, <1>3, FirstOnes
<1>5. /\ Overview!Suspects' = Overview!Suspects
      /\ Overview!First(MaxItems, Overview!Suspects)' = Overview!First(MaxItems, Overview!Suspects)
  BY <1>1 DEF Overview!Suspects, Overview!First
<1>6. Overview!TypeOK' BY <1>1 DEF OverviewInv, Overview!TypeOK
<1> QED BY <1>1, <1>4, <1>5, <1>6 DEF OverviewInv, Overview!NobodyIsMissing

LEMMA OverviewEvents == OverviewInv /\ Overview!ListEvents => OverviewInv'
<1> SUFFICES ASSUME OverviewInv, Overview!ListEvents PROVE OverviewInv'
  OBVIOUS
<1>1. /\ overviewAt = "events" /\ overviewAt' = "answered"
      /\ warnings' \subseteq DOMAIN Overview!Newest
      /\ UNCHANGED <<status, retained, overviewChanges, overviewTodo, items, listed, reads>>
  BY DEF Overview!ListEvents, Overview!Continue, Overview!cluster
<1>2. DOMAIN Overview!Newest \subseteq 1..MaxEvents
  <2>1. retained \in Seq(Overview!Type) BY DEF OverviewInv, Overview!TypeOK
  <2>2. Len(retained) \in Nat /\ MaxEvents \in Nat BY <2>1, OverviewBounds
  <2> DEFINE m == IF Len(retained) < MaxEvents THEN Len(retained) ELSE MaxEvents
  <2>3. m \in Nat /\ m <= MaxEvents /\ 1..m \subseteq 1..Len(retained) BY <2>2
  <2>4. DOMAIN SubSeq(retained, 1, m) = 1..m
    <3> HIDE DEF m
    <3> QED BY <2>1, <2>3, SubSeqProperties
  <2>5. Overview!Newest = SubSeq(retained, 1, m) BY DEF Overview!Newest
  <2> HIDE DEF m
  <2> QED BY <2>2, <2>3, <2>4, <2>5
<1>3. Overview!TypeOK' BY <1>1, <1>2 DEF OverviewInv, Overview!TypeOK
<1>4. /\ Overview!Suspects' = Overview!Suspects
      /\ Overview!First(MaxItems, Overview!Suspects)' = Overview!First(MaxItems, Overview!Suspects)
  BY <1>1 DEF Overview!Suspects, Overview!First
<1> QED BY <1>1, <1>3, <1>4 DEF OverviewInv, Overview!NobodyIsMissing

LEMMA StepOverview == OverviewInv /\ [Overview!Next]_overviewVars => OverviewInv'
<1> SUFFICES ASSUME OverviewInv, [Overview!Next]_overviewVars PROVE OverviewInv'
  OBVIOUS
<1>1. CASE Overview!ClusterChanges BY <1>1, OverviewChanges
<1>2. CASE Overview!Fail BY <1>2, OverviewFails
<1>3. CASE Overview!ListDeployments \/ Overview!ListOthers BY <1>3, OverviewLists
<1>4. CASE Overview!Detail BY <1>4, OverviewDetails
<1>5. CASE Overview!Detailed BY <1>5, OverviewDetailed
<1>6. CASE Overview!ListEvents BY <1>6, OverviewEvents
<1>7. CASE UNCHANGED overviewVars
  <2>1. UNCHANGED <<status, retained, overviewChanges, overviewAt, overviewTodo, items,
                    warnings, listed, reads>>
    BY <1>7 DEF overviewVars
  <2>2. /\ Overview!Suspects' = Overview!Suspects
        /\ Overview!First(MaxItems, Overview!Suspects)' = Overview!First(MaxItems, Overview!Suspects)
    BY <2>1 DEF Overview!Suspects, Overview!First
  <2>3. Overview!TypeOK' BY <2>1 DEF OverviewInv, Overview!TypeOK
  <2> QED BY <2>1, <2>2, <2>3 DEF OverviewInv, Overview!NobodyIsMissing
<1> QED BY <1>1, <1>2, <1>3, <1>4, <1>5, <1>6, <1>7 DEF Overview!Next

-----------------------------------------------------------------------------
(* The detail of a workload.                                                *)

Fields == {"uid", "owners", "pods", "services", "policies", "events", "receipts",
           "logs", "metrics", "diagnoses", "warnings"}

Belongs(s) == <<detail.uid, s>> \in truth

\* EvidenceBelongs, for each kind of an event.
Evidence ==
  /\ \A s \in detail.owners : Belongs(s)
  /\ \A q \in detail.pods \union detail.logs : Belongs(parent[q])
  /\ \A e \in detail.events :
       /\ e.kind = "Deployment" => e.uid = detail.uid
       /\ e.kind = "ReplicaSet" => Belongs(e.set)
       /\ e.kind = "Pod" => Belongs(parent[e.pod]) /\ e.uid # "earlier"
  /\ \A d \in detail.diagnoses : d[1] \in {"PodFailure", "ProbeFailed"} => Belongs(parent[d[2]])

\* Before the endpoints were read nothing is said about them.
UpToEndpoints == {"list", "get", "sets", "pods", "network", "service", "endpoints"}

Reported ==
  /\ missing \subseteq Workload!Source /\ detail.warnings \subseteq missing
  /\ missing \ Workload!Dropped \subseteq detail.warnings
  /\ "endpoints" \in missing => \A d \in detail.diagnoses : d[1] # "NoReadyEndpoints"
  /\ detailAt \in UpToEndpoints =>
       "endpoints" \notin missing /\ \A d \in detail.diagnoses : d[1] # "NoReadyEndpoints"

\* Before the Deployment was read an answer has nothing that could belong to another
\* one.
DetailInv ==
  /\ Workload!TypeOK
  /\ DOMAIN detail = Fields /\ IsFiniteSet(detail.logs)
  /\ Workload!Holds(owner) \subseteq truth
  /\ detailAt \in {"list", "get"} => detail = Workload!Empty
  /\ detailAt = "sets" => detail.uid # 0
  /\ Evidence /\ Reported

LEMMA CountLogs == \A S : Workload!Cardinality(S) = Cardinality(S)
BY DEF Workload!Cardinality, Cardinality

LEMMA DetailBounds ==
  /\ MaxBorn \in Nat /\ MaxBorn >= 1 /\ MaxLogs \in Nat
  /\ None \notin ReplicaSet
BY InstanceBounds DEF Workload!DetailBounds, Workload!DetailNames

LEMMA DetailReal == DetailInv => Workload!EvidenceBelongs
<1> SUFFICES ASSUME DetailInv PROVE Workload!EvidenceBelongs
  OBVIOUS
<1>1. \A e \in detail.events : e.kind \in {"Deployment", "ReplicaSet", "Pod"}
  BY DEF DetailInv, Workload!TypeOK, Workload!Event
<1> QED BY <1>1 DEF DetailInv, Evidence, Belongs, Workload!EvidenceBelongs

LEMMA EmptyDetail ==
  ASSUME detail = Workload!Empty
  PROVE  /\ DOMAIN detail = Fields /\ detail.uid = 0
         /\ detail.owners = {} /\ detail.pods = {} /\ detail.events = {}
         /\ detail.logs = {} /\ detail.diagnoses = {} /\ detail.warnings = {}
BY DEF Workload!Empty, Fields

LEMMA InitDetail == Workload!Init => DetailInv
<1> SUFFICES ASSUME Workload!Init PROVE DetailInv
  OBVIOUS
<1>1. /\ live = 1 /\ born = 1 /\ detailAt = "list" /\ detailTodo = {}
      /\ detail = Workload!Empty /\ missing = {} /\ detailChanges = 0
      /\ owner \in [ReplicaSet -> {0, 1}]
      /\ parent \in [Pod -> ReplicaSet \union {None}]
      /\ running \subseteq Pod /\ sick \subseteq Pod /\ leaving = {}
      /\ truth = {<<1, s>> : s \in {s \in ReplicaSet : owner[s] = 1}}
  BY DEF Workload!Init
<1>2. Workload!Holds(owner) \subseteq truth
  BY <1>1 DEF Workload!Holds
<1>3. owner \in [ReplicaSet -> 0..MaxBorn] /\ 1 \in 1..MaxBorn /\ 0 \in 0..MaxBorn
  <2>1. {0, 1} \subseteq 0..MaxBorn BY DetailBounds
  <2> QED BY <1>1, <2>1, DetailBounds
<1>4. IsFiniteSet(detail.logs) /\ Cardinality(detail.logs) <= MaxLogs
  BY <1>1, EmptyDetail, FS_EmptySet, DetailBounds
<1>5. Workload!TypeOK
  BY <1>1, <1>3, <1>4, EmptyDetail, CountLogs DEF Workload!TypeOK
<1>6. Evidence /\ Reported
  BY <1>1, EmptyDetail DEF Evidence, Reported, Workload!Dropped
<1> QED BY <1>1, <1>2, <1>4, <1>5, <1>6, EmptyDetail DEF DetailInv

-----------------------------------------------------------------------------
(* The cluster changes while a detail is put together.                      *)

LEMMA ClusterTypes ==
  ASSUME DetailInv, Workload!ClusterChanges
  PROVE  /\ born' \in 1..MaxBorn /\ live' \in {0, born'}
         /\ owner' \in [ReplicaSet -> 0..MaxBorn] /\ parent' = parent
         /\ running' \subseteq Pod /\ sick' \subseteq Pod /\ leaving' \subseteq Pod
<1>1. /\ born \in 1..MaxBorn /\ live \in {0, born}
      /\ owner \in [ReplicaSet -> 0..MaxBorn]
      /\ running \subseteq Pod /\ sick \subseteq Pod /\ leaving \subseteq Pod
  BY DEF DetailInv, Workload!TypeOK
<1>2. CASE Workload!Delete
  BY <1>1, <1>2 DEF Workload!Delete
<1>3. CASE Workload!Create
  <2>1. born + 1 \in 1..MaxBorn BY <1>1, <1>3, DetailBounds DEF Workload!Create
  <2> QED BY <1>1, <1>3, <2>1 DEF Workload!Create
<1>4. CASE Workload!ServiceChanges
  BY <1>1, <1>4 DEF Workload!ServiceChanges
<1>5. CASE \E s \in ReplicaSet : Workload!Own(s)
  <2>1. PICK s \in ReplicaSet : Workload!Own(s) BY <1>5
  <2>2. PICK u \in {0, live} : owner' = [owner EXCEPT ![s] = u]
    BY <2>1 DEF Workload!Own
  <2>3. u \in 0..MaxBorn BY <1>1, DetailBounds
  <2> QED BY <1>1, <2>1, <2>2, <2>3 DEF Workload!Own
<1>6. CASE \E q \in Pod : Workload!PodChanges(q)
  BY <1>1, <1>6 DEF Workload!PodChanges
<1> QED BY <1>2, <1>3, <1>4, <1>5, <1>6 DEF Workload!ClusterChanges

\* What belonged to a Deployment since the request came is not forgotten.
LEMMA DetailChanges == DetailInv /\ Workload!ClusterChanges => DetailInv'
<1> SUFFICES ASSUME DetailInv, Workload!ClusterChanges PROVE DetailInv'
  OBVIOUS
<1>1. /\ detailChanges' = detailChanges + 1 /\ truth' = truth \union Workload!Holds(owner')
      /\ detailAt' = detailAt /\ detailTodo' = detailTodo /\ detail' = detail
      /\ missing' = missing
  BY DEF Workload!ClusterChanges, Workload!request
<1>2. /\ born' \in 1..MaxBorn /\ live' \in {0, born'}
      /\ owner' \in [ReplicaSet -> 0..MaxBorn] /\ parent' = parent
      /\ running' \subseteq Pod /\ sick' \subseteq Pod /\ leaving' \subseteq Pod
  BY ClusterTypes
<1>3. detailChanges' \in Nat
  <2>1. detailChanges \in Nat BY DEF DetailInv, Workload!TypeOK
  <2> QED BY <1>1, <2>1
<1>4. Workload!TypeOK'
  BY <1>1, <1>2, <1>3 DEF DetailInv, Workload!TypeOK
<1>5. Workload!Holds(owner)' \subseteq truth'
  BY <1>1 DEF Workload!Holds
<1>6. \A s : Belongs(s) => Belongs(s)'
  BY <1>1 DEF Belongs
<1>7. Evidence'
  BY <1>1, <1>2, <1>6 DEF DetailInv, Evidence
<1>8. Reported'
  BY <1>1 DEF DetailInv, Reported, Workload!Dropped
<1> QED BY <1>1, <1>4, <1>5, <1>7, <1>8 DEF DetailInv

-----------------------------------------------------------------------------
(* The reads of a detail.                                                   *)

\* A read does not change the cluster.
Still ==
  UNCHANGED <<live, born, stalled, owner, parent, running, sick, leaving, service,
              detailChanges, truth, steady>>

LEMMA ReadsOnly == Workload!Read => Still
<1> USE DEF Still, Workload!cluster
<1>1. Workload!List \/ Workload!Get \/ Workload!ListSets => Still
  BY DEF Workload!List, Workload!Get, Workload!ListSets
<1>2. Workload!ListPods \/ Workload!ListNetwork \/ Workload!GetService => Still
  BY DEF Workload!ListPods, Workload!ListNetwork, Workload!GetService
<1>3. Workload!ListEndpoints \/ Workload!ListPolicies \/ Workload!ListEvents => Still
  BY DEF Workload!ListEndpoints, Workload!ListPolicies, Workload!ListEvents
<1>4. Workload!ListReceipts \/ Workload!FetchLogs \/ Workload!QueryMetrics => Still
  BY DEF Workload!ListReceipts, Workload!FetchLogs, Workload!QueryMetrics
<1> QED BY <1>1, <1>2, <1>3, <1>4 DEF Workload!Read

\* A request that failed has no answer.
LEMMA DetailFails == DetailInv /\ Still /\ Workload!Fails => DetailInv'
<1> SUFFICES ASSUME DetailInv, Still, Workload!Fails PROVE DetailInv'
  OBVIOUS
<1>1. /\ detailAt' = "failed" /\ detail' = Workload!Empty /\ missing' = {} /\ detailTodo' = {}
  BY DEF Workload!Fails
<1>2. /\ DOMAIN detail' = Fields /\ detail'.uid = 0
      /\ detail'.owners = {} /\ detail'.pods = {} /\ detail'.events = {}
      /\ detail'.logs = {} /\ detail'.diagnoses = {} /\ detail'.warnings = {}
  BY <1>1 DEF Workload!Empty, Fields
<1>3. IsFiniteSet(detail'.logs) /\ Cardinality(detail'.logs) <= MaxLogs
  BY <1>2, FS_EmptySet, DetailBounds
<1>4. 0 \in 0..MaxBorn BY DetailBounds
<1>5. Workload!TypeOK'
  BY <1>1, <1>2, <1>3, <1>4, CountLogs DEF Still, DetailInv, Workload!TypeOK
<1>6. Evidence' BY <1>2 DEF Evidence
<1>7. Reported'
  BY <1>1, <1>2 DEF Reported, Workload!Dropped, UpToEndpoints
<1>8. Workload!Holds(owner)' \subseteq truth'
  BY DEF Still, DetailInv, Workload!Holds
<1> QED BY <1>1, <1>2, <1>3, <1>5, <1>6, <1>7, <1>8 DEF DetailInv

\* A read after which an answer has the same evidence.
LEMMA SameEvidence ==
  ASSUME DetailInv, Still, DOMAIN detail' = Fields,
         detail'.uid = detail.uid, detail'.owners = detail.owners, detail'.pods = detail.pods,
         detail'.events = detail.events, detail'.logs = detail.logs,
         \A d \in detail'.diagnoses : d \in detail.diagnoses \/ d[1] = "NoReadyEndpoints",
         detailTodo' \subseteq detailTodo,
         detailAt' \notin {"list", "get", "sets", "failed"},
         Reported'
  PROVE  DetailInv'
<1>1. Workload!TypeOK'
  BY DEF Still, DetailInv, Workload!TypeOK, Reported
<1>2. \A s : Belongs(s) => Belongs(s)'
  BY DEF Belongs, Still
<1>3. Evidence'
  <2>1. parent' = parent BY DEF Still
  <2>2. \A d \in detail'.diagnoses :
          d[1] \in {"PodFailure", "ProbeFailed"} => Belongs(parent[d[2]])'
    BY <1>2, <2>1 DEF DetailInv, Evidence
  <2>3. \A e \in detail'.events :
          /\ e.kind = "Deployment" => e.uid = detail'.uid
          /\ e.kind = "ReplicaSet" => Belongs(e.set)'
          /\ e.kind = "Pod" => Belongs(parent[e.pod])' /\ e.uid # "earlier"
    BY <1>2, <2>1 DEF DetailInv, Evidence
  <2>4. /\ \A s \in detail'.owners : Belongs(s)'
        /\ \A q \in detail'.pods \union detail'.logs : Belongs(parent[q])'
    BY <1>2, <2>1 DEF DetailInv, Evidence
  <2> QED BY <2>2, <2>3, <2>4 DEF Evidence
<1>4. Workload!Holds(owner)' \subseteq truth'
  BY DEF Still, DetailInv, Workload!Holds
<1> QED BY <1>1, <1>3, <1>4 DEF DetailInv

\* A source other than the endpoints that cannot be read leaves the answer as it is, but
\* for a warning.
LEMMA Skips ==
  ASSUME DetailInv, NEW source \in Workload!Source, NEW warned \in BOOLEAN,
         Workload!Skip(source, warned), source # "endpoints",
         source \in {"network", "events", "logs", "metrics"} => warned,
         detailAt' \in UpToEndpoints => detailAt \in UpToEndpoints
  PROVE  /\ DOMAIN detail' = Fields /\ detail'.diagnoses = detail.diagnoses
         /\ detail'.uid = detail.uid /\ detail'.owners = detail.owners
         /\ detail'.pods = detail.pods /\ detail'.events = detail.events
         /\ detail'.logs = detail.logs
         /\ Reported'
<1>1. DOMAIN detail = Fields BY DEF DetailInv
<1>2. /\ missing' = missing \union {source}
      /\ detail' = [detail EXCEPT !.warnings = IF warned THEN @ \union {source} ELSE @]
  BY DEF Workload!Skip
<1>3. /\ DOMAIN detail' = Fields /\ detail'.diagnoses = detail.diagnoses
      /\ detail'.uid = detail.uid /\ detail'.owners = detail.owners
      /\ detail'.pods = detail.pods /\ detail'.events = detail.events
      /\ detail'.logs = detail.logs
      /\ detail'.warnings = IF warned THEN detail.warnings \union {source} ELSE detail.warnings
  BY <1>1, <1>2 DEF Fields
<1>4. missing' \ Workload!Dropped \subseteq detail'.warnings
  <2>1. missing \ Workload!Dropped \subseteq detail.warnings BY DEF DetailInv, Reported
  <2>2. source \in Workload!Dropped \/ warned BY DEF Workload!Source, Workload!Dropped
  <2> QED BY <1>2, <1>3, <2>1, <2>2
<1>5. missing' \subseteq Workload!Source /\ detail'.warnings \subseteq missing'
  BY <1>2, <1>3 DEF DetailInv, Reported
<1>6. /\ "endpoints" \in missing' => \A d \in detail'.diagnoses : d[1] # "NoReadyEndpoints"
      /\ detailAt' \in UpToEndpoints =>
           "endpoints" \notin missing' /\ \A d \in detail'.diagnoses : d[1] # "NoReadyEndpoints"
  BY <1>2, <1>3 DEF DetailInv, Reported
<1> QED BY <1>3, <1>4, <1>5, <1>6 DEF Reported

LEMMA ReadDeployment ==
  ASSUME DetailInv, Still, Workload!List \/ Workload!Get
  PROVE  DetailInv'
<1>1. CASE Workload!Fails BY <1>1, DetailFails
<1>2. CASE Workload!List /\ ~Workload!Fails
  <2>1. /\ detailAt = "list" /\ detailAt' = "get"
        /\ UNCHANGED <<detailTodo, detail, missing>>
    BY <1>2 DEF Workload!List, Workload!Goto
  <2>2. Workload!TypeOK' BY <2>1 DEF Still, DetailInv, Workload!TypeOK
  <2>3. Evidence' BY <2>1 DEF Still, DetailInv, Evidence, Belongs
  <2>4. Reported'
    BY <2>1 DEF DetailInv, Reported, UpToEndpoints, Workload!Dropped
  <2>5. Workload!Holds(owner)' \subseteq truth' /\ detail' = Workload!Empty
    BY <2>1 DEF Still, DetailInv, Workload!Holds
  <2> QED BY <2>1, <2>2, <2>3, <2>4, <2>5 DEF DetailInv
<1>3. CASE Workload!Get /\ ~Workload!Fails
  <2>1. /\ detailAt = "get" /\ detailAt' = "sets" /\ live # 0
        /\ detail' = [detail EXCEPT !.uid = live,
             !.diagnoses = IF stalled THEN {<<"RolloutStalled", live>>} ELSE {}]
        /\ UNCHANGED <<detailTodo, missing>>
    BY <1>3 DEF Workload!Get, Workload!Goto
  <2>2. detail = Workload!Empty BY <2>1 DEF DetailInv
  <2>3. /\ DOMAIN detail' = Fields /\ detail'.uid = live
        /\ detail'.owners = {} /\ detail'.pods = {} /\ detail'.events = {}
        /\ detail'.logs = {} /\ detail'.warnings = {}
        /\ detail'.diagnoses \subseteq {<<"RolloutStalled", live>>}
    BY <2>1, <2>2 DEF Workload!Empty, Fields
  <2>4. \A d \in detail'.diagnoses : d[1] = "RolloutStalled" BY <2>3
  <2>5. IsFiniteSet(detail'.logs) /\ Cardinality(detail'.logs) <= MaxLogs
    BY <2>3, FS_EmptySet, DetailBounds
  <2>6. live \in 0..MaxBorn /\ detailTodo' = {}
    <3>1. detailTodo = {} /\ live \in {0, born} /\ born \in 1..MaxBorn
      BY <2>2, EmptyDetail DEF DetailInv, Workload!TypeOK
    <3> QED BY <2>1, <3>1, DetailBounds
  <2>7. Workload!TypeOK'
    BY <2>1, <2>3, <2>5, <2>6, CountLogs DEF Still, DetailInv, Workload!TypeOK
  <2>8. Evidence' BY <2>3, <2>4 DEF Evidence
  <2>9. Reported'
    BY <2>1, <2>3, <2>4 DEF DetailInv, Reported, UpToEndpoints, Workload!Dropped
  <2>10. Workload!Holds(owner)' \subseteq truth'
    BY DEF Still, DetailInv, Workload!Holds
  <2> QED BY <2>1, <2>3, <2>5, <2>7, <2>8, <2>9, <2>10 DEF DetailInv
<1> QED BY <1>1, <1>2, <1>3

\* The ReplicaSets of the Deployment belong to it as they are listed.
LEMMA ReadSets == DetailInv /\ Still /\ Workload!ListSets => DetailInv'
<1> SUFFICES ASSUME DetailInv, Still, Workload!ListSets PROVE DetailInv'
  OBVIOUS
<1>1. CASE Workload!Fails BY <1>1, DetailFails
<1>2. CASE ~Workload!Fails
  <2>1. /\ detailAt = "sets" /\ detailAt' = "pods"
        /\ detail' = [detail EXCEPT !.owners = {s \in ReplicaSet : Workload!Owned(s)}]
        /\ UNCHANGED <<detailTodo, missing>>
    BY <1>2 DEF Workload!ListSets, Workload!Goto
  <2>2. /\ DOMAIN detail' = Fields /\ detail'.uid = detail.uid
        /\ detail'.owners = {s \in ReplicaSet : owner[s] = detail.uid}
        /\ detail'.pods = detail.pods /\ detail'.events = detail.events
        /\ detail'.logs = detail.logs /\ detail'.warnings = detail.warnings
        /\ detail'.diagnoses = detail.diagnoses
    BY <2>1 DEF DetailInv, Fields, Workload!Owned
  <2>3. Workload!TypeOK'
    BY <2>1, <2>2 DEF Still, DetailInv, Workload!TypeOK
  <2>4. \A s : Belongs(s)' = Belongs(s) BY <2>2 DEF Still, Belongs
  <2>5. \A s \in detail'.owners : Belongs(s)
    <3>1. detail.uid # 0 /\ Workload!Holds(owner) \subseteq truth BY <2>1 DEF DetailInv
    <3> QED BY <2>2, <3>1 DEF Workload!Holds, Belongs
  <2>6. Evidence'
    BY <2>2, <2>4, <2>5 DEF Still, DetailInv, Evidence
  <2>7. Reported'
    BY <2>1, <2>2 DEF DetailInv, Reported, UpToEndpoints, Workload!Dropped
  <2>8. Workload!Holds(owner)' \subseteq truth'
    BY DEF Still, DetailInv, Workload!Holds
  <2> QED BY <2>1, <2>2, <2>3, <2>6, <2>7, <2>8 DEF DetailInv
<1> QED BY <1>1, <1>2

LEMMA ReadPods == DetailInv /\ Still /\ Workload!ListPods => DetailInv'
<1> SUFFICES ASSUME DetailInv, Still, Workload!ListPods PROVE DetailInv'
  OBVIOUS
<1>1. CASE Workload!Fails BY <1>1, DetailFails
<1>2. CASE ~Workload!Fails
  <2> DEFINE own == {q \in running : parent[q] \in detail.owners}
             symptoms == {<<"PodFailure", q>> : q \in (own \intersect sick) \ leaving}
  <2>1. /\ detailAt = "pods" /\ detailAt' = "network"
        /\ detail' = [detail EXCEPT !.pods = own, !.diagnoses = @ \union symptoms]
        /\ detailTodo' = own \intersect sick /\ missing' = missing
    BY <1>2 DEF Workload!ListPods, Workload!Goto
  <2>2. own \subseteq Pod /\ \A q \in own : parent[q] \in detail.owners
    BY DEF DetailInv, Workload!TypeOK
  <2>3. \A d \in symptoms : d[1] = "PodFailure" /\ d[2] \in own
    OBVIOUS
  <2> HIDE DEF own, symptoms
  <2>4. /\ DOMAIN detail' = Fields /\ detail'.uid = detail.uid
        /\ detail'.owners = detail.owners
        /\ detail'.pods = own /\ detail'.events = detail.events
        /\ detail'.logs = detail.logs /\ detail'.warnings = detail.warnings
        /\ detail'.diagnoses = detail.diagnoses \union symptoms
    BY <2>1 DEF DetailInv, Fields
  <2>5. Workload!TypeOK'
    BY <2>1, <2>2, <2>4 DEF Still, DetailInv, Workload!TypeOK
  <2>6. \A s : Belongs(s)' = Belongs(s) BY <2>4 DEF Still, Belongs
  <2>7. \A q \in own : Belongs(parent[q])
    BY <2>2 DEF DetailInv, Evidence
  <2>8. Evidence'
    BY <2>3, <2>4, <2>6, <2>7 DEF Still, DetailInv, Evidence
  <2>9. Reported'
    BY <2>1, <2>3, <2>4 DEF DetailInv, Reported, UpToEndpoints, Workload!Dropped
  <2>10. Workload!Holds(owner)' \subseteq truth'
    BY DEF Still, DetailInv, Workload!Holds
  <2> QED BY <2>1, <2>4, <2>5, <2>8, <2>9, <2>10 DEF DetailInv
<1> QED BY <1>1, <1>2

LEMMA ReadNetwork ==
  ASSUME DetailInv, Still, Workload!ListNetwork \/ Workload!GetService
  PROVE  DetailInv'
<1>1. /\ detailAt \in {"network", "service"} /\ detailTodo' = detailTodo
      /\ detailAt' \in {"service", "endpoints", "policies", "events"}
  BY DEF Workload!ListNetwork, Workload!GetService, Workload!Goto
<1>2. \/ detail' = detail /\ missing' = missing
      \/ Workload!Skip("network", TRUE) \/ Workload!Skip("service", FALSE)
  BY DEF Workload!ListNetwork, Workload!GetService
<1>3. CASE detail' = detail /\ missing' = missing
  <2>1. Reported'
    BY <1>1, <1>3 DEF DetailInv, Reported, UpToEndpoints, Workload!Dropped
  <2> QED BY <1>1, <1>3, <2>1, SameEvidence DEF DetailInv
<1>4. CASE Workload!Skip("network", TRUE) \/ Workload!Skip("service", FALSE)
  <2>1. "network" \in Workload!Source /\ "service" \in Workload!Source BY DEF Workload!Source
  <2>2. detailAt \in UpToEndpoints BY <1>1 DEF UpToEndpoints
  <2>3. /\ DOMAIN detail' = Fields /\ detail'.diagnoses = detail.diagnoses
        /\ detail'.uid = detail.uid /\ detail'.owners = detail.owners
        /\ detail'.pods = detail.pods /\ detail'.events = detail.events
        /\ detail'.logs = detail.logs
        /\ Reported'
    BY <1>4, <2>1, <2>2, Skips
  <2> QED BY <1>1, <2>3, SameEvidence
<1> QED BY <1>2, <1>3, <1>4, Zenon

\* Endpoints that were not read are not taken for none.
LEMMA ReadEndpoints == DetailInv /\ Still /\ Workload!ListEndpoints => DetailInv'
<1> SUFFICES ASSUME DetailInv, Still, Workload!ListEndpoints PROVE DetailInv'
  OBVIOUS
<1>1. /\ detailAt = "endpoints" /\ detailAt' = "policies" /\ detailTodo' = detailTodo
  BY DEF Workload!ListEndpoints, Workload!Goto
<1>2. CASE /\ detail' = [detail EXCEPT !.services = {"service"}, !.diagnoses =
                 IF service.ready = 0 THEN @ \union {<<"NoReadyEndpoints", None>>} ELSE @]
           /\ missing' = missing
  <2>1. /\ DOMAIN detail' = Fields /\ detail'.uid = detail.uid
        /\ detail'.owners = detail.owners
        /\ detail'.pods = detail.pods /\ detail'.events = detail.events
        /\ detail'.logs = detail.logs /\ detail'.warnings = detail.warnings
        /\ detail'.diagnoses \subseteq detail.diagnoses \union {<<"NoReadyEndpoints", None>>}
    BY <1>2 DEF DetailInv, Fields
  <2>2. \A d \in detail'.diagnoses : d \in detail.diagnoses \/ d[1] = "NoReadyEndpoints"
    BY <2>1
  <2>3. Reported'
    BY <1>1, <1>2, <2>1 DEF DetailInv, Reported, UpToEndpoints, Workload!Dropped
  <2> QED BY <1>1, <2>1, <2>2, <2>3, SameEvidence
<1>3. CASE /\ missing' = missing \union {"endpoints"}
           /\ detail' = [detail EXCEPT !.services = {"service"},
                 !.warnings = @ \union {"endpoints"}]
  <2>1. /\ DOMAIN detail' = Fields /\ detail'.uid = detail.uid
        /\ detail'.owners = detail.owners
        /\ detail'.pods = detail.pods /\ detail'.events = detail.events
        /\ detail'.logs = detail.logs /\ detail'.diagnoses = detail.diagnoses
        /\ detail'.warnings = detail.warnings \union {"endpoints"}
    BY <1>3 DEF DetailInv, Fields
  <2>2. "endpoints" \in Workload!Source BY DEF Workload!Source
  <2>3. \A d \in detail.diagnoses : d[1] # "NoReadyEndpoints"
    BY <1>1 DEF DetailInv, Reported, UpToEndpoints
  <2>4. Reported'
    BY <1>1, <1>3, <2>1, <2>2, <2>3
       DEF DetailInv, Reported, UpToEndpoints, Workload!Dropped
  <2> QED BY <1>1, <2>1, <2>4, SameEvidence
<1> QED BY <1>2, <1>3 DEF Workload!ListEndpoints

LEMMA ReadPolicies ==
  ASSUME DetailInv, Still, Workload!ListPolicies \/ Workload!ListReceipts
  PROVE  DetailInv'
<1>1. detailAt' \in {"events", "logs"} /\ detailTodo' = detailTodo
  BY DEF Workload!ListPolicies, Workload!ListReceipts, Workload!Goto
<1>2. \/ /\ \/ detail' = [detail EXCEPT !.policies = {"policy"}]
            \/ detail' = [detail EXCEPT !.receipts = {"receipt"}]
         /\ missing' = missing
      \/ Workload!Skip("policies", FALSE) \/ Workload!Skip("receipts", FALSE)
  BY DEF Workload!ListPolicies, Workload!ListReceipts
<1>3. CASE /\ \/ detail' = [detail EXCEPT !.policies = {"policy"}]
              \/ detail' = [detail EXCEPT !.receipts = {"receipt"}]
           /\ missing' = missing
  <2>1. /\ DOMAIN detail' = Fields /\ detail'.uid = detail.uid
        /\ detail'.owners = detail.owners
        /\ detail'.pods = detail.pods /\ detail'.events = detail.events
        /\ detail'.logs = detail.logs /\ detail'.diagnoses = detail.diagnoses
        /\ detail'.warnings = detail.warnings
    BY <1>3 DEF DetailInv, Fields
  <2>2. Reported'
    BY <1>1, <1>3, <2>1 DEF DetailInv, Reported, UpToEndpoints, Workload!Dropped
  <2> QED BY <1>1, <2>1, <2>2, SameEvidence
<1>4. CASE Workload!Skip("policies", FALSE) \/ Workload!Skip("receipts", FALSE)
  <2>1. "policies" \in Workload!Source /\ "receipts" \in Workload!Source BY DEF Workload!Source
  <2>2. detailAt' \notin UpToEndpoints BY <1>1 DEF UpToEndpoints
  <2>3. /\ DOMAIN detail' = Fields /\ detail'.diagnoses = detail.diagnoses
        /\ detail'.uid = detail.uid /\ detail'.owners = detail.owners
        /\ detail'.pods = detail.pods /\ detail'.events = detail.events
        /\ detail'.logs = detail.logs
        /\ Reported'
    BY <1>4, <2>1, <2>2, Skips
  <2> QED BY <1>1, <2>3, SameEvidence
<1> QED BY <1>2, <1>3, <1>4

\* Of the events, which are also about earlier Deployments and pods, only those about
\* what is in the answer.
LEMMA ReadEvents == DetailInv /\ Still /\ Workload!ListEvents => DetailInv'
<1> SUFFICES ASSUME DetailInv, Still, Workload!ListEvents PROVE DetailInv'
  OBVIOUS
<1>1. /\ detailAt' = "receipts" /\ detailTodo' = detailTodo
  BY DEF Workload!ListEvents, Workload!Goto
<1>2. CASE Workload!Skip("events", TRUE)
  <2>1. "events" \in Workload!Source BY DEF Workload!Source
  <2>2. detailAt' \notin UpToEndpoints BY <1>1 DEF UpToEndpoints
  <2>3. /\ DOMAIN detail' = Fields /\ detail'.diagnoses = detail.diagnoses
        /\ detail'.uid = detail.uid /\ detail'.owners = detail.owners
        /\ detail'.pods = detail.pods /\ detail'.events = detail.events
        /\ detail'.logs = detail.logs
        /\ Reported'
    BY <1>2, <2>1, <2>2, Skips
  <2> QED BY <1>1, <2>3, SameEvidence
<1>3. CASE ~Workload!Skip("events", TRUE)
  <2> DEFINE shown == {e \in Workload!Event : Workload!Matches(e)}
             probes == {<<"ProbeFailed", e.pod>> : e \in {e \in shown : e.kind = "Pod"}}
  <2>1. /\ detail' = [detail EXCEPT !.events = shown, !.diagnoses = @ \union probes]
        /\ missing' = missing
    BY <1>3, Zenon DEF Workload!ListEvents
  <2>2. /\ shown \subseteq Workload!Event
        /\ \A e \in shown :
             /\ e.kind = "Deployment" => e.uid = detail.uid
             /\ e.kind = "ReplicaSet" => e.set \in detail.owners
             /\ e.kind = "Pod" => e.pod \in detail.pods /\ e.uid # "earlier"
    BY DEF Workload!Matches
  <2>3. \A d \in probes : d[1] = "ProbeFailed" /\ \E e \in shown : e.kind = "Pod" /\ d[2] = e.pod
    OBVIOUS
  <2> HIDE DEF shown, probes
  <2>4. /\ DOMAIN detail' = Fields /\ detail'.uid = detail.uid
        /\ detail'.owners = detail.owners
        /\ detail'.pods = detail.pods /\ detail'.events = shown
        /\ detail'.logs = detail.logs /\ detail'.warnings = detail.warnings
        /\ detail'.diagnoses = detail.diagnoses \union probes
    BY <2>1 DEF DetailInv, Fields
  <2>5. Workload!TypeOK'
    BY <1>1, <2>1, <2>2, <2>4 DEF Still, DetailInv, Workload!TypeOK
  <2>6. parent' = parent /\ \A s : Belongs(s)' = Belongs(s) BY <2>4 DEF Still, Belongs
  <2>7. /\ \A s \in detail.owners : Belongs(s)
        /\ \A q \in detail.pods \union detail.logs : Belongs(parent[q])
        /\ \A d \in detail.diagnoses :
             d[1] \in {"PodFailure", "ProbeFailed"} => Belongs(parent[d[2]])
    BY DEF DetailInv, Evidence
  <2>8. \A e \in shown :
          /\ e.kind = "Deployment" => e.uid = detail.uid
          /\ e.kind = "ReplicaSet" => Belongs(e.set)
          /\ e.kind = "Pod" => Belongs(parent[e.pod]) /\ e.uid # "earlier"
    BY <2>2, <2>7
  <2>9. \A d \in detail'.diagnoses :
          d[1] \in {"PodFailure", "ProbeFailed"} => Belongs(parent[d[2]])
    BY <2>3, <2>4, <2>7, <2>8
  <2>10. Evidence'
    BY <2>4, <2>6, <2>7, <2>8, <2>9 DEF Evidence
  <2>11. Reported'
    BY <1>1, <2>1, <2>3, <2>4 DEF DetailInv, Reported, UpToEndpoints, Workload!Dropped
  <2>12. Workload!Holds(owner)' \subseteq truth'
    BY DEF Still, DetailInv, Workload!Holds
  <2> QED BY <1>1, <2>4, <2>5, <2>10, <2>11, <2>12 DEF DetailInv
<1> QED BY <1>2, <1>3, Zenon

\* A log is of a pod in the answer.
LEMMA ReadLogs == DetailInv /\ Still /\ Workload!FetchLogs => DetailInv'
<1> SUFFICES ASSUME DetailInv, Still, Workload!FetchLogs PROVE DetailInv'
  OBVIOUS
<1>1. PICK q \in detailTodo :
        /\ Cardinality(detail.logs) < MaxLogs /\ detailTodo' = detailTodo \ {q}
        /\ \/ detail' = [detail EXCEPT !.logs = @ \union {q}] /\ missing' = missing
           \/ Workload!Skip("logs", TRUE)
  BY CountLogs DEF Workload!FetchLogs
<1>2. detailAt = "logs" /\ detailAt' = "logs" BY DEF Workload!FetchLogs
<1>3. CASE Workload!Skip("logs", TRUE)
  <2>1. "logs" \in Workload!Source BY DEF Workload!Source
  <2>2. detailAt' \notin UpToEndpoints BY <1>2 DEF UpToEndpoints
  <2>3. /\ DOMAIN detail' = Fields /\ detail'.diagnoses = detail.diagnoses
        /\ detail'.uid = detail.uid /\ detail'.owners = detail.owners
        /\ detail'.pods = detail.pods /\ detail'.events = detail.events
        /\ detail'.logs = detail.logs
        /\ Reported'
    BY <1>3, <2>1, <2>2, Skips
  <2> QED BY <1>1, <1>2, <2>3, SameEvidence
<1>4. CASE detail' = [detail EXCEPT !.logs = @ \union {q}] /\ missing' = missing
  <2>1. /\ DOMAIN detail' = Fields /\ detail'.uid = detail.uid
        /\ detail'.owners = detail.owners
        /\ detail'.pods = detail.pods /\ detail'.events = detail.events
        /\ detail'.logs = detail.logs \union {q} /\ detail'.warnings = detail.warnings
        /\ detail'.diagnoses = detail.diagnoses
    BY <1>4 DEF DetailInv, Fields
  <2>2. IsFiniteSet(detail'.logs) /\ Cardinality(detail'.logs) <= MaxLogs
    <3>1. IsFiniteSet(detail.logs) BY DEF DetailInv
    <3>2. /\ IsFiniteSet(detail.logs \union {q})
          /\ Cardinality(detail.logs \union {q}) \in
               {Cardinality(detail.logs), Cardinality(detail.logs) + 1}
          /\ Cardinality(detail.logs) \in Nat
      BY <3>1, FS_AddElement, FS_CardinalityType
    <3> QED BY <1>1, <2>1, <3>2, DetailBounds
  <2>3. q \in detail.pods BY DEF DetailInv, Workload!TypeOK
  <2>4. Workload!TypeOK'
    BY <1>1, <1>2, <1>4, <2>1, <2>2, CountLogs DEF Still, DetailInv, Workload!TypeOK
  <2>5. parent' = parent /\ \A s : Belongs(s)' = Belongs(s) BY <2>1 DEF Still, Belongs
  <2>6. Evidence'
    BY <2>1, <2>3, <2>5 DEF DetailInv, Evidence
  <2>7. Reported'
    BY <1>2, <1>4, <2>1 DEF DetailInv, Reported, UpToEndpoints, Workload!Dropped
  <2>8. Workload!Holds(owner)' \subseteq truth'
    BY DEF Still, DetailInv, Workload!Holds
  <2> QED BY <1>2, <2>1, <2>2, <2>4, <2>6, <2>7, <2>8 DEF DetailInv
<1> QED BY <1>1, <1>3, <1>4

LEMMA ReadMetrics == DetailInv /\ Still /\ Workload!QueryMetrics => DetailInv'
<1> SUFFICES ASSUME DetailInv, Still, Workload!QueryMetrics PROVE DetailInv'
  OBVIOUS
<1>1. /\ detailAt = "logs" /\ detailAt' = "done" /\ detailTodo' = {}
      /\ \/ detail' = [detail EXCEPT !.metrics = {"metric"}] /\ missing' = missing
         \/ Workload!Skip("metrics", TRUE)
  BY DEF Workload!QueryMetrics, Workload!Goto
<1>2. CASE Workload!Skip("metrics", TRUE)
  <2>1. "metrics" \in Workload!Source BY DEF Workload!Source
  <2>2. detailAt' \notin UpToEndpoints BY <1>1 DEF UpToEndpoints
  <2>3. /\ DOMAIN detail' = Fields /\ detail'.diagnoses = detail.diagnoses
        /\ detail'.uid = detail.uid /\ detail'.owners = detail.owners
        /\ detail'.pods = detail.pods /\ detail'.events = detail.events
        /\ detail'.logs = detail.logs
        /\ Reported'
    BY <1>2, <2>1, <2>2, Skips
  <2> QED BY <1>1, <2>3, SameEvidence
<1>3. CASE detail' = [detail EXCEPT !.metrics = {"metric"}] /\ missing' = missing
  <2>1. /\ DOMAIN detail' = Fields /\ detail'.uid = detail.uid
        /\ detail'.owners = detail.owners
        /\ detail'.pods = detail.pods /\ detail'.events = detail.events
        /\ detail'.logs = detail.logs /\ detail'.diagnoses = detail.diagnoses
        /\ detail'.warnings = detail.warnings
    BY <1>3 DEF DetailInv, Fields
  <2>2. Reported'
    BY <1>1, <1>3, <2>1 DEF DetailInv, Reported, UpToEndpoints, Workload!Dropped
  <2> QED BY <1>1, <2>1, <2>2, SameEvidence
<1> QED BY <1>1, <1>2, <1>3

LEMMA StepDetail == DetailInv /\ [Workload!Next]_detailVars => DetailInv'
<1> SUFFICES ASSUME DetailInv, [Workload!Next]_detailVars PROVE DetailInv'
  OBVIOUS
<1>1. CASE Workload!ClusterChanges BY <1>1, DetailChanges
<1>2. CASE Workload!Read
  <2>1. Still BY <1>2, ReadsOnly
  <2>2. CASE Workload!List \/ Workload!Get BY <2>1, <2>2, ReadDeployment
  <2>3. CASE Workload!ListSets BY <2>1, <2>3, ReadSets
  <2>4. CASE Workload!ListPods BY <2>1, <2>4, ReadPods
  <2>5. CASE Workload!ListNetwork \/ Workload!GetService BY <2>1, <2>5, ReadNetwork
  <2>6. CASE Workload!ListEndpoints BY <2>1, <2>6, ReadEndpoints
  <2>7. CASE Workload!ListPolicies \/ Workload!ListReceipts BY <2>1, <2>7, ReadPolicies
  <2>8. CASE Workload!ListEvents BY <2>1, <2>8, ReadEvents
  <2>9. CASE Workload!FetchLogs BY <2>1, <2>9, ReadLogs
  <2>10. CASE Workload!QueryMetrics BY <2>1, <2>10, ReadMetrics
  <2> QED
    BY <1>2, <2>2, <2>3, <2>4, <2>5, <2>6, <2>7, <2>8, <2>9, <2>10 DEF Workload!Read
<1>3. CASE UNCHANGED detailVars
  <2>1. /\ UNCHANGED <<live, born, stalled, owner, parent, running, sick, leaving, service,
                       detailChanges, truth, steady>>
        /\ UNCHANGED <<detailAt, detailTodo, detail, missing>>
    BY <1>3 DEF detailVars
  <2>2. Workload!TypeOK' BY <2>1 DEF DetailInv, Workload!TypeOK
  <2>3. Evidence' BY <2>1 DEF DetailInv, Evidence, Belongs
  <2>4. Reported' BY <2>1 DEF DetailInv, Reported, Workload!Dropped
  <2>5. Workload!Holds(owner)' \subseteq truth' BY <2>1 DEF DetailInv, Workload!Holds
  <2> QED BY <2>1, <2>2, <2>3, <2>4, <2>5 DEF DetailInv
<1> QED BY <1>1, <1>2, <1>3 DEF Workload!Next

-----------------------------------------------------------------------------
(* What was there during the whole request is in the detail of a workload.   *)

BeforeSets == {"list", "get", "sets", "failed"}
BeforePods == BeforeSets \union {"pods"}
BeforeServices == UpToEndpoints \union {"failed"}
BeforeEvents == BeforeServices \union {"policies", "events"}

SetsKept == Workload!KeptSets \subseteq detail.owners

PodsKept ==
  /\ Workload!KeptPods \subseteq detail.pods
  /\ Workload!SaysOfPods("PodFailure", Workload!KeptPods \intersect steady.failing)

EndpointsKept == steady.starved # {} => Workload!EndpointsAreTold

EventsKept ==
  "events" \notin detail.warnings => Workload!SaysOfPods("ProbeFailed", Workload!KeptPods)

\* What was so all the time is so now; and after each of the reads it is in the answer.
WholeInv ==
  /\ DOMAIN steady = {"sets", "pods", "failing", "starved"}
  /\ \A f \in DOMAIN steady : steady[f] \subseteq Workload!Now[f]
  /\ detailAt \notin BeforeSets => SetsKept
  /\ detailAt \notin BeforePods => PodsKept
  /\ detailAt \notin BeforeServices => EndpointsKept
  /\ detailAt \notin BeforeEvents => EventsKept

\* The stages of the answer.
LEMMA Stages ==
  ASSUME WholeInv
  PROVE  /\ detailAt \notin BeforeSets => SetsKept
         /\ detailAt \notin BeforePods => PodsKept
         /\ detailAt \notin BeforeServices => EndpointsKept
         /\ detailAt \notin BeforeEvents => EventsKept
BY Zenon DEF WholeInv

LEMMA NowOnly ==
  /\ DOMAIN Workload!Now = {"sets", "pods", "failing", "starved"}
  /\ Workload!Now["sets"] = Workload!Holds(owner) /\ Workload!Now["pods"] = running
  /\ Workload!Now["failing"] = (running \intersect sick) \ leaving
  /\ Workload!Now["starved"] =
       IF service.exists /\ service.selects /\ service.ready = 0 THEN {"service"} ELSE {}
BY DEF Workload!Now

LEMMA InitWhole == Workload!Init => WholeInv
<1> SUFFICES ASSUME Workload!Init PROVE WholeInv
  OBVIOUS
<1>1. detailAt = "list" /\ steady = Workload!Now BY DEF Workload!Init
<1> QED
  BY <1>1, NowOnly
     DEF WholeInv, BeforeSets, BeforePods, BeforeServices, BeforeEvents, UpToEndpoints

\* A change of the cluster can only end what was steady.
LEMMA WholeChanges == WholeInv /\ Workload!ClusterChanges => WholeInv'
<1> SUFFICES ASSUME WholeInv, Workload!ClusterChanges PROVE WholeInv'
  OBVIOUS
<1>1. /\ detailAt' = detailAt /\ detail' = detail /\ missing' = missing
      /\ steady' = [f \in DOMAIN Workload!Now |-> steady[f] \intersect Workload!Now'[f]]
  BY DEF Workload!ClusterChanges, Workload!request
<1>2. parent' = parent
  BY DEF Workload!ClusterChanges, Workload!Delete, Workload!Create, Workload!ServiceChanges,
         Workload!Own, Workload!PodChanges
<1>3. /\ DOMAIN steady' = {"sets", "pods", "failing", "starved"} /\ DOMAIN steady = DOMAIN steady'
      /\ \A f \in DOMAIN steady' :
           steady'[f] \subseteq Workload!Now'[f] /\ steady'[f] \subseteq steady[f]
  BY <1>1, NowOnly DEF WholeInv
<1>4. /\ steady'.sets \subseteq steady.sets /\ steady'.pods \subseteq steady.pods
      /\ steady'.failing \subseteq steady.failing /\ steady'.starved \subseteq steady.starved
  BY <1>3
<1>5. Workload!KeptSets' \subseteq Workload!KeptSets
  BY <1>1, <1>4 DEF Workload!KeptSets
<1>6. Workload!KeptPods' \subseteq Workload!KeptPods
  BY <1>2, <1>4, <1>5 DEF Workload!KeptPods
<1>7. SetsKept => SetsKept' BY <1>1, <1>5 DEF SetsKept
<1>8. PodsKept => PodsKept' BY <1>1, <1>4, <1>6 DEF PodsKept, Workload!SaysOfPods
<1>9. EndpointsKept => EndpointsKept'
  BY <1>1, <1>4 DEF EndpointsKept, Workload!EndpointsAreTold
<1>10. EventsKept => EventsKept' BY <1>1, <1>6 DEF EventsKept, Workload!SaysOfPods
<1> QED BY <1>1, <1>3, <1>7, <1>8, <1>9, <1>10 DEF WholeInv

\* A read changes neither the cluster nor what was steady.
LEMMA StillWithin ==
  ASSUME WholeInv, Still
  PROVE  /\ DOMAIN steady' = {"sets", "pods", "failing", "starved"}
         /\ \A f \in DOMAIN steady' : steady'[f] \subseteq Workload!Now'[f]
BY DEF WholeInv, Still, Workload!Now, Workload!Holds

\* An answer that only grows keeps what it has.
LEMMA MoreDetail ==
  ASSUME Still, detail'.uid = detail.uid,
         detail.owners \subseteq detail'.owners, detail.pods \subseteq detail'.pods,
         detail.diagnoses \subseteq detail'.diagnoses,
         detail.warnings \subseteq detail'.warnings, missing \subseteq missing'
  PROVE  /\ SetsKept => SetsKept'
         /\ PodsKept => PodsKept'
         /\ EndpointsKept => EndpointsKept'
         /\ EventsKept => EventsKept'
<1>1. Workload!KeptSets' = Workload!KeptSets BY DEF Still, Workload!KeptSets
<1>2. Workload!KeptPods' = Workload!KeptPods BY <1>1 DEF Still, Workload!KeptPods
<1>3. SetsKept => SetsKept' BY <1>1 DEF SetsKept
<1>4. PodsKept => PodsKept' BY <1>2 DEF Still, PodsKept, Workload!SaysOfPods
<1>5. EndpointsKept => EndpointsKept' BY DEF Still, EndpointsKept, Workload!EndpointsAreTold
<1>6. EventsKept => EventsKept' BY <1>2 DEF EventsKept, Workload!SaysOfPods
<1> QED BY <1>3, <1>4, <1>5, <1>6

\* The reads after that of the pods.
Later ==
  \/ Workload!ListNetwork \/ Workload!GetService \/ Workload!ListEndpoints
  \/ Workload!ListPolicies \/ Workload!ListEvents \/ Workload!ListReceipts
  \/ Workload!FetchLogs \/ Workload!QueryMetrics

LEMMA LaterGrows ==
  ASSUME DetailInv, Later
  PROVE  /\ detail'.uid = detail.uid /\ detail'.owners = detail.owners
         /\ detail'.pods = detail.pods /\ detail.diagnoses \subseteq detail'.diagnoses
         /\ detail.warnings \subseteq detail'.warnings /\ missing \subseteq missing'
<1> DEFINE Grown == /\ detail'.uid = detail.uid /\ detail'.owners = detail.owners
                    /\ detail'.pods = detail.pods /\ detail.diagnoses \subseteq detail'.diagnoses
                    /\ detail.warnings \subseteq detail'.warnings /\ missing \subseteq missing'
<1>1. DOMAIN detail = Fields BY DEF DetailInv
<1>2. CASE Workload!ListNetwork \/ Workload!GetService
  BY <1>1, <1>2 DEF Workload!ListNetwork, Workload!GetService, Workload!Skip, Fields
<1>3. CASE Workload!ListEndpoints
  BY <1>1, <1>3 DEF Workload!ListEndpoints, Fields
<1>4. CASE Workload!ListPolicies \/ Workload!ListReceipts
  BY <1>1, <1>4 DEF Workload!ListPolicies, Workload!ListReceipts, Workload!Skip, Fields
<1>5. CASE Workload!ListEvents
  BY <1>1, <1>5 DEF Workload!ListEvents, Workload!Skip, Fields
<1>6. CASE Workload!FetchLogs \/ Workload!QueryMetrics
  BY <1>1, <1>6 DEF Workload!FetchLogs, Workload!QueryMetrics, Workload!Skip, Fields
<1> QED BY <1>2, <1>3, <1>4, <1>5, <1>6 DEF Later

\* Up to the pods.
LEMMA WholeEarly ==
  ASSUME DetailInv, WholeInv, Still,
         Workload!List \/ Workload!Get \/ Workload!ListSets \/ Workload!ListPods
  PROVE  WholeInv'
<1>1. DOMAIN detail = Fields BY DEF DetailInv
<1>2. CASE detailAt' \in BeforeSets
  BY <1>2, StillWithin
     DEF WholeInv, BeforeSets, BeforePods, BeforeServices, BeforeEvents, UpToEndpoints
<1>3. CASE Workload!ListSets /\ detailAt' \notin BeforeSets
  <2>1. /\ detailAt' = "pods" /\ detail'.uid = detail.uid
        /\ detail'.owners = {s \in ReplicaSet : owner[s] = detail.uid}
    BY <1>1, <1>3
       DEF Workload!ListSets, Workload!Goto, Workload!Fails, Workload!Owned, BeforeSets, Fields
  <2>2. steady.sets \subseteq Workload!Holds(owner) BY NowOnly DEF WholeInv
  <2>3. \A s \in Workload!KeptSets : owner[s] = detail.uid
    BY <2>2 DEF Workload!KeptSets, Workload!Holds
  <2>4. Workload!KeptSets' = Workload!KeptSets BY <2>1 DEF Still, Workload!KeptSets
  <2>5. SetsKept' BY <2>1, <2>3, <2>4 DEF SetsKept, Workload!KeptSets
  <2> QED
    BY <2>1, <2>5, StillWithin
       DEF WholeInv, BeforePods, BeforeServices, BeforeEvents, UpToEndpoints
<1>4. CASE Workload!ListPods /\ detailAt' \notin BeforeSets
  <2> DEFINE own == {q \in running : parent[q] \in detail.owners}
             symptoms == {<<"PodFailure", q>> : q \in (own \intersect sick) \ leaving}
  <2>1. /\ detailAt = "pods" /\ detailAt' = "network"
        /\ detail'.uid = detail.uid /\ detail'.owners = detail.owners
        /\ detail'.pods = own /\ symptoms \subseteq detail'.diagnoses
    BY <1>1, <1>4 DEF Workload!ListPods, Workload!Goto, Workload!Fails, BeforeSets, Fields
  <2>2. /\ Workload!KeptSets \subseteq detail.owners
        /\ steady.pods \subseteq running /\ steady.failing \subseteq (running \intersect sick) \ leaving
    BY <2>1, NowOnly DEF WholeInv, BeforeSets, SetsKept
  <2>3. Workload!KeptPods \subseteq own BY <2>2 DEF Workload!KeptPods
  <2>4. \A q \in Workload!KeptPods \intersect steady.failing : q \in (own \intersect sick) \ leaving
    BY <2>2, <2>3
  <2>5. /\ Workload!KeptSets' = Workload!KeptSets /\ Workload!KeptPods' = Workload!KeptPods
        /\ steady' = steady
    BY <2>1 DEF Still, Workload!KeptSets, Workload!KeptPods
  <2>6. \A q \in Workload!KeptPods \intersect steady.failing : <<"PodFailure", q>> \in symptoms
    BY <2>4
  <2> HIDE DEF own, symptoms
  <2>7. SetsKept' BY <2>1, <2>2, <2>5 DEF SetsKept
  <2>8. PodsKept' BY <2>1, <2>3, <2>5, <2>6 DEF PodsKept, Workload!SaysOfPods
  <2> QED
    BY <2>1, <2>7, <2>8, StillWithin
       DEF WholeInv, BeforeServices, BeforeEvents, UpToEndpoints
<1>5. Workload!List \/ Workload!Get => detailAt' \in BeforeSets
  BY DEF Workload!List, Workload!Get, Workload!Goto, Workload!Fails, BeforeSets
<1> QED BY <1>2, <1>3, <1>4, <1>5

\* A Service that never had ready endpoints is found without them, unless one of the
\* reads on the way to them fails.
LEMMA WholeServices ==
  ASSUME DetailInv, WholeInv, Still,
         Workload!ListNetwork \/ Workload!GetService \/ Workload!ListEndpoints
  PROVE  detailAt' \notin BeforeServices => EndpointsKept'
<1> SUFFICES ASSUME steady.starved # {}, detailAt' \notin BeforeServices
             PROVE  Workload!EndpointsAreTold'
  BY DEF EndpointsKept, Still
<1>1. service.exists /\ service.selects /\ service.ready = 0
  BY NowOnly DEF WholeInv
<1>2. DOMAIN detail = Fields BY DEF DetailInv
<1>3. CASE Workload!ListNetwork
  BY <1>1, <1>2, <1>3
     DEF Workload!ListNetwork, Workload!Goto, Workload!Skip, BeforeServices, UpToEndpoints,
         Workload!EndpointsAreTold, Fields
<1>4. CASE Workload!GetService
  BY <1>1, <1>2, <1>4
     DEF Workload!GetService, Workload!Goto, Workload!Skip, BeforeServices, UpToEndpoints,
         Workload!EndpointsAreTold
<1>5. CASE Workload!ListEndpoints
  BY <1>1, <1>2, <1>5
     DEF Workload!ListEndpoints, Workload!EndpointsAreTold, Fields
<1> QED BY <1>3, <1>4, <1>5

\* A pod in the answer has its events there, and what they say of its probes.
LEMMA WholeEvents ==
  ASSUME DetailInv, WholeInv, Still, Workload!ListEvents
  PROVE  EventsKept'
<1>1. detailAt = "events" /\ DOMAIN detail = Fields
  BY DEF Workload!ListEvents, DetailInv
<1>2. /\ Workload!KeptPods \subseteq detail.pods /\ detail.pods \subseteq Pod
  BY <1>1 DEF WholeInv, PodsKept, BeforePods, BeforeSets, DetailInv, Workload!TypeOK
<1>3. CASE Workload!Skip("events", TRUE)
  <2>1. "events" \in detail'.warnings BY <1>1, <1>3 DEF Workload!Skip, Fields
  <2> QED BY <2>1 DEF EventsKept
<1>4. CASE ~Workload!Skip("events", TRUE)
  <2> DEFINE shown == {e \in Workload!Event : Workload!Matches(e)}
             probes == {<<"ProbeFailed", e.pod>> : e \in {e \in shown : e.kind = "Pod"}}
             OfPod(q) == [kind |-> "Pod", pod |-> q, uid |-> "same"]
  <2>1. detail' = [detail EXCEPT !.events = shown, !.diagnoses = @ \union probes]
    BY <1>4, Zenon DEF Workload!ListEvents
  <2>2. \A q \in detail.pods : OfPod(q) \in shown
    <3>1. \A q \in Pod : OfPod(q) \in Workload!Event BY DEF Workload!Event
    <3> QED BY <1>2, <3>1 DEF Workload!Matches
  <2>3. \A q : OfPod(q).kind = "Pod" /\ OfPod(q).pod = q OBVIOUS
  <2> HIDE DEF shown, OfPod
  <2>4. \A q \in detail.pods : <<"ProbeFailed", q>> \in probes BY <2>2, <2>3
  <2> HIDE DEF probes
  <2>5. probes \subseteq detail'.diagnoses /\ detail'.uid = detail.uid
    BY <1>1, <2>1 DEF Fields
  <2>6. Workload!KeptPods' = Workload!KeptPods
    BY <2>5 DEF Still, Workload!KeptPods, Workload!KeptSets
  <2> QED BY <1>2, <2>4, <2>5, <2>6 DEF EventsKept, Workload!SaysOfPods
<1> QED BY <1>3, <1>4

LEMMA WholeLate ==
  ASSUME DetailInv, WholeInv, Still, Later
  PROVE  WholeInv'
<1>1. /\ SetsKept => SetsKept'
      /\ PodsKept => PodsKept'
      /\ EndpointsKept => EndpointsKept'
      /\ EventsKept => EventsKept'
  BY LaterGrows, MoreDetail
<1>2. detailAt \notin BeforePods /\ detailAt \notin BeforeSets
  BY DEF Later, Workload!ListNetwork, Workload!GetService, Workload!ListEndpoints,
         Workload!ListPolicies, Workload!ListEvents, Workload!ListReceipts,
         Workload!FetchLogs, Workload!QueryMetrics, BeforePods, BeforeSets
<1>3. SetsKept' /\ PodsKept' BY <1>1, <1>2, Stages, Zenon
<1>4. detailAt' \notin BeforeServices => EndpointsKept'
  <2>1. CASE Workload!ListNetwork \/ Workload!GetService \/ Workload!ListEndpoints
    BY <2>1, WholeServices
  <2>2. CASE /\ \/ Workload!ListPolicies \/ Workload!ListEvents \/ Workload!ListReceipts
                \/ Workload!FetchLogs \/ Workload!QueryMetrics
    <3>1. detailAt \notin BeforeServices
      BY <2>2 DEF Workload!ListPolicies, Workload!ListEvents, Workload!ListReceipts,
                  Workload!FetchLogs, Workload!QueryMetrics, BeforeServices, UpToEndpoints
    <3> QED BY <1>1, <3>1, Stages, Zenon
  <2> QED BY <2>1, <2>2 DEF Later
<1>5. detailAt' \notin BeforeEvents => EventsKept'
  <2>1. CASE Workload!ListEvents BY <2>1, WholeEvents
  <2>2. CASE Workload!ListReceipts \/ Workload!FetchLogs \/ Workload!QueryMetrics
    <3>1. detailAt \notin BeforeEvents
      BY <2>2 DEF Workload!ListReceipts, Workload!FetchLogs, Workload!QueryMetrics,
                  BeforeEvents, BeforeServices, UpToEndpoints
    <3> QED BY <1>1, <3>1, Stages, Zenon
  <2>3. CASE \/ Workload!ListNetwork \/ Workload!GetService
             \/ Workload!ListEndpoints \/ Workload!ListPolicies
    <3>1. detailAt' \in BeforeEvents
      BY <2>3 DEF Workload!ListNetwork, Workload!GetService, Workload!ListEndpoints,
                  Workload!ListPolicies, Workload!Goto, BeforeEvents, BeforeServices,
                  UpToEndpoints
    <3> QED BY <3>1
  <2> QED BY <2>1, <2>2, <2>3 DEF Later
<1> QED BY <1>3, <1>4, <1>5, StillWithin DEF WholeInv

LEMMA StepWhole ==
  DetailInv /\ WholeInv /\ [Workload!Next]_detailVars => WholeInv'
<1> SUFFICES ASSUME DetailInv, WholeInv, [Workload!Next]_detailVars PROVE WholeInv'
  OBVIOUS
<1>1. CASE Workload!ClusterChanges BY <1>1, WholeChanges
<1>2. CASE Workload!Read
  <2>1. Still BY <1>2, ReadsOnly
  <2>2. CASE Later BY <2>1, <2>2, WholeLate
  <2>3. CASE Workload!List \/ Workload!Get \/ Workload!ListSets \/ Workload!ListPods
    BY <2>1, <2>3, WholeEarly
  <2> QED BY <1>2, <2>2, <2>3 DEF Workload!Read, Later
<1>3. CASE UNCHANGED detailVars
  <2>1. Still /\ detailAt' = detailAt /\ detail' = detail /\ missing' = missing
    BY <1>3 DEF detailVars, Still
  <2>2. /\ SetsKept => SetsKept'
        /\ PodsKept => PodsKept'
        /\ EndpointsKept => EndpointsKept'
        /\ EventsKept => EventsKept'
    BY <2>1, MoreDetail
  <2>3. /\ detailAt' \notin BeforeSets => SetsKept'
        /\ detailAt' \notin BeforePods => PodsKept'
        /\ detailAt' \notin BeforeServices => EndpointsKept'
        /\ detailAt' \notin BeforeEvents => EventsKept'
    BY <2>1, <2>2, Stages
  <2> QED BY <2>1, <2>3, StillWithin DEF WholeInv
<1> QED BY <1>1, <1>2, <1>3 DEF Workload!Next

LEMMA DetailWhole == DetailInv /\ WholeInv => Workload!NothingIsLeftOut
<1> SUFFICES ASSUME DetailInv, WholeInv PROVE Workload!NothingIsLeftOut
  OBVIOUS
<1>1. detailAt = "done" => SetsKept /\ PodsKept /\ EndpointsKept /\ EventsKept
  BY DEF WholeInv, BeforeSets, BeforePods, BeforeServices, BeforeEvents, UpToEndpoints
<1> QED
  BY <1>1
     DEF DetailInv, Reported, Workload!NothingIsLeftOut, SetsKept, PodsKept, EndpointsKept,
         EventsKept

-----------------------------------------------------------------------------
(* The handlers together: a step of one of them is none of the others.      *)

AllInv == DetailInv /\ WholeInv /\ OverviewInv /\ TopologyInv

LEMMA InitAll == AllInit => AllInv
BY InitDetail, InitWhole, InitOverview, InitTopology DEF AllInit, AllInv

LEMMA StepAll == AllInv /\ [AllNext]_allVars => AllInv'
<1> SUFFICES ASSUME AllInv, [AllNext]_allVars PROVE AllInv'
  OBVIOUS
<1>1. /\ [Workload!Next]_detailVars /\ [Overview!Next]_overviewVars
      /\ [Cluster!Next]_topologyVars
  BY DEF AllNext, DetailActs, OverviewActs, TopologyActs, allVars
<1> QED BY <1>1, StepDetail, StepWhole, StepOverview, StepTopology DEF AllInv

LEMMA AllHolds == AllSpec => []AllInv
<1> QED BY InitAll, StepAll, PTL DEF AllSpec

\* However many reads fail and whatever changes between them, an answer keeps its
\* limits, and what could not be listed has nothing in it.
THEOREM ReadTypes == AllSpec => []Types
<1>1. AllInv => Types
  BY DEF AllInv, DetailInv, OverviewInv, TopologyInv, Types
<1> QED BY <1>1, AllHolds, PTL

\* The evidence in a detail belonged to the very Deployment that is shown; and the
\* topology shows no object that was not there during the request, and no binding with
\* the rules of a role other than its own.
THEOREM OnlyRealEvidence == AllSpec => []EvidenceIsReal
<1>1. AllInv => EvidenceIsReal
  BY DetailReal, TopologyReal DEF AllInv, EvidenceIsReal
<1> QED BY <1>1, AllHolds, PTL

\* What was there all the time is in the detail, or a warning is, but for what a Service
\* that could not be read would have told; an overview that is given has the first of the
\* suspects, and what the topology lacks it warns of.
THEOREM AllIsThere == AllSpec => []WhatStaysIsShown
<1>1. AllInv => WhatStaysIsShown
  BY DetailWhole, TopologyWhole DEF AllInv, OverviewInv, WhatStaysIsShown
<1> QED BY <1>1, AllHolds, PTL
=============================================================================
