------------------------------ MODULE ConsoleProofs ------------------------------
(***************************************************************************)
(* Proofs about Console: for every interleaving of the drawer, the         *)
(* refreshes, an update stream and the investigations, that each keeps its *)
(* types, that what takes effect is what the panel showed and a panel      *)
(* waits for one answer at a time, that a stream loses and reorders        *)
(* nothing, and that what an investigation says is in its packet.          *)
(***************************************************************************)
EXTENDS Console, FiniteSetTheorems, SequenceTheorems, TLAPS

-----------------------------------------------------------------------------
(* The drawer and its panel.                                                *)

Requests == [target : Workload, draft : Draft]

Posts ==
  [id : Nat, panel : Nat, plan : Nat, request : Requests, step : {"asked", "done", "refused"}]

\* The evidence is asked for again in a drawer that has its detail.
PageOK ==
  /\ {selected, detail} \subseteq Workload \union {None}
  /\ loads \in [1..MaxOpens -> Workload \union {None}] /\ opens \in 0..MaxOpens
  /\ error \in BOOLEAN /\ looks \subseteq 1..opens
  /\ selected # None => opens # 0
  /\ selected # None /\ opens \in looks => detail # None

PanelOK ==
  /\ form \in Draft \union {None} /\ plan \in Nat /\ plan <= sent
  /\ receipt \in BOOLEAN /\ busy \in BOOLEAN /\ panel \in Nat
  /\ Mounted => panel >= 1

\* Requests are numbered, and a review that is served has its plan.
PostsOK ==
  /\ sent \in 0..MaxPosts
  /\ \A q \in posts :
       /\ q \in Posts /\ q.id >= 1 /\ q.id <= sent /\ q.plan <= sent
       /\ q.panel >= 1 /\ q.panel <= panel
       /\ q.plan = 0 /\ q.step = "done" => plans[q.id] = q.request
  /\ \A q, r \in posts : q.id = r.id => q = r

PlansOK ==
  /\ plans \in [1..MaxPosts -> Requests \union {NoRequest}]
  /\ plan # 0 => plans[plan] # NoRequest
  /\ spent \subseteq 1..MaxPosts
  /\ \A e \in effects : e.plan \in spent

ConsoleInv ==
  PageOK /\ PanelOK /\ PostsOK /\ PlansOK /\ ConfirmedIsApplied /\ OneRequestAtATime

LEMMA InitConsole == Init => ConsoleInv
<1> SUFFICES ASSUME Init PROVE ConsoleInv
  OBVIOUS
<1>1. ~Mounted BY DEF Init, Mounted, Shown
<1>2. PageOK
  <2>1. /\ selected = None /\ detail = None /\ opens = 0 /\ error \in BOOLEAN
        /\ looks = {}
    BY DEF Init
  <2>2. loads \in [1..MaxOpens -> Workload \union {None}] BY DEF Init
  <2>3. opens \in 0..MaxOpens BY <2>1, PanelBounds
  <2> QED BY <2>1, <2>2, <2>3 DEF PageOK
<1>3. PanelOK
  <2>1. form = None /\ plan = 0 /\ sent = 0 /\ panel = 0 BY DEF Init
  <2>2. receipt \in BOOLEAN /\ busy \in BOOLEAN BY DEF Init
  <2> QED BY <1>1, <2>1, <2>2 DEF PanelOK
<1>4. PostsOK /\ PlansOK BY PanelBounds DEF Init, PostsOK, PlansOK
<1>5. ConfirmedIsApplied /\ OneRequestAtATime
  BY <1>1 DEF Init, ConfirmedIsApplied, OneRequestAtATime
<1> QED BY <1>2, <1>4, <1>5, <1>3 DEF ConsoleInv

LEMMA TypesFollow == ConsoleInv => TypeOK
<1> SUFFICES ASSUME ConsoleInv PROVE TypeOK
  OBVIOUS
<1>1. sent \in Nat /\ MaxPosts \in Nat /\ sent <= MaxPosts
  BY PanelBounds DEF ConsoleInv, PostsOK
<1>2. plan \in 0..MaxPosts
  BY <1>1 DEF ConsoleInv, PanelOK
<1>3. \A q \in posts : q.id \in 1..sent /\ q.plan \in 0..sent /\ q.panel \in 1..panel
  <2> SUFFICES ASSUME NEW q \in posts
               PROVE  q.id \in 1..sent /\ q.plan \in 0..sent /\ q.panel \in 1..panel
    OBVIOUS
  <2>1. q \in Posts /\ q.id >= 1 /\ q.id <= sent /\ q.plan <= sent /\ q.panel >= 1 /\ q.panel <= panel
    BY DEF ConsoleInv, PostsOK
  <2>2. q.id \in Nat /\ q.plan \in Nat /\ q.panel \in Nat BY <2>1 DEF Posts
  <2>3. panel \in Nat BY DEF ConsoleInv, PanelOK
  <2> QED BY <1>1, <2>1, <2>2, <2>3
<1> QED BY <1>1, <1>2, <1>3 DEF TypeOK, ConsoleInv, PageOK, PanelOK, PostsOK, PlansOK

-----------------------------------------------------------------------------
(* The drawer.                                                              *)

\* What a step of the drawer leaves alone.
LEMMA DrawerKeeps ==
  ASSUME ConsoleInv, UNCHANGED <<posts, sent, api>>, PageOK',
         \/ UNCHANGED fields /\ (Mounted' => Mounted)
         \/ /\ panel' = panel + 1
            /\ form' = None /\ plan' = 0 /\ receipt' = FALSE /\ busy' = FALSE
  PROVE  ConsoleInv'
<1>1. panel \in Nat /\ panel + 1 \in Nat /\ plan \in Nat /\ sent \in Nat
  BY PanelBounds DEF ConsoleInv, PanelOK, PostsOK
<1>2. \A q \in posts : q.panel \in Nat /\ q.panel <= panel
  BY DEF ConsoleInv, PostsOK, Posts
<1>3. CASE UNCHANGED fields /\ (Mounted' => Mounted)
  <2>1. PanelOK' BY <1>3 DEF ConsoleInv, PanelOK, fields
  <2>2. PostsOK' /\ PlansOK' BY <1>3 DEF ConsoleInv, PostsOK, PlansOK, fields, api
  <2>3. OneRequestAtATime' BY <1>3 DEF ConsoleInv, OneRequestAtATime, fields
  <2>4. ConfirmedIsApplied' BY DEF ConsoleInv, ConfirmedIsApplied, api
  <2> QED BY <2>1, <2>2, <2>3, <2>4 DEF ConsoleInv
<1>4. CASE /\ panel' = panel + 1
           /\ form' = None /\ plan' = 0 /\ receipt' = FALSE /\ busy' = FALSE
  <2>1. PanelOK'
    <3>1. receipt' \in BOOLEAN /\ busy' \in BOOLEAN BY <1>4
    <3>2. plan' \in Nat /\ plan' <= sent' /\ panel' \in Nat /\ panel' >= 1 /\ form' = None
      BY <1>1, <1>4
    <3> QED BY <3>1, <3>2 DEF PanelOK
  <2>2. \A q \in posts : q.panel <= panel + 1 /\ q.panel # panel + 1 BY <1>1, <1>2
  <2>3. PostsOK' BY <1>4, <2>2 DEF ConsoleInv, PostsOK, api
  <2>4. PlansOK' BY <1>4 DEF ConsoleInv, PlansOK, api
  <2>5. OneRequestAtATime' BY <1>4, <2>2 DEF ConsoleInv, OneRequestAtATime
  <2>6. ConfirmedIsApplied' BY DEF ConsoleInv, ConfirmedIsApplied, api
  <2> QED BY <2>1, <2>3, <2>4, <2>5, <2>6 DEF ConsoleInv
<1> QED BY <1>3, <1>4

LEMMA OpenKeeps ==
  ASSUME ConsoleInv, NEW w \in Workload, Open(w)
  PROVE  ConsoleInv'
<1>1. ~Mounted' BY DEF Open, Mounted, Shown
<1>2. /\ opens + 1 \in 0..MaxOpens /\ 1..opens \subseteq 1..(opens + 1)
      /\ opens + 1 \notin 1..opens /\ opens + 1 # 0
  BY PanelBounds DEF Open, ConsoleInv, PageOK
<1>3. PageOK'
  <2>1. /\ opens' = opens + 1 /\ loads' = [loads EXCEPT ![opens'] = w]
        /\ selected' = w /\ detail' = None /\ error' = FALSE /\ looks' = looks
    BY DEF Open
  <2>2. looks' \subseteq 1..opens' /\ opens' \notin looks'
    BY <1>2, <2>1 DEF ConsoleInv, PageOK
  <2>3. loads' \in [1..MaxOpens -> Workload \union {None}]
    BY <2>1 DEF ConsoleInv, PageOK
  <2> QED BY <1>2, <2>1, <2>2, <2>3 DEF PageOK
<1> QED BY <1>1, <1>3, DrawerKeeps DEF Open

LEMMA CloseKeeps ==
  ASSUME ConsoleInv, Close
  PROVE  ConsoleInv'
<1>1. ~Mounted' BY DEF Close, Mounted, Shown
<1>2. PageOK' BY DEF Close, ConsoleInv, PageOK
<1> QED BY <1>1, <1>2, DrawerKeeps DEF Close

LEMMA LoadedKeeps ==
  ASSUME ConsoleInv, NEW n \in 1..MaxOpens, Loaded(n)
  PROVE  ConsoleInv'
<1>1. loads[n] \in Workload \union {None} BY DEF ConsoleInv, PageOK
<1>2. PageOK' BY <1>1 DEF Loaded, ConsoleInv, PageOK
<1>3. \/ UNCHANGED fields /\ (Mounted' => Mounted)
      \/ /\ panel' = panel + 1
         /\ form' = None /\ plan' = 0 /\ receipt' = FALSE /\ busy' = FALSE
  BY DEF Loaded, Rendered, Mounted
<1>4. UNCHANGED <<posts, sent, api>> BY DEF Loaded
<1> QED BY <1>2, <1>3, <1>4, DrawerKeeps

LEMMA LookKeeps ==
  ASSUME ConsoleInv, Look
  PROVE  ConsoleInv'
<1>1. UNCHANGED fields /\ Mounted' = Mounted BY DEF Look, Mounted, Shown
<1>2. PageOK'
  <2>1. detail # None /\ opens \in 1..opens
    <3>1. detail # None /\ selected # None BY DEF Look, Mounted, Shown
    <3>2. opens # 0 BY <3>1 DEF ConsoleInv, PageOK
    <3> QED BY <3>1, <3>2, PanelBounds DEF ConsoleInv, PageOK
  <2> QED BY <2>1 DEF Look, ConsoleInv, PageOK
<1>3. UNCHANGED <<posts, sent, api>> BY DEF Look
<1> QED BY <1>1, <1>2, <1>3, DrawerKeeps

\* The detail is another one, in a drawer that had one.
LEMMA LookedKeeps ==
  ASSUME ConsoleInv, NEW n \in 1..MaxOpens, Looked(n)
  PROVE  ConsoleInv'
<1>1. n = opens /\ selected # None => detail # None
  BY DEF Looked, ConsoleInv, PageOK
<1>2. Mounted' => Mounted BY <1>1 DEF Looked, Mounted, Shown
<1>3. PageOK' BY <1>1 DEF Looked, ConsoleInv, PageOK
<1>4. UNCHANGED <<posts, sent, api>> /\ UNCHANGED fields BY DEF Looked
<1> QED BY <1>2, <1>3, <1>4, DrawerKeeps

-----------------------------------------------------------------------------
(* The panel.                                                               *)

\* A step in the panel that asks nothing.
LEMMA FieldsKeep ==
  ASSUME ConsoleInv, UNCHANGED <<page, posts, sent, api>>, UNCHANGED <<panel, busy>>,
         form' \in Draft \union {None}, receipt' \in BOOLEAN,
         plan' = 0 \/ plan' = plan
  PROVE  ConsoleInv'
<1>1. PageOK' /\ (Mounted' <=> Mounted) BY DEF ConsoleInv, PageOK, page, Mounted
<1>2. plan' \in Nat /\ plan' <= sent'
  BY PanelBounds DEF ConsoleInv, PanelOK, PostsOK
<1>3. PanelOK' BY <1>1, <1>2 DEF ConsoleInv, PanelOK
<1>4. PostsOK' /\ PlansOK' BY DEF ConsoleInv, PostsOK, PlansOK, api
<1>5. ConfirmedIsApplied' BY DEF ConsoleInv, ConfirmedIsApplied, api
<1>6. OneRequestAtATime' BY <1>1 DEF ConsoleInv, OneRequestAtATime
<1> QED BY <1>1, <1>3, <1>4, <1>5, <1>6 DEF ConsoleInv

LEMMA EditKeeps ==
  ASSUME ConsoleInv, (\E d \in Draft : Edit(d)) \/ Cancel \/ UNCHANGED vars
  PROVE  ConsoleInv'
<1>1. /\ UNCHANGED <<page, posts, sent, api>> /\ UNCHANGED <<panel, busy>>
      /\ plan' = 0 \/ plan' = plan
  BY DEF Edit, Cancel, vars, fields
<1>2. form' \in Draft \union {None} /\ receipt' \in BOOLEAN
  <2>1. CASE \E d \in Draft : Edit(d) BY <2>1 DEF Edit
  <2>2. CASE Cancel BY <2>2 DEF Cancel, ConsoleInv, PanelOK
  <2>3. CASE UNCHANGED vars BY <2>3 DEF vars, fields, ConsoleInv, PanelOK
  <2> QED BY <2>1, <2>2, <2>3
<1> QED BY <1>1, <1>2, FieldsKeep

\* A request is asked by a panel that waits for none.
LEMMA PostKeeps ==
  ASSUME ConsoleInv, Review \/ Execute
  PROVE  ConsoleInv'
<1> DEFINE new == [id |-> sent + 1, panel |-> panel, plan |-> plan, request |-> Request,
                   step |-> "asked"]
<1>1. /\ Mounted /\ form # None /\ Post(plan) /\ plan' = plan
  BY DEF Review, Execute
<1>2. /\ ~busy /\ busy' = TRUE /\ sent < MaxPosts /\ sent' = sent + 1
      /\ posts' = posts \union {new} /\ UNCHANGED <<form, receipt, panel, page, api>>
  BY <1>1 DEF Post
<1>3. /\ sent \in Nat /\ sent + 1 \in 0..MaxPosts /\ plan \in Nat /\ plan <= sent
      /\ panel \in Nat /\ panel >= 1
  BY <1>1, <1>2, PanelBounds DEF ConsoleInv, PanelOK, PostsOK
<1>4. Request \in Requests
  <2>1. detail \in Workload BY <1>1 DEF Mounted, Shown, ConsoleInv, PageOK
  <2>2. form \in Draft BY <1>1 DEF ConsoleInv, PanelOK
  <2> QED BY <2>1, <2>2 DEF Request, Requests
<1>5. new \in Posts BY <1>3, <1>4 DEF Posts
<1>6. new.id = sent + 1 /\ new.panel = panel /\ new.plan = plan /\ new.step = "asked"
  OBVIOUS
<1> HIDE DEF new
<1>7. \A q \in posts : /\ q \in Posts /\ q.id >= 1 /\ q.id <= sent /\ q.plan <= sent
                       /\ q.panel >= 1 /\ q.panel <= panel
                       /\ q.plan = 0 /\ q.step = "done" => plans[q.id] = q.request
  BY DEF ConsoleInv, PostsOK
<1>8. \A q \in posts : q.id \in Nat /\ q.plan \in Nat /\ q.id # new.id /\ q.panel # panel
  <2>1. \A q \in posts : q.id \in Nat /\ q.plan \in Nat BY <1>7 DEF Posts
  <2>2. \A q \in posts : q.panel # panel
    BY <1>1, <1>2 DEF ConsoleInv, OneRequestAtATime
  <2> QED BY <1>3, <1>6, <1>7, <2>1, <2>2
<1>9. PageOK' /\ (Mounted' <=> Mounted) BY <1>2 DEF ConsoleInv, PageOK, page, Mounted
<1>10. PanelOK'
  <2>1. plan' <= sent' /\ plan' \in Nat BY <1>1, <1>2, <1>3
  <2>2. busy' \in BOOLEAN BY <1>2
  <2> QED BY <1>2, <1>3, <1>9, <2>1, <2>2 DEF ConsoleInv, PanelOK
<1>11. PostsOK'
  <2>1. sent' \in 0..MaxPosts BY <1>2, <1>3
  <2>2. ASSUME NEW q \in posts'
        PROVE  /\ q \in Posts /\ q.id >= 1 /\ q.id <= sent' /\ q.plan <= sent'
               /\ q.panel >= 1 /\ q.panel <= panel'
               /\ q.plan = 0 /\ q.step = "done" => plans'[q.id] = q.request
    <3>1. CASE q \in posts
      <4>1. plans' = plans BY <1>2 DEF api
      <4> QED BY <1>2, <1>3, <1>7, <1>8, <3>1, <4>1
    <3>2. CASE q = new
      BY <1>2, <1>3, <1>5, <1>6, <3>2
    <3> QED BY <1>2, <2>2, <3>1, <3>2
  <2>3. \A q, r \in posts' : q.id = r.id => q = r
    BY <1>2, <1>8 DEF ConsoleInv, PostsOK
  <2> QED BY <2>1, <2>2, <2>3 DEF PostsOK
<1>12. PlansOK' /\ ConfirmedIsApplied'
  BY <1>1, <1>2 DEF ConsoleInv, PlansOK, ConfirmedIsApplied, api
<1>13. OneRequestAtATime'
  <2>1. \A q, r \in posts' : q.panel = r.panel => q = r
    BY <1>2, <1>6, <1>8 DEF ConsoleInv, OneRequestAtATime
  <2>2. busy' /\ \E q \in posts' : q.panel = panel' BY <1>2, <1>6
  <2> QED BY <2>1, <2>2 DEF OneRequestAtATime
<1> QED BY <1>9, <1>10, <1>11, <1>12, <1>13 DEF ConsoleInv

-----------------------------------------------------------------------------
(* The API, and its answers.                                                *)

\* A request that is served stays the same request.
LEMMA AnsweredKeeps ==
  ASSUME ConsoleInv, NEW q \in posts, NEW step \in {"done", "refused"}, Answered(q, step),
         UNCHANGED <<page, fields, sent>>,
         \A r \in posts \ {q} : r.plan = 0 /\ r.step = "done" => plans'[r.id] = r.request,
         q.plan = 0 /\ step = "done" => plans'[q.id] = q.request
  PROVE  PageOK' /\ PanelOK' /\ PostsOK' /\ OneRequestAtATime'
<1> DEFINE new == [q EXCEPT !.step = step]
<1>1. q \in Posts /\ q.id >= 1 /\ q.id <= sent /\ q.plan <= sent
      /\ q.panel >= 1 /\ q.panel <= panel
  BY DEF ConsoleInv, PostsOK
<1>2. /\ new \in Posts /\ new.id = q.id /\ new.panel = q.panel /\ new.plan = q.plan
      /\ new.request = q.request /\ new.step = step
  BY <1>1 DEF Posts
<1>3. posts' = (posts \ {q}) \union {new} BY DEF Answered
<1> HIDE DEF new
<1>4. PageOK' /\ PanelOK' /\ (Mounted' <=> Mounted)
  BY DEF ConsoleInv, PageOK, PanelOK, page, fields, Mounted
<1>5. \A r \in posts : r # q => r.id # q.id /\ r.panel # q.panel
  BY DEF ConsoleInv, PostsOK, OneRequestAtATime
<1>6. PostsOK'
  <2>1. ASSUME NEW r \in posts'
        PROVE  /\ r \in Posts /\ r.id >= 1 /\ r.id <= sent' /\ r.plan <= sent'
               /\ r.panel >= 1 /\ r.panel <= panel'
               /\ r.plan = 0 /\ r.step = "done" => plans'[r.id] = r.request
    <3>1. CASE r \in posts \ {q}
      BY <3>1 DEF ConsoleInv, PostsOK, fields
    <3>2. CASE r = new
      BY <1>1, <1>2, <3>2 DEF fields
    <3> QED BY <1>3, <2>1, <3>1, <3>2
  <2>2. \A r, t \in posts' : r.id = t.id => r = t
    BY <1>2, <1>3, <1>5 DEF ConsoleInv, PostsOK
  <2>3. sent' \in 0..MaxPosts BY DEF ConsoleInv, PostsOK
  <2> QED BY <2>1, <2>2, <2>3 DEF PostsOK
<1>7. OneRequestAtATime'
  <2>1. \A r, t \in posts' : r.panel = t.panel => r = t
    BY <1>2, <1>3, <1>5 DEF ConsoleInv, OneRequestAtATime
  <2>2. (\E r \in posts' : r.panel = panel') <=> (\E r \in posts : r.panel = panel)
    BY <1>2, <1>3 DEF fields
  <2>3. busy' = busy BY DEF fields
  <2> QED BY <1>4, <2>1, <2>2, <2>3 DEF ConsoleInv, OneRequestAtATime
<1> QED BY <1>4, <1>6, <1>7

LEMMA PlanKeeps ==
  ASSUME ConsoleInv, NEW q \in posts, Plan(q)
  PROVE  ConsoleInv'
<1>1. q \in Posts /\ q.id >= 1 /\ q.id <= sent BY DEF ConsoleInv, PostsOK
<1>2. q.id \in 1..MaxPosts /\ q.request \in Requests
  BY <1>1, PanelBounds DEF Posts, ConsoleInv, PostsOK
<1>3. /\ plans' = [plans EXCEPT ![q.id] = q.request] /\ Answered(q, "done")
      /\ UNCHANGED <<page, fields, sent, spent, effects>>
  BY DEF Plan
<1>4. /\ plans' \in [1..MaxPosts -> Requests \union {NoRequest}]
      /\ plans'[q.id] = q.request
      /\ \A n \in 1..MaxPosts : n # q.id => plans'[n] = plans[n]
  BY <1>2, <1>3 DEF ConsoleInv, PlansOK
<1>5. \A r \in posts \ {q} : r.plan = 0 /\ r.step = "done" => plans'[r.id] = r.request
  <2>1. \A r \in posts \ {q} : r.id # q.id /\ (r.plan = 0 /\ r.step = "done" => plans[r.id] = r.request)
    BY DEF ConsoleInv, PostsOK
  <2>2. plans' = [plans EXCEPT ![q.id] = q.request] BY <1>3
  <2>3. \A n : n # q.id /\ n \in DOMAIN plans => plans'[n] = plans[n] BY <2>2
  <2>4. \A r \in posts : r.id \in DOMAIN plans
    <3>1. DOMAIN plans = 1..MaxPosts BY DEF ConsoleInv, PlansOK
    <3>2. \A r \in posts : r.id \in Nat /\ r.id >= 1 /\ r.id <= sent
      BY DEF ConsoleInv, PostsOK, Posts
    <3>3. sent \in Nat /\ sent <= MaxPosts /\ MaxPosts \in Nat
      BY PanelBounds DEF ConsoleInv, PostsOK
    <3> QED BY <3>1, <3>2, <3>3
  <2> QED BY <2>1, <2>3, <2>4
<1>6. PageOK' /\ PanelOK' /\ PostsOK' /\ OneRequestAtATime'
  BY <1>3, <1>4, <1>5, AnsweredKeeps
<1>7. PlansOK'
  <2>1. plan' # 0 => plans'[plan'] # NoRequest
    <3>1. q.request # NoRequest BY <1>2, PanelBounds DEF Requests, NoRequest
    <3>2. plan' = plan BY <1>3 DEF fields
    <3>3. plan # 0 => plan \in 1..MaxPosts
      BY PanelBounds DEF ConsoleInv, PanelOK, PostsOK
    <3> QED BY <1>4, <3>1, <3>2, <3>3 DEF ConsoleInv, PlansOK
  <2> QED BY <1>3, <1>4, <2>1 DEF ConsoleInv, PlansOK
<1>8. ConfirmedIsApplied' BY <1>3 DEF ConsoleInv, ConfirmedIsApplied
<1> QED BY <1>6, <1>7, <1>8 DEF ConsoleInv

\* A plan takes effect once, for the request that was planned.
LEMMA ApplyKeeps ==
  ASSUME ConsoleInv, NEW q \in posts, Apply(q)
  PROVE  ConsoleInv'
<1>1. q \in Posts /\ q.plan <= sent /\ q.plan # 0 BY DEF ConsoleInv, PostsOK, Apply
<1>2. q.plan \in 1..MaxPosts
  BY <1>1, PanelBounds DEF Posts, ConsoleInv, PostsOK
<1>3. /\ UNCHANGED <<page, fields, sent, plans>>
      /\ Answered(q, "done") \/ Answered(q, "refused")
  BY DEF Apply
<1>4. PageOK' /\ PanelOK' /\ PostsOK' /\ OneRequestAtATime'
  <2>1. \A r \in posts \ {q} : r.plan = 0 /\ r.step = "done" => plans'[r.id] = r.request
    BY <1>3 DEF ConsoleInv, PostsOK
  <2> QED BY <1>1, <1>3, <2>1, AnsweredKeeps
<1>5. CASE Accepted(q)
  <2>1. /\ spent' = spent \union {q.plan} /\ q.plan \notin spent /\ plans[q.plan] = q.request
        /\ effects' = effects \union
             {[plan |-> q.plan, request |-> plans[q.plan], shown |-> q.request]}
    BY <1>5 DEF Apply, Accepted
  <2>2. PlansOK'
    <3>1. \A e \in effects' : e.plan \in spent' BY <2>1 DEF ConsoleInv, PlansOK
    <3>2. spent' \subseteq 1..MaxPosts BY <1>2, <2>1 DEF ConsoleInv, PlansOK
    <3> QED BY <1>3, <3>1, <3>2 DEF ConsoleInv, PlansOK, fields
  <2>3. ConfirmedIsApplied' BY <2>1 DEF ConsoleInv, PlansOK, ConfirmedIsApplied
  <2> QED BY <1>4, <2>2, <2>3 DEF ConsoleInv
<1>6. CASE ~Accepted(q)
  <2>1. spent' = spent /\ effects' = effects BY <1>6 DEF Apply
  <2>2. PlansOK' BY <1>3, <2>1 DEF ConsoleInv, PlansOK, fields
  <2>3. ConfirmedIsApplied' BY <2>1 DEF ConsoleInv, ConfirmedIsApplied
  <2> QED BY <1>4, <2>2, <2>3 DEF ConsoleInv
<1> QED BY <1>5, <1>6

\* An answer reaches the panel that asked, or none.
LEMMA ArrivesKeeps ==
  ASSUME ConsoleInv, NEW q \in posts, NEW ok \in BOOLEAN, Arrives(q, ok)
  PROVE  ConsoleInv'
<1>1. /\ posts' = posts \ {q} /\ UNCHANGED <<page, sent, api>> /\ UNCHANGED <<form, panel>>
      /\ ok => q.step = "done"
  BY DEF Arrives, fields
<1>2. /\ q \in Posts /\ q.id >= 1 /\ q.id <= sent
      /\ q.plan = 0 /\ q.step = "done" => plans[q.id] = q.request
  BY DEF ConsoleInv, PostsOK
<1>3. PageOK' /\ (Mounted' <=> Mounted) BY <1>1 DEF ConsoleInv, PageOK, page, Mounted
<1>4. /\ plan' \in {0, plan} \/ (plan' = q.id /\ ok /\ q.plan = 0)
      /\ receipt' \in BOOLEAN /\ busy' \in BOOLEAN
  <2>1. receipt \in BOOLEAN /\ busy \in BOOLEAN BY DEF ConsoleInv, PanelOK
  <2>2. CASE q.panel = panel BY <2>1, <2>2 DEF Arrives
  <2>3. CASE q.panel # panel BY <2>1, <2>3 DEF Arrives, fields
  <2> QED BY <2>2, <2>3
<1>5. PanelOK'
  <2>1. plan \in Nat /\ plan <= sent /\ sent \in Nat /\ q.id \in Nat
    BY <1>2, PanelBounds DEF ConsoleInv, PanelOK, PostsOK, Posts
  <2>2. plan' \in Nat /\ plan' <= sent' BY <1>1, <1>2, <1>4, <2>1
  <2> QED BY <1>1, <1>3, <1>4, <2>2 DEF ConsoleInv, PanelOK
<1>6. PostsOK' BY <1>1 DEF ConsoleInv, PostsOK, api
<1>7. PlansOK'
  <2>1. q.request # NoRequest BY <1>2, PanelBounds DEF Posts, Requests, NoRequest
  <2>2. plan' # 0 => plans[plan'] # NoRequest
    BY <1>1, <1>2, <1>4, <2>1 DEF ConsoleInv, PlansOK
  <2> QED BY <1>1, <2>2 DEF ConsoleInv, PlansOK, api
<1>8. ConfirmedIsApplied' BY <1>1 DEF ConsoleInv, ConfirmedIsApplied, api
<1>9. OneRequestAtATime'
  <2>1. \A r, t \in posts' : r.panel = t.panel => r = t
    BY <1>1 DEF ConsoleInv, OneRequestAtATime
  <2>2. CASE q.panel = panel
    <3>1. busy' = FALSE BY <2>2 DEF Arrives
    <3>2. \A r \in posts' : r.panel # panel
      BY <1>1, <2>2 DEF ConsoleInv, OneRequestAtATime
    <3> QED BY <1>1, <2>1, <3>1, <3>2 DEF OneRequestAtATime
  <2>3. CASE q.panel # panel
    <3>1. busy' = busy BY <2>3 DEF Arrives, fields
    <3>2. (\E r \in posts' : r.panel = panel) <=> (\E r \in posts : r.panel = panel)
      BY <1>1, <2>3
    <3> QED BY <1>1, <1>3, <2>1, <3>1, <3>2 DEF ConsoleInv, OneRequestAtATime
  <2> QED BY <2>2, <2>3
<1> QED BY <1>3, <1>5, <1>6, <1>7, <1>8, <1>9 DEF ConsoleInv

LEMMA StepConsole == ConsoleInv /\ [Next]_vars => ConsoleInv'
BY OpenKeeps, CloseKeeps, LoadedKeeps, LookKeeps, LookedKeeps, EditKeeps, PostKeeps, PlanKeeps,
   ApplyKeeps, ArrivesKeeps
   DEF Next

LEMMA PanelInvariant == Spec => []ConsoleInv
BY InitConsole, StepConsole, PTL DEF Spec

\* Requests and panels are numbered, and a panel shows a plan that was made.
THEOREM ConsoleTypes == Spec => []TypeOK
BY PanelInvariant, TypesFollow, PTL

\* What takes effect is what the panel showed at the click, and takes effect once.
THEOREM ConfirmedApplied == Spec => []ConfirmedIsApplied
<1>1. ConsoleInv => ConfirmedIsApplied BY DEF ConsoleInv
<1> QED BY <1>1, PanelInvariant, PTL

\* The buttons of a panel are disabled exactly while it waits for its one answer.
THEOREM OneRequest == Spec => []OneRequestAtATime
<1>1. ConsoleInv => OneRequestAtATime BY DEF ConsoleInv
<1> QED BY <1>1, PanelInvariant, PTL

-----------------------------------------------------------------------------
(* The refreshes.                                                           *)

\* A refresh always asks for the workloads, so that a failure of none of its targets
\* means that they were answered.
RefreshInv ==
  /\ version \in 1..MaxVersion /\ view \in View
  /\ moves \in 0..MaxMoves /\ failures \in 0..MaxFailures
  /\ effect \in Nat /\ effect >= 1 /\ effect <= moves + 1
  /\ cache \in [View -> 0..version]
  /\ status \in {"loading", "connected", "stale"}
  /\ stream \in BOOLEAN /\ debounce \in BOOLEAN
  /\ refresh \in [1..Slots -> [targets : SUBSET View, signal : 0..effect,
                               answer : [View -> 0..version]]]
  /\ \A n \in 1..Slots :
       refresh[n] = Refresh!NoRefresh \/ Workloads \in refresh[n].targets
  /\ status = "connected" => \E v \in View : cache[v] # 0

LEMMA InitRefresh == Refresh!Init => RefreshInv
<1> SUFFICES ASSUME Refresh!Init PROVE RefreshInv
  OBVIOUS
<1>1. /\ Workloads \in View /\ MaxVersion \in Nat \ {0} /\ MaxMoves \in Nat
      /\ MaxFailures \in Nat /\ Slots \in Nat
  BY InstanceBounds DEF Refresh!RefreshBounds
<1>2. /\ version = 1 /\ view = Workloads /\ effect = 1 /\ status = "loading"
      /\ stream \in BOOLEAN /\ debounce = FALSE /\ moves = 0 /\ failures = 0
      /\ cache = [v \in View |-> 0]
  BY DEF Refresh!Init
<1>3. \A n \in 1..Slots :
        /\ refresh[n] \in [targets : SUBSET View, signal : 0..effect, answer : [View -> 0..version]]
        /\ refresh[n] = Refresh!NoRefresh \/ Workloads \in refresh[n].targets
  <2>1. /\ Refresh!Targets(Workloads) \in SUBSET View
        /\ Workloads \in Refresh!Targets(Workloads)
    BY <1>1 DEF Refresh!Targets
  <2>2. 1 \in 0..effect /\ 0 \in 0..effect /\ 0 \in 0..version BY <1>2
  <2>3. \A n \in 1..Slots :
          refresh[n] = IF n = 1 THEN Refresh!Asked(Workloads, 1) ELSE Refresh!NoRefresh
    BY DEF Refresh!Init
  <2> QED BY <2>1, <2>2, <2>3 DEF Refresh!NoRefresh, Refresh!Asked, Refresh!Unanswered
<1>4. refresh \in [1..Slots -> [targets : SUBSET View, signal : 0..effect,
                                answer : [View -> 0..version]]]
  BY <1>3 DEF Refresh!Init
<1>5. 1 \in 1..MaxVersion /\ 0 \in 0..MaxMoves /\ 0 \in 0..MaxFailures /\ 0 \in 0..version
      /\ 1 \in Nat /\ 1 >= 1 /\ 1 <= 0 + 1
  BY <1>1, <1>2
<1>6. cache \in [View -> 0..version] BY <1>2, <1>5
<1> QED BY <1>1, <1>2, <1>3, <1>4, <1>5, <1>6 DEF RefreshInv

\* A refresh that begins is of the workloads, and of a view.
LEMMA BeginKeeps ==
  ASSUME RefreshInv, NEW n \in 1..Slots, NEW v \in View, NEW signal \in 0..effect',
         Refresh!Begin(n, v, signal), effect' \in Nat, effect' >= effect,
         UNCHANGED version
  PROVE  /\ refresh' \in [1..Slots -> [targets : SUBSET View, signal : 0..effect',
                                       answer : [View -> 0..version']]]
         /\ \A k \in 1..Slots :
              refresh'[k] = Refresh!NoRefresh \/ Workloads \in refresh'[k].targets
<1> DEFINE Kept == [targets : SUBSET View, signal : 0..effect', answer : [View -> 0..version']]
           new == Refresh!Asked(v, signal)
<1>1. Workloads \in View BY InstanceBounds DEF Refresh!RefreshBounds
<1>2. new \in Kept /\ Workloads \in new.targets
  <2>1. Refresh!Targets(v) \in SUBSET View /\ Workloads \in Refresh!Targets(v)
    BY <1>1 DEF Refresh!Targets
  <2>2. 0 \in 0..version' BY DEF RefreshInv
  <2> QED BY <2>1, <2>2 DEF Refresh!Asked, Refresh!Unanswered
<1>3. \A k \in 1..Slots : refresh[k] \in Kept
  <2>1. 0..effect \subseteq 0..effect' BY DEF RefreshInv
  <2> QED BY <2>1 DEF RefreshInv
<1>4. refresh' = [refresh EXCEPT ![n] = new] BY DEF Refresh!Begin
<1> HIDE DEF new, Kept
<1>5. /\ DOMAIN refresh' = 1..Slots
      /\ \A k \in 1..Slots : refresh'[k] = IF k = n THEN new ELSE refresh[k]
  BY <1>4 DEF RefreshInv
<1>6. refresh' \in [1..Slots -> Kept]
  <2>1. refresh \in [1..Slots -> Kept] BY <1>3 DEF RefreshInv
  <2> QED BY <1>2, <1>4, <2>1
<1> QED BY <1>2, <1>5, <1>6 DEF RefreshInv, Kept

LEMMA StepRefresh == RefreshInv /\ [Refresh!Next]_refreshVars => RefreshInv'
<1> SUFFICES ASSUME RefreshInv, [Refresh!Next]_refreshVars PROVE RefreshInv'
  OBVIOUS
<1> USE DEF RefreshInv
<1>1. Workloads \in View /\ MaxVersion \in Nat /\ MaxMoves \in Nat /\ MaxFailures \in Nat
  BY InstanceBounds DEF Refresh!RefreshBounds
<1>2. CASE Refresh!Change
  <2>1. /\ version' = version + 1 /\ version < MaxVersion
        /\ UNCHANGED <<view, effect, cache, status, stream, refresh, moves, failures>>
        /\ debounce' \in BOOLEAN
    BY <1>2 DEF Refresh!Change
  <2>2. 0..version \subseteq 0..version' /\ version' \in 1..MaxVersion BY <1>1, <2>1
  <2>3. cache' \in [View -> 0..version'] BY <2>1, <2>2
  <2>4. refresh' \in [1..Slots -> [targets : SUBSET View, signal : 0..effect,
                                   answer : [View -> 0..version']]]
    <3>1. [View -> 0..version] \subseteq [View -> 0..version'] BY <2>2
    <3>2. [targets : SUBSET View, signal : 0..effect, answer : [View -> 0..version]]
            \subseteq [targets : SUBSET View, signal : 0..effect, answer : [View -> 0..version']]
      BY <3>1
    <3> QED BY <2>1, <3>2
  <2> QED BY <2>1, <2>2, <2>3, <2>4
<1>3. CASE Refresh!Connect \/ Refresh!Disconnect \/ UNCHANGED refreshVars
  <2>1. /\ UNCHANGED <<version, view, effect, cache, status, debounce, refresh, moves, failures>>
        /\ stream' \in BOOLEAN
    BY <1>3 DEF Refresh!Connect, Refresh!Disconnect, refreshVars
  <2> QED BY <2>1
<1>4. ASSUME NEW n \in 1..Slots, NEW t \in View, Refresh!Serve(n, t) PROVE RefreshInv'
  <2> DEFINE Kept == [targets : SUBSET View, signal : 0..effect,
                      answer : [View -> 0..version]]
             new == [refresh[n] EXCEPT !.answer[t] = version]
  <2>1. /\ t \in refresh[n].targets
        /\ refresh' = [refresh EXCEPT ![n] = new]
        /\ UNCHANGED <<version, view, effect, cache, status, stream, debounce, moves, failures>>
    BY <1>4 DEF Refresh!Serve
  <2>2. refresh[n] \in Kept /\ version \in 0..version BY <1>1
  <2>3. new \in Kept /\ new.targets = refresh[n].targets BY <2>2
  <2>4. Workloads \in new.targets
    <3>1. refresh[n] # Refresh!NoRefresh BY <2>1 DEF Refresh!NoRefresh
    <3> QED BY <2>3, <3>1
  <2> HIDE DEF new, Kept
  <2>5. /\ DOMAIN refresh' = 1..Slots
        /\ \A k \in 1..Slots : refresh'[k] = IF k = n THEN new ELSE refresh[k]
    BY <2>1
  <2>6. refresh' \in [1..Slots -> Kept]
    <3>1. refresh \in [1..Slots -> Kept] BY DEF Kept
    <3> QED BY <2>1, <2>3, <3>1
  <2>7. \A k \in 1..Slots :
          refresh'[k] = Refresh!NoRefresh \/ Workloads \in refresh'[k].targets
    BY <2>4, <2>5
  <2> QED BY <2>1, <2>6, <2>7 DEF Kept
<1>5. ASSUME NEW n \in 1..Slots, Refresh!Poll(n) \/ Refresh!Debounced(n) \/ Refresh!ByHand(n)
      PROVE  RefreshInv'
  <2>1. /\ UNCHANGED <<version, view, effect, cache, status, stream, failures>>
        /\ debounce' \in BOOLEAN /\ moves' \in 0..MaxMoves /\ moves' >= moves
        /\ \E signal \in 0..effect : Refresh!Begin(n, view, signal)
    <3>1. 0 \in 0..effect /\ effect \in 0..effect BY <1>1
    <3>2. moves + 1 >= moves /\ (moves < MaxMoves => moves + 1 \in 0..MaxMoves) BY <1>1
    <3>3. CASE Refresh!Poll(n) BY <3>1, <3>3 DEF Refresh!Poll
    <3>4. CASE Refresh!Debounced(n)
      <4>1. /\ UNCHANGED <<version, view, effect, cache, status, stream, failures, moves>>
            /\ debounce' = FALSE /\ Refresh!Begin(n, view, effect)
        BY <3>4 DEF Refresh!Debounced
      <4>2. moves' \in 0..MaxMoves /\ moves' >= moves BY <1>1, <4>1
      <4> QED BY <3>1, <4>1, <4>2
    <3>5. CASE Refresh!ByHand(n) BY <3>1, <3>2, <3>5 DEF Refresh!ByHand
    <3> QED BY <1>5, <3>3, <3>4, <3>5
  <2>2. /\ refresh' \in [1..Slots -> [targets : SUBSET View, signal : 0..effect',
                                      answer : [View -> 0..version']]]
        /\ \A k \in 1..Slots :
             refresh'[k] = Refresh!NoRefresh \/ Workloads \in refresh'[k].targets
    BY <2>1, BeginKeeps
  <2>3. effect' <= moves' + 1
    <3>1. moves' \in Nat /\ moves \in Nat /\ effect' = effect /\ moves' >= moves
          /\ effect \in Nat /\ effect <= moves + 1
      BY <1>1, <2>1
    <3>2. \A e, m, n2 \in Nat : e <= m + 1 /\ n2 >= m => e <= n2 + 1 OBVIOUS
    <3> QED BY <3>1, <3>2
  <2> QED BY <2>1, <2>2, <2>3
<1>6. ASSUME NEW n \in 1..Slots, NEW v \in View, Refresh!Navigate(v, n)
      PROVE  RefreshInv'
  <2>1. /\ moves < MaxMoves /\ moves' = moves + 1 /\ view' = v /\ effect' = effect + 1
        /\ status' = "loading" /\ stream' = FALSE /\ debounce' = FALSE
        /\ Refresh!Begin(n, v, effect')
        /\ UNCHANGED <<version, cache, failures>>
    BY <1>6 DEF Refresh!Navigate
  <2>2. /\ effect' \in Nat /\ effect' >= 1 /\ effect' <= moves' + 1
        /\ moves' \in 0..MaxMoves /\ effect' \in 0..effect' /\ effect' >= effect
    BY <1>1, <2>1
  <2>3. /\ refresh' \in [1..Slots -> [targets : SUBSET View, signal : 0..effect',
                                      answer : [View -> 0..version']]]
        /\ \A k \in 1..Slots :
             refresh'[k] = Refresh!NoRefresh \/ Workloads \in refresh'[k].targets
    BY <2>1, <2>2, BeginKeeps
  <2> QED BY <2>1, <2>2, <2>3
<1>7. ASSUME NEW n \in 1..Slots, NEW failed \in SUBSET View, Refresh!Settle(n, failed)
      PROVE  RefreshInv'
  <2>1. /\ refresh[n] # Refresh!NoRefresh
        /\ \A t \in refresh[n].targets \ failed : refresh[n].answer[t] # 0
        /\ cache' = [t \in View |->
             IF t \in refresh[n].targets \ failed THEN refresh[n].answer[t] ELSE cache[t]]
        /\ status' = IF failed = {} THEN "connected" ELSE "stale"
        /\ refresh' = [refresh EXCEPT ![n] = Refresh!NoRefresh]
        /\ UNCHANGED <<version, view, effect, stream, debounce, moves>>
    BY <1>7 DEF Refresh!Settle
  <2>2. failures' \in 0..MaxFailures
    BY <1>1, <1>7 DEF Refresh!Settle
  <2>3. refresh[n].answer \in [View -> 0..version] /\ Workloads \in refresh[n].targets
    BY <2>1
  <2>4. cache' \in [View -> 0..version'] BY <2>1, <2>3
  <2>5. status' = "connected" => \E v \in View : cache'[v] # 0
    <3>1. SUFFICES ASSUME status' = "connected" PROVE cache'[Workloads] # 0
      BY <1>1
    <3>2. failed = {} BY <2>1, <3>1
    <3>3. refresh[n].answer[Workloads] # 0 BY <2>1, <2>3, <3>2
    <3> QED BY <1>1, <2>1, <2>3, <3>2, <3>3
  <2>6. /\ refresh' \in [1..Slots -> [targets : SUBSET View, signal : 0..effect,
                                      answer : [View -> 0..version]]]
        /\ \A k \in 1..Slots :
             refresh'[k] = Refresh!NoRefresh \/ Workloads \in refresh'[k].targets
    <3>1. Refresh!NoRefresh \in [targets : SUBSET View, signal : 0..effect,
                                 answer : [View -> 0..version]]
      BY <1>1 DEF Refresh!NoRefresh, Refresh!Unanswered
    <3>2. \A k \in 1..Slots : refresh'[k] = IF k = n THEN Refresh!NoRefresh ELSE refresh[k]
      BY <2>1
    <3> QED BY <2>1, <3>1, <3>2
  <2>7. status' \in {"loading", "connected", "stale"} BY <2>1
  <2> QED BY <2>1, <2>2, <2>4, <2>5, <2>6, <2>7
<1>8. ASSUME NEW n \in 1..Slots, Refresh!Drop(n) PROVE RefreshInv'
  <2>1. /\ refresh' = [refresh EXCEPT ![n] = Refresh!NoRefresh]
        /\ UNCHANGED <<version, view, effect, cache, status, stream, debounce, moves, failures>>
    BY <1>8 DEF Refresh!Drop
  <2>2. Refresh!NoRefresh \in [targets : SUBSET View, signal : 0..effect,
                               answer : [View -> 0..version]]
    BY <1>1 DEF Refresh!NoRefresh, Refresh!Unanswered
  <2>3. \A k \in 1..Slots : refresh'[k] = IF k = n THEN Refresh!NoRefresh ELSE refresh[k]
    BY <2>1
  <2>4. refresh' \in [1..Slots -> [targets : SUBSET View, signal : 0..effect,
                                   answer : [View -> 0..version]]]
    BY <2>1, <2>2
  <2> QED BY <2>1, <2>3, <2>4
<1> QED BY <1>2, <1>3, <1>4, <1>5, <1>6, <1>7, <1>8 DEF Refresh!Next

LEMMA RefreshTypes == RefreshInv => Refresh!TypeOK
<1> SUFFICES ASSUME RefreshInv PROVE Refresh!TypeOK
  OBVIOUS
<1>1. effect \in 1..MaxMoves + 1
  BY InstanceBounds DEF RefreshInv, Refresh!RefreshBounds
<1> QED BY <1>1 DEF RefreshInv, Refresh!TypeOK

-----------------------------------------------------------------------------
(* The update stream.                                                       *)

Update == 1..MaxChanges

\* What was delivered, and what will be if the connection takes it.
Told == delivered \o (line \o channel)

Pending == IF producer = "sending" THEN <<item>> ELSE <<>>

\* While the connection takes writes, what was told and the update that is sent are all
\* that was taken, unless a producer gave up its update after the client had left.
StoryInv ==
  /\ client # "broken" /\ (client = "here" \/ producer # "ended") => taken = Told \o Pending
  /\ client # "broken" => Stream!IsPrefix(Told, taken)
  /\ Stream!IsPrefix(delivered, taken)

\* A handler that returns to a client that is there has emptied the channel.
ControlInv ==
  /\ Stream!TypeOK
  /\ producer = "sending" => item \in Update
  /\ handler # "writing" => line = <<>>
  /\ handler = "opening" => producer = "none"
  /\ handler \in {"loop", "writing"} => producer # "none"
  /\ producer = "none" => channel = <<>> /\ taken = <<>> /\ delivered = <<>>
  /\ client = "here" /\ handler = "returned" => producer \in {"none", "ended"} /\ channel = <<>>

StreamInv == ControlInv /\ StoryInv

LEMMA PrefixOf ==
  ASSUME NEW S, NEW s \in Seq(S), NEW t \in Seq(S)
  PROVE  Stream!IsPrefix(s, s \o t)
<1>1. Len(s) \in Nat /\ Len(t) \in Nat /\ Len(s \o t) = Len(s) + Len(t)
  BY ConcatProperties, LenProperties
<1>2. SubSeq(s \o t, 1, Len(s)) = SubSeq(s, 1, Len(s))
  <2>1. CASE Len(s) = 0
    BY <2>1, SubSeqEmpty
  <2>2. CASE Len(s) > 0
    <3>1. 1 \in 1..Len(s) /\ Len(s) \in 1..Len(s) BY <1>1, <2>2
    <3> QED BY <3>1, SubSeqOfConcat1
  <2> QED BY <1>1, <2>1, <2>2
<1> QED BY <1>1, <1>2 DEF Stream!IsPrefix

LEMMA RestOf ==
  ASSUME NEW S, NEW s \in Seq(S), NEW t \in Seq(S), Stream!IsPrefix(s, t)
  PROVE  \E u \in Seq(S) : t = s \o u
<1> DEFINE u == SubSeq(t, Len(s) + 1, Len(t))
<1>1. Len(s) \in Nat /\ Len(t) \in Nat /\ Len(s) <= Len(t)
      /\ SubSeq(s, 1, Len(s)) = SubSeq(t, 1, Len(s))
  BY LenProperties DEF Stream!IsPrefix
<1>2. SubSeq(t, 1, Len(s)) \o u = SubSeq(t, 1, Len(t))
  <2>1. 1 \in 1..Len(t) + 1 /\ Len(s) \in 1 - 1..Len(t) /\ Len(t) \in Len(s)..Len(t)
    BY <1>1
  <2> QED BY <2>1, ConcatAdjacentSubSeq
<1>3. SubSeq(t, 1, Len(t)) = t /\ SubSeq(s, 1, Len(s)) = s BY SubSeqFull
<1>4. u \in Seq(S)
  <2>1. \A i \in Len(s) + 1..Len(t) : t[i] \in S
    <3>1. \A i \in Len(s) + 1..Len(t) : i \in 1..Len(t) BY <1>1
    <3> QED BY <3>1, ElementOfSeq
  <2> QED BY <1>1, <2>1, SubSeqProperties
<1> HIDE DEF u
<1>5. t = s \o u
  <2>1. SubSeq(s, 1, Len(s)) = SubSeq(t, 1, Len(s)) BY <1>1
  <2> QED BY <2>1, <1>2, <1>3, Zenon
<1> QED BY <1>4, <1>5

LEMMA PrefixGrows ==
  ASSUME NEW S, NEW s \in Seq(S), NEW t \in Seq(S), NEW u \in Seq(S),
         Stream!IsPrefix(s, t)
  PROVE  Stream!IsPrefix(s, t \o u)
<1>1. PICK r \in Seq(S) : t = s \o r BY RestOf
<1>2. (s \o r) \o u = s \o (r \o u) BY ConcatAssociative
<1>3. r \o u \in Seq(S) BY ConcatProperties
<1> QED BY <1>1, <1>2, <1>3, PrefixOf

LEMMA PrefixOfPrefix ==
  ASSUME NEW S, NEW s \in Seq(S), NEW t \in Seq(S), NEW u \in Seq(S),
         Stream!IsPrefix(s \o u, t)
  PROVE  Stream!IsPrefix(s, t)
<1>1. s \o u \in Seq(S) BY ConcatProperties
<1>2. PICK r \in Seq(S) : t = (s \o u) \o r BY <1>1, RestOf
<1>3. (s \o u) \o r = s \o (u \o r) BY ConcatAssociative
<1>4. u \o r \in Seq(S) BY ConcatProperties
<1> QED BY <1>2, <1>3, <1>4, PrefixOf

LEMMA SequencesOfUpdates ==
  ASSUME ControlInv
  PROVE  /\ {line, channel, taken, delivered, Told, Pending, line \o channel} \subseteq Seq(Update)
         /\ line \o channel \in Seq(Update)
         /\ producer # "sending" => Pending = <<>>
<1>1. {line, channel, taken, delivered} \subseteq Seq(Update)
  BY DEF ControlInv, Stream!TypeOK, Update
<1>2. Pending \in Seq(Update)
  <2>1. CASE producer = "sending" BY <2>1 DEF ControlInv, Pending
  <2>2. CASE producer # "sending" BY <2>2, EmptySeq DEF Pending
  <2> QED BY <2>1, <2>2
<1>3. line \o channel \in Seq(Update) BY <1>1, ConcatProperties
<1>4. Told \in Seq(Update) BY <1>1, <1>3, ConcatProperties DEF Told
<1> QED BY <1>1, <1>2, <1>3, <1>4 DEF Pending

LEMMA InitStream == Stream!Init => StreamInv
<1> SUFFICES ASSUME Stream!Init PROVE StreamInv
  OBVIOUS
<1>1. ClusterCap \in Nat \ {0} /\ MaxChanges \in Nat
  BY InstanceBounds DEF Stream!StreamBounds
<1>2. /\ channel = <<>> /\ line = <<>> /\ taken = <<>> /\ delivered = <<>>
      /\ item = 0 /\ changes = 0 /\ demo \in BOOLEAN /\ late = FALSE
      /\ watcher = "none" /\ producer = "none" /\ handler = "opening" /\ client = "here"
  BY DEF Stream!Init
<1>3. <<>> \in Seq(Update) /\ Len(<<>>) = 0 BY EmptySeq
<1>4. Stream!TypeOK
  <2>1. 0 \in 0..MaxChanges /\ 0 <= Stream!Cap /\ 0 <= 1 BY <1>1 DEF Stream!Cap
  <2> QED BY <1>2, <1>3, <2>1 DEF Stream!TypeOK, Update
<1>5. ControlInv BY <1>2, <1>4 DEF ControlInv
<1>6. <<>> \o <<>> = <<>> BY <1>3, ConcatEmptySeq
<1>7. Told = <<>> /\ Pending = <<>> BY <1>2, <1>6 DEF Told, Pending
<1>8. Stream!IsPrefix(<<>>, <<>>) BY <1>3, <1>6, PrefixOf
<1> QED BY <1>2, <1>5, <1>6, <1>7, <1>8 DEF StreamInv, StoryInv

\* A step that neither tells nor takes anything.
LEMMA SameStory ==
  ASSUME StoryInv, UNCHANGED <<delivered, line, channel, taken>>, Pending' = Pending,
         client' = "here" => client = "here", client' # "broken" => client # "broken",
         producer' # "ended" => producer # "ended"
  PROVE  StoryInv'
<1>1. Told' = Told BY DEF Told
<1> QED BY <1>1 DEF StoryInv

\* The producer's end of the stream.
LEMMA ProducerKeeps ==
  ASSUME StreamInv, Stream!Producer
  PROVE  StreamInv'
<1> USE DEF StreamInv
<1>1. ClusterCap \in Nat \ {0} /\ MaxChanges \in Nat
  BY InstanceBounds DEF Stream!StreamBounds
<1>2. Stream!Cap \in Nat /\ Stream!Cap' = Stream!Cap
  <2>1. demo' = demo
    BY DEF Stream!Producer, Stream!Take, Stream!Send, Stream!Done, Stream!GiveUp,
           Stream!WatchEnded, Stream!Ends
  <2> QED BY <1>1, <2>1 DEF Stream!Cap
<1>3. /\ {line, channel, taken, delivered, Told, Pending, line \o channel} \subseteq Seq(Update)
      /\ line \o channel \in Seq(Update)
      /\ producer # "sending" => Pending = <<>>
  BY SequencesOfUpdates
<1>4. ASSUME NEW decodes \in BOOLEAN, Stream!Take(decodes) PROVE StreamInv'
  <2>1. /\ producer = "select" /\ changes < MaxChanges /\ changes' = changes + 1
        /\ UNCHANGED <<demo, watcher, channel, handler, line, delivered, client, late>>
    BY <1>4 DEF Stream!Take, Stream!sink
  <2>2. changes' \in Update /\ changes' \in 0..MaxChanges
    BY <1>1, <2>1 DEF ControlInv, Stream!TypeOK, Update
  <2>3. CASE decodes
    <3>1. producer' = "sending" /\ item' = changes' /\ taken' = Append(taken, changes')
      BY <1>4, <2>3 DEF Stream!Take
    <3>2. taken' = taken \o <<changes'>> /\ taken' \in Seq(Update) /\ <<changes'>> \in Seq(Update)
      BY <1>3, <2>2, <3>1, AppendIsConcat, AppendProperties
    <3>3. ControlInv'
      <4>1. Stream!TypeOK'
        BY <1>2, <2>1, <2>2, <3>1, <3>2 DEF ControlInv, Stream!TypeOK, Update
      <4>2. handler # "opening" /\ ~(client = "here" /\ handler = "returned")
        BY <2>1 DEF ControlInv
      <4> QED BY <2>1, <2>2, <3>1, <4>1, <4>2 DEF ControlInv
    <3>4. Told' = Told /\ Pending = <<>> /\ Pending' = <<changes'>>
      BY <1>3, <2>1, <3>1 DEF Told, Pending
    <3>5. Told \o Pending = Told BY <1>3, <3>4, ConcatEmptySeq
    <3>6. client # "broken" => Stream!IsPrefix(Told, taken')
      BY <1>3, <3>2, PrefixGrows DEF StoryInv
    <3>7. Stream!IsPrefix(delivered, taken')
      BY <1>3, <3>2, PrefixGrows DEF StoryInv
    <3>8. StoryInv'
      BY <2>1, <3>1, <3>2, <3>4, <3>5, <3>6, <3>7 DEF StoryInv
    <3> QED BY <3>3, <3>8
  <2>4. CASE ~decodes
    <3>1. UNCHANGED <<producer, item, taken>> BY <1>4, <2>4 DEF Stream!Take
    <3>2. ControlInv'
      BY <1>2, <2>1, <2>2, <3>1 DEF ControlInv, Stream!TypeOK
    <3>3. Pending' = Pending BY <3>1 DEF Pending
    <3> QED BY <2>1, <3>1, <3>2, <3>3, SameStory
  <2> QED BY <2>3, <2>4
<1>5. CASE Stream!Send
  <2>1. /\ producer = "sending" /\ Len(channel) < Stream!Cap
        /\ channel' = Append(channel, item) /\ producer' = "select" /\ item' = 0
        /\ UNCHANGED <<demo, watcher, changes, taken, handler, line, delivered, client, late>>
    BY <1>5 DEF Stream!Send, Stream!sink
  <2>2. item \in Update BY <2>1 DEF ControlInv
  <2>3. /\ channel' = channel \o <<item>> /\ channel' \in Seq(Update)
        /\ Len(channel') = Len(channel) + 1 /\ <<item>> \in Seq(Update)
    BY <1>3, <2>1, <2>2, AppendIsConcat, AppendProperties
  <2>4. ControlInv'
    <3>1. Len(channel') <= Stream!Cap BY <1>2, <1>3, <2>1, <2>3, LenProperties
    <3>2. 0 \in 0..MaxChanges BY <1>1
    <3>3. Stream!TypeOK'
      BY <1>2, <2>1, <2>3, <3>1, <3>2 DEF ControlInv, Stream!TypeOK, Update
    <3>4. handler # "opening" /\ ~(client = "here" /\ handler = "returned")
      BY <2>1 DEF ControlInv
    <3> QED BY <2>1, <3>3, <3>4 DEF ControlInv
  <2>5. Told' = Told \o <<item>>
    <3>1. line \o (channel \o <<item>>) = (line \o channel) \o <<item>>
      BY <1>3, <2>3, ConcatAssociative
    <3>2. delivered \o ((line \o channel) \o <<item>>) = Told \o <<item>>
      BY <1>3, <2>3, ConcatAssociative DEF Told
    <3> QED BY <2>1, <2>3, <3>1, <3>2 DEF Told
  <2>6. Pending = <<item>> /\ Pending' = <<>> BY <2>1 DEF Pending
  <2>7. Told' \in Seq(Update) BY <1>3, <2>3, <2>5, ConcatProperties
  <2>8. Told' \o Pending' = Told' BY <2>6, <2>7, ConcatEmptySeq
  <2>9. client # "broken" => taken = Told'
    BY <2>1, <2>5, <2>6 DEF StoryInv
  <2>10. Stream!IsPrefix(Told', Told' \o Pending') BY <2>6, <2>7, EmptySeq, PrefixOf
  <2>11. StoryInv'
    BY <2>1, <2>8, <2>9, <2>10 DEF StoryInv
  <2> QED BY <2>4, <2>11
<1>6. CASE Stream!Done \/ Stream!WatchEnded
  <2>1. /\ producer = "select" /\ Stream!Ends
        /\ UNCHANGED <<channel, handler, line, delivered, client, late>>
    BY <1>6 DEF Stream!Done, Stream!WatchEnded, Stream!sink
  <2>2. /\ producer' = "ended" /\ watcher' \in {"none", "open", "closed", "stopped"}
        /\ UNCHANGED <<demo, item, changes, taken>>
    BY <2>1 DEF Stream!Ends, ControlInv, Stream!TypeOK
  <2>3. ControlInv'
    <3>1. Stream!TypeOK' BY <1>2, <2>1, <2>2 DEF ControlInv, Stream!TypeOK
    <3> QED BY <2>1, <2>2, <3>1 DEF ControlInv
  <2>4. Pending' = Pending BY <2>1, <2>2 DEF Pending
  <2> QED BY <2>1, <2>2, <2>3, <2>4, SameStory
<1>7. CASE Stream!GiveUp
  <2>1. /\ producer = "sending" /\ Stream!Cancelled /\ Stream!Ends
        /\ UNCHANGED <<channel, handler, line, delivered, client, late>>
    BY <1>7 DEF Stream!GiveUp, Stream!sink
  <2>2. /\ producer' = "ended" /\ watcher' \in {"none", "open", "closed", "stopped"}
        /\ UNCHANGED <<demo, item, changes, taken>>
    BY <2>1 DEF Stream!Ends, ControlInv, Stream!TypeOK
  <2>3. client # "here" BY <2>1 DEF Stream!Cancelled, ControlInv
  <2>4. ControlInv'
    <3>1. Stream!TypeOK' BY <1>2, <2>1, <2>2 DEF ControlInv, Stream!TypeOK
    <3> QED BY <2>1, <2>2, <2>3, <3>1 DEF ControlInv
  <2>5. Told' = Told BY <2>1 DEF Told
  <2>6. StoryInv' BY <2>1, <2>2, <2>3, <2>5 DEF StoryInv
  <2> QED BY <2>4, <2>6
<1> QED BY <1>4, <1>5, <1>6, <1>7 DEF Stream!Producer

\* The handler's end of the stream.
LEMMA HandlerKeeps ==
  ASSUME StreamInv, Stream!Handler
  PROVE  StreamInv'
<1> USE DEF StreamInv
<1>1. ClusterCap \in Nat \ {0} /\ MaxChanges \in Nat
  BY InstanceBounds DEF Stream!StreamBounds
<1>2. Stream!Cap \in Nat /\ Stream!Cap' = Stream!Cap
  <2>1. demo' = demo
    BY DEF Stream!Handler, Stream!Receive, Stream!Heartbeat, Stream!Return, Stream!Written,
           Stream!NotWritten, Stream!Open, Stream!source
  <2> QED BY <1>1, <2>1 DEF Stream!Cap
<1>3. /\ {line, channel, taken, delivered, Told, Pending, line \o channel} \subseteq Seq(Update)
      /\ line \o channel \in Seq(Update)
      /\ producer # "sending" => Pending = <<>>
  BY SequencesOfUpdates
<1>4. Told = (delivered \o line) \o channel
  <2>1. delivered \in Seq(Update) /\ line \in Seq(Update) /\ channel \in Seq(Update) BY <1>3
  <2> QED BY <2>1, ConcatAssociative DEF Told
<1>5. CASE Stream!Receive
  <2>1. /\ handler = "loop" /\ channel # <<>> /\ handler' = "writing"
        /\ line' = <<Head(channel)>> /\ channel' = Tail(channel)
        /\ UNCHANGED <<demo, watcher, producer, item, changes, taken, delivered, client, late>>
    BY <1>5 DEF Stream!Receive, Stream!source
  <2>2. /\ Head(channel) \in Update /\ channel' \in Seq(Update)
        /\ Len(channel') = Len(channel) - 1
    BY <1>3, <2>1, HeadTailProperties
  <2>3. line' \in Seq(Update) /\ Len(line') = 1 BY <2>1, <2>2
  <2>4. ControlInv'
    <3>1. Len(channel') <= Stream!Cap
      BY <1>2, <1>3, <2>2, LenProperties DEF ControlInv, Stream!TypeOK
    <3>2. Stream!TypeOK'
      BY <1>2, <2>1, <2>2, <2>3, <3>1 DEF ControlInv, Stream!TypeOK, Update
    <3> QED BY <2>1, <3>2 DEF ControlInv
  <2>5. Told' = Told
    <3>1. line = <<>> /\ line \o channel = channel
      BY <1>3, <2>1, ConcatEmptySeq DEF ControlInv
    <3>2. <<Head(channel)>> \o Tail(channel) = channel
      <4>1. /\ 1 \in 1..Len(channel) /\ Len(channel) \in 1..Len(channel)
            /\ channel[1] = Head(channel)
        BY <1>3, <2>1, EmptySeq
      <4>2. SubSeq(channel, 1, Len(channel)) = <<channel[1]>> \o SubSeq(channel, 1 + 1, Len(channel))
        BY <1>3, <4>1, SubSeqRecursiveFirst
      <4>3. SubSeq(channel, 1, Len(channel)) = channel /\ Tail(channel) = SubSeq(channel, 2, Len(channel))
        BY <1>3, <2>1, SubSeqFull, TailIsSubSeq
      <4> QED BY <4>1, <4>2, <4>3
    <3> QED BY <2>1, <3>1, <3>2 DEF Told
  <2>6. Pending' = Pending BY <2>1 DEF Pending
  <2>7. StoryInv' BY <2>1, <2>5, <2>6 DEF StoryInv
  <2> QED BY <2>4, <2>7
<1>6. CASE Stream!Heartbeat \/ Stream!Return
  <2>1. /\ handler = "loop" /\ handler' \in {"writing", "returned"}
        /\ UNCHANGED <<demo, watcher, producer, item, changes, taken, channel, delivered, client,
                      late>>
    BY <1>6 DEF Stream!Heartbeat, Stream!Return, Stream!source
  <2>2. line = <<>> /\ line' = line
    BY <1>6 DEF Stream!Heartbeat, Stream!Return, ControlInv
  <2>3. client = "here" /\ handler' = "returned" => producer \in {"none", "ended"} /\ channel = <<>>
    BY <1>6, <2>1 DEF Stream!Heartbeat, Stream!Return, Stream!Cancelled
  <2>4. ControlInv'
    <3>1. Stream!TypeOK' BY <1>2, <2>1, <2>2 DEF ControlInv, Stream!TypeOK
    <3> QED BY <2>1, <2>2, <2>3, <3>1 DEF ControlInv
  <2>5. Pending' = Pending BY <2>1 DEF Pending
  <2> QED BY <2>1, <2>2, <2>4, <2>5, SameStory
<1>7. CASE Stream!Written
  <2>1. /\ handler = "writing" /\ client # "broken" /\ handler' = "loop" /\ line' = <<>>
        /\ delivered' = delivered \o line
        /\ UNCHANGED <<demo, watcher, producer, item, changes, taken, channel, client, late>>
    BY <1>7 DEF Stream!Written, Stream!source
  <2>2. delivered' \in Seq(Update) BY <1>3, <2>1, ConcatProperties
  <2>3. line' \in Seq(Update) /\ Len(line') = 0 BY <2>1, EmptySeq
  <2>4. ControlInv'
    <3>1. Stream!TypeOK' BY <1>2, <2>1, <2>2, <2>3 DEF ControlInv, Stream!TypeOK, Update
    <3> QED BY <2>1, <3>1 DEF ControlInv
  <2>5. Told' = Told
    <3>1. <<>> \o channel = channel BY <1>3, ConcatEmptySeq
    <3> QED BY <2>1, <1>4, <3>1 DEF Told
  <2>6. Pending' = Pending BY <2>1 DEF Pending
  <2>7. Stream!IsPrefix(delivered', taken)
    <3>1. Stream!IsPrefix(delivered' \o channel, taken) BY <1>4, <2>1 DEF StoryInv
    <3> QED BY <1>3, <2>2, <3>1, PrefixOfPrefix
  <2>8. StoryInv' BY <2>1, <2>5, <2>6, <2>7 DEF StoryInv
  <2> QED BY <2>4, <2>8
<1>8. CASE Stream!NotWritten
  <2>1. /\ handler = "writing" /\ handler' = "loop" /\ line' = <<>> /\ client' = "broken"
        /\ UNCHANGED <<demo, watcher, producer, item, changes, taken, channel, delivered, late>>
    BY <1>8 DEF Stream!NotWritten, Stream!source
  <2>2. line' \in Seq(Update) /\ Len(line') = 0 BY <2>1, EmptySeq
  <2>3. ControlInv'
    <3>1. Stream!TypeOK' BY <1>2, <2>1, <2>2 DEF ControlInv, Stream!TypeOK, Update
    <3> QED BY <2>1, <3>1 DEF ControlInv
  <2>4. StoryInv' BY <2>1 DEF StoryInv
  <2> QED BY <2>3, <2>4
<1>9. ASSUME NEW fails \in BOOLEAN, Stream!Open(fails) PROVE StreamInv'
  <2>1. /\ handler = "opening"
        /\ UNCHANGED <<demo, item, changes, taken, channel, line, delivered, client, late>>
        /\ \/ handler' = "returned" /\ UNCHANGED <<watcher, producer>>
           \/ handler' = "writing" /\ watcher' = "open" /\ producer' = "select"
    BY <1>9 DEF Stream!Open
  <2>2. producer = "none" /\ channel = <<>> BY <2>1 DEF ControlInv
  <2>3. ControlInv'
    <3>1. Stream!TypeOK' BY <1>2, <2>1, <2>2 DEF ControlInv, Stream!TypeOK
    <3> QED BY <2>1, <2>2, <3>1 DEF ControlInv
  <2>4. Pending' = Pending BY <2>1, <2>2 DEF Pending
  <2> QED BY <2>1, <2>2, <2>3, <2>4, SameStory
<1> QED BY <1>5, <1>6, <1>7, <1>8, <1>9 DEF Stream!Handler

LEMMA StepStream == StreamInv /\ [Stream!Next]_streamVars => StreamInv'
<1> SUFFICES ASSUME StreamInv, [Stream!Next]_streamVars PROVE StreamInv'
  OBVIOUS
<1>1. CASE Stream!ClientLeaves \/ Stream!DeadlinePasses \/ Stream!WatchCloses
           \/ UNCHANGED streamVars
  <2>1. /\ UNCHANGED <<demo, producer, channel, handler, item, line, changes, taken, delivered>>
        /\ client' = client \/ (client = "here" /\ client' = "left")
        /\ late' = late \/ late' = TRUE
        /\ watcher' = watcher \/ watcher' = "closed"
    BY <1>1 DEF Stream!ClientLeaves, Stream!DeadlinePasses, Stream!WatchCloses, streamVars,
                Stream!source, Stream!sink
  <2>2. Stream!Cap' = Stream!Cap BY <2>1 DEF Stream!Cap
  <2>3. ControlInv'
    <3>1. Stream!TypeOK' BY <2>1, <2>2 DEF StreamInv, ControlInv, Stream!TypeOK
    <3> QED BY <2>1, <3>1 DEF StreamInv, ControlInv
  <2>4. Pending' = Pending BY <2>1 DEF Pending
  <2>5. StoryInv' BY <2>1, <2>4, SameStory DEF StreamInv
  <2> QED BY <2>3, <2>5 DEF StreamInv
<1> QED BY <1>1, ProducerKeeps, HandlerKeeps DEF Stream!Next

LEMMA StreamTells == StreamInv => Stream!TypeOK /\ ToldInOrder
<1> SUFFICES ASSUME StreamInv PROVE Stream!TypeOK /\ ToldInOrder
  OBVIOUS
<1>1. /\ {line, channel, taken, delivered, Told, Pending, line \o channel} \subseteq Seq(Update)
      /\ line \o channel \in Seq(Update)
      /\ producer # "sending" => Pending = <<>>
  BY SequencesOfUpdates DEF StreamInv
<1>2. delivered \o Stream!Underway = Told \o Pending
  <2>1. Stream!Underway = (line \o channel) \o Pending
    BY DEF Stream!Underway, Pending
  <2>2. delivered \in Seq(Update) /\ line \o channel \in Seq(Update) /\ Pending \in Seq(Update)
    BY <1>1
  <2>3. (delivered \o (line \o channel)) \o Pending = delivered \o ((line \o channel) \o Pending)
    BY <2>2, ConcatAssociative
  <2> QED BY <2>1, <2>3, Zenon DEF Told
<1>3. client = "here" => taken = Told \o Pending
  BY DEF StreamInv, StoryInv
<1>4. client = "here" /\ handler = "returned" => delivered = taken
  <2> SUFFICES ASSUME client = "here", handler = "returned" PROVE delivered = taken
    OBVIOUS
  <2>1. line = <<>> /\ channel = <<>> /\ Pending = <<>>
    BY <1>1 DEF StreamInv, ControlInv
  <2>2. <<>> \o <<>> = <<>> /\ delivered \o <<>> = delivered
    BY <1>1, EmptySeq, ConcatEmptySeq
  <2> QED BY <1>3, <2>1, <2>2 DEF Told
<1>5. Stream!IsPrefix(delivered, taken) BY DEF StreamInv, StoryInv
<1> QED BY <1>2, <1>3, <1>4, <1>5
        DEF StreamInv, ControlInv, ToldInOrder, Stream!NothingLost, Stream!InOrder

-----------------------------------------------------------------------------
(* The investigations.                                                      *)

Sources == {"recovery", "diagnosis", "metric", "log", "timeline"}

Answers ==
  [code : {0, 200, 403, 404, 429}, mode : {"none", "evidence-only", "local-ai"},
   hypotheses : Seq(Investigations!Hypothesis),
   warnings : SUBSET {"simulated", "noLogs", "noMetrics", "noModel", "rejected"}]

\* What is not there is said not to be, and what is explained cites the packet.
SaysSo(c, d, warnings) ==
  /\ c.demo => "simulated" \in warnings
  /\ d["log"] = 0 => "noLogs" \in warnings
  /\ d["metric"] = 0 => "noMetrics" \in warnings

Cites(hypotheses, p) ==
  /\ Len(hypotheses) <= MaxHypotheses
  /\ \A h \in Investigations!Range(hypotheses) : h.cites # {} /\ h.cites \subseteq 1..Len(p)

\* A packet is made before it is explained and is not touched after; only an answer
\* with a packet explains something or says what is missing.
RecordOK(c, where, d, p, a) ==
  /\ p \in Seq(Sources) /\ Len(p) <= MaxEvidence
  /\ a \in Answers
  /\ where # "answered" => a.code = 0 /\ a.mode = "none"
  /\ where = "explain" \/ a.code = 200 => p = Investigations!evidencePacket(d)
  /\ a.code = 200 => SaysSo(c, d, a.warnings)
  /\ a.mode = "local-ai" => Cites(a.hypotheses, p)
  /\ a.mode = "evidence-only" => a.warnings \intersect {"noModel", "rejected"} # {}

RequestInv(r) == RecordOK(config, at[r], collected[r], packet[r], answer[r])

InvestigationInv ==
  /\ config \in [enabled : BOOLEAN, model : BOOLEAN, demo : BOOLEAN]
  /\ at \in [Investigator -> {"none", "collect", "enrich", "explain", "answered"}]
  /\ collected \in [Investigator -> [Sources -> Nat]]
  /\ DOMAIN packet = Investigator /\ DOMAIN answer = Investigator
  /\ Investigations!OneAtATime
  /\ \A r \in Investigator : RequestInv(r)

\* The items of a source are together, and of every source there are as many as its
\* limit takes: the limits together are within that of the packet.
LEMMA SourceNames == Investigations!Range(Investigations!Sources) = Sources
BY DEF Investigations!Range, Investigations!Sources, Sources

LEMMA CutIs ==
  ASSUME NEW d \in [Sources -> Nat], NEW s \in Sources
  PROVE  /\ Investigations!Cut(d, Limit, s) \in Seq(Sources)
         /\ Len(Investigations!Cut(d, Limit, s)) = Investigations!AtMost(d[s], Limit[s])
         /\ Investigations!AtMost(d[s], Limit[s]) \in Nat
         /\ Investigations!AtMost(d[s], Limit[s]) <= Limit[s]
         /\ \A i \in 1..Investigations!AtMost(d[s], Limit[s]) :
              Investigations!Cut(d, Limit, s)[i] = s
<1>1. Limit[s] \in Nat /\ d[s] \in Nat
  BY InstanceBounds, SourceNames DEF Investigations!InvestigationBounds
<1>2. /\ Investigations!AtMost(d[s], Limit[s]) \in Nat
      /\ Investigations!AtMost(d[s], Limit[s]) <= Limit[s]
  BY <1>1 DEF Investigations!AtMost
<1> DEFINE n == Investigations!AtMost(d[s], Limit[s])
<1> HIDE DEF n
<1>3. /\ [i \in 1..n |-> s] \in Seq(Sources) /\ Len([i \in 1..n |-> s]) = n
      /\ \A i \in 1..n : [j \in 1..n |-> s][i] = s
  BY <1>2 DEF n
<1> QED BY <1>2, <1>3 DEF n, Investigations!Cut

LEMMA AddingItems ==
  ASSUME NEW q \in Seq(Sources), NEW s \in Sources, NEW d \in [Sources -> Nat]
  PROVE  LET n == Investigations!AtMost(d[s], Limit[s])
             sum == q \o Investigations!Cut(d, Limit, s)
         IN  /\ sum \in Seq(Sources) /\ Len(sum) = Len(q) + n
             /\ \A i \in 1..Len(q) + n : sum[i] = IF i <= Len(q) THEN q[i] ELSE s
<1> DEFINE n == Investigations!AtMost(d[s], Limit[s])
           r == Investigations!Cut(d, Limit, s)
<1>1. r \in Seq(Sources) /\ Len(r) = n /\ n \in Nat /\ \A i \in 1..n : r[i] = s
  BY CutIs
<1>2. Len(q) \in Nat BY LenProperties
<1> HIDE DEF n, r
<1>3. /\ q \o r \in Seq(Sources) /\ Len(q \o r) = Len(q) + Len(r)
      /\ \A i \in 1..Len(q) + Len(r) : (q \o r)[i] = IF i <= Len(q) THEN q[i] ELSE r[i - Len(q)]
  BY <1>1, ConcatProperties
<1>4. \A i \in 1..Len(q) + n : ~(i <= Len(q)) => i - Len(q) \in 1..n BY <1>1, <1>2
<1>5. \A i \in 1..Len(q) + n : (q \o r)[i] = IF i <= Len(q) THEN q[i] ELSE s
  BY <1>1, <1>3, <1>4
<1> QED BY <1>1, <1>3, <1>5 DEF n, r

LEMMA PacketOf ==
  ASSUME NEW d \in [Sources -> Nat]
  PROVE  /\ Investigations!evidencePacket(d) \in Seq(Sources)
         /\ Len(Investigations!evidencePacket(d)) <= MaxEvidence
         /\ \A s \in Sources :
              Cardinality({n \in DOMAIN Investigations!evidencePacket(d) :
                            Investigations!evidencePacket(d)[n] = s})
                = Investigations!AtMost(d[s], Limit[s])
<1> DEFINE size(s) == Investigations!AtMost(d[s], Limit[s])
           cut(s) == Investigations!Cut(d, Limit, s)
           a == size("recovery") b == size("diagnosis") c == size("metric")
           e == size("log") f == size("timeline")
           one == cut("recovery")
           two == one \o cut("diagnosis")
           three == two \o cut("metric")
           four == three \o cut("log")
           all == four \o cut("timeline")
<1>1. \A s \in Sources : /\ cut(s) \in Seq(Sources) /\ Len(cut(s)) = size(s)
                         /\ size(s) \in Nat /\ size(s) <= Limit[s]
                         /\ \A i \in 1..size(s) : cut(s)[i] = s
  BY CutIs
<1>2. {"recovery", "diagnosis", "metric", "log", "timeline"} \subseteq Sources BY DEF Sources
<1>3. a \in Nat /\ b \in Nat /\ c \in Nat /\ e \in Nat /\ f \in Nat BY <1>1, <1>2
<1>4. /\ one \in Seq(Sources) /\ Len(one) = a
       /\ \A i \in 1..a : one[i] = "recovery"
  BY <1>1, <1>2 DEF size
<1>5. /\ two \in Seq(Sources) /\ Len(two) = a + b
      /\ \A i \in 1..a + b : two[i] = IF i <= a THEN one[i] ELSE "diagnosis"
  <2> HIDE DEF one
  <2>1. "diagnosis" \in Sources BY DEF Sources
  <2> QED BY <1>4, <2>1, AddingItems
<1>6. /\ three \in Seq(Sources) /\ Len(three) = a + b + c
      /\ \A i \in 1..a + b + c : three[i] = IF i <= a + b THEN two[i] ELSE "metric"
  <2> HIDE DEF two
  <2>1. "metric" \in Sources BY DEF Sources
  <2> QED BY <1>5, <2>1, AddingItems
<1>7. /\ four \in Seq(Sources) /\ Len(four) = a + b + c + e
      /\ \A i \in 1..a + b + c + e : four[i] = IF i <= a + b + c THEN three[i] ELSE "log"
  <2> HIDE DEF three
  <2>1. "log" \in Sources BY DEF Sources
  <2> QED BY <1>6, <2>1, AddingItems
<1>8. /\ all \in Seq(Sources) /\ Len(all) = a + b + c + e + f
      /\ \A i \in 1..a + b + c + e + f :
           all[i] = IF i <= a + b + c + e THEN four[i] ELSE "timeline"
  <2> HIDE DEF four
  <2>1. "timeline" \in Sources BY DEF Sources
  <2> QED BY <1>7, <2>1, AddingItems
<1>9. /\ a <= Limit["recovery"] /\ b <= Limit["diagnosis"] /\ c <= Limit["metric"]
       /\ e <= Limit["log"] /\ f <= Limit["timeline"]
  BY <1>1, <1>2
<1> HIDE DEF one, two, three, four, all, a, b, c, e, f, size, cut
<1>10. Len(all) \in Nat /\ Len(all) <= MaxEvidence /\ MaxEvidence \in Nat
  <2>1. \A s \in Sources : Limit[s] \in Nat
    BY InstanceBounds, SourceNames DEF Investigations!InvestigationBounds
  <2>2. Limit["recovery"] + Limit["diagnosis"] + Limit["metric"] + Limit["log"]
          + Limit["timeline"] <= MaxEvidence /\ MaxEvidence \in Nat
    BY InstanceBounds DEF Investigations!LimitsFit, Investigations!InvestigationBounds
  <2>3. /\ Limit["recovery"] \in Nat /\ Limit["diagnosis"] \in Nat /\ Limit["metric"] \in Nat
        /\ Limit["log"] \in Nat /\ Limit["timeline"] \in Nat
    BY <1>2, <2>1
  <2>4. a + b + c + e + f <= MaxEvidence /\ a + b + c + e + f \in Nat
    BY <1>3, <1>9, <2>2, <2>3
  <2> QED BY <1>8, <2>2, <2>4
<1>11. Investigations!evidencePacket(d) = all
  <2>1. Investigations!InTurn(d, Limit) = all
    BY DEF Investigations!InTurn, all, four, three, two, one, cut
  <2>2. Investigations!AtMost(Len(all), MaxEvidence) = Len(all)
    BY <1>10 DEF Investigations!AtMost
  <2>3. SubSeq(all, 1, Len(all)) = all BY <1>8, SubSeqFull
  <2> QED BY <2>1, <2>2, <2>3 DEF Investigations!evidencePacket, Investigations!FirstOf
<1>12. \A i \in DOMAIN all :
         all[i] = IF i <= a THEN "recovery" ELSE IF i <= a + b THEN "diagnosis"
                  ELSE IF i <= a + b + c THEN "metric"
                  ELSE IF i <= a + b + c + e THEN "log" ELSE "timeline"
  <2> SUFFICES ASSUME NEW i \in 1..a + b + c + e + f
               PROVE  all[i] = IF i <= a THEN "recovery" ELSE IF i <= a + b THEN "diagnosis"
                               ELSE IF i <= a + b + c THEN "metric"
                               ELSE IF i <= a + b + c + e THEN "log" ELSE "timeline"
    BY <1>8, LenProperties
  <2>1. i <= a + b + c + e => i \in 1..a + b + c + e BY <1>3
  <2>2. i <= a + b + c => i \in 1..a + b + c /\ i <= a + b + c + e BY <1>3
  <2>3. i <= a + b => i \in 1..a + b /\ i <= a + b + c BY <1>3
  <2>4. i <= a => i <= a + b BY <1>3
  <2>5. i <= a => i \in 1..a /\ i \in 1..a + b BY <1>3
  <2>6. all[i] = IF i <= a + b + c + e THEN four[i] ELSE "timeline" BY <1>8
  <2>7. i <= a + b + c + e => four[i] = IF i <= a + b + c THEN three[i] ELSE "log"
    BY <1>7, <2>1
  <2>8. i <= a + b + c => three[i] = IF i <= a + b THEN two[i] ELSE "metric"
    BY <1>6, <2>2
  <2>9. i <= a + b => two[i] = IF i <= a THEN one[i] ELSE "diagnosis"
    BY <1>5, <2>3
  <2>10. i <= a => one[i] = "recovery" BY <1>4, <2>5
  <2> QED BY <2>2, <2>3, <2>4, <2>6, <2>7, <2>8, <2>9, <2>10
<1>13. DOMAIN all = 1..a + b + c + e + f BY <1>8, LenProperties
<1> DEFINE of(s) == {n \in DOMAIN all : all[n] = s}
<1>14. /\ of("recovery") = 1..a /\ of("diagnosis") = a + 1..a + b
       /\ of("metric") = a + b + 1..a + b + c
       /\ of("log") = a + b + c + 1..a + b + c + e
       /\ of("timeline") = a + b + c + e + 1..a + b + c + e + f
  <2>1. of("recovery") = 1..a BY <1>3, <1>13, <1>12
  <2>2. of("diagnosis") = a + 1..a + b BY <1>3, <1>13, <1>12
  <2>3. of("metric") = a + b + 1..a + b + c BY <1>3, <1>13, <1>12
  <2>4. of("log") = a + b + c + 1..a + b + c + e BY <1>3, <1>13, <1>12
  <2>5. of("timeline") = a + b + c + e + 1..a + b + c + e + f BY <1>3, <1>13, <1>12
  <2> QED BY <2>1, <2>2, <2>3, <2>4, <2>5
<1>15. \A m, n \in Nat : Cardinality(m + 1..m + n) = n
  <2> SUFFICES ASSUME NEW m \in Nat, NEW n \in Nat PROVE Cardinality(m + 1..m + n) = n
    OBVIOUS
  <2>1. Cardinality(m + 1..m + n) = IF m + 1 > m + n THEN 0 ELSE m + n - (m + 1) + 1
    BY FS_Interval
  <2> QED BY <2>1
<1> HIDE DEF of
<1>16. /\ Cardinality(of("recovery")) = a /\ Cardinality(of("diagnosis")) = b
       /\ Cardinality(of("metric")) = c /\ Cardinality(of("log")) = e
       /\ Cardinality(of("timeline")) = f
  <2>1. Cardinality(of("recovery")) = a
    <3>1. 0 + 1..0 + a = 1..a BY <1>3
    <3>2. Cardinality(0 + 1..0 + a) = a BY <1>3, <1>15
    <3> QED BY <1>14, <3>1, <3>2
  <2>2. a + b \in Nat /\ a + b + c \in Nat /\ a + b + c + e \in Nat BY <1>3
  <2>3. /\ Cardinality(of("diagnosis")) = b /\ Cardinality(of("metric")) = c
        /\ Cardinality(of("log")) = e /\ Cardinality(of("timeline")) = f
    <3>1. /\ Cardinality(a + 1..a + b) = b /\ Cardinality(a + b + 1..a + b + c) = c
          /\ Cardinality(a + b + c + 1..a + b + c + e) = e
          /\ Cardinality(a + b + c + e + 1..a + b + c + e + f) = f
      BY <1>3, <1>15, <2>2
    <3> QED BY <1>14, <3>1
  <2> QED BY <2>1, <2>3
<1>17. \A s \in Sources : Cardinality(of(s)) = size(s)
  BY <1>16 DEF Sources, a, b, c, e, f
<1>18. \A s \in Sources : Cardinality({n \in DOMAIN all : all[n] = s})
                            = Investigations!AtMost(d[s], Limit[s])
  BY <1>17 DEF of, size
<1> QED BY <1>8, <1>10, <1>11, <1>18

\* A record of a request that has no packet to show.
LEMMA NoPacketYet ==
  ASSUME NEW c, NEW where \in {"none", "collect", "enrich", "answered"}, NEW d,
         NEW p \in Seq(Sources), Len(p) <= MaxEvidence,
         NEW a \in Answers, a.mode = "none", a.code # 200, where # "answered" => a.code = 0
  PROVE  RecordOK(c, where, d, p, a)
<1>1. a.mode # "local-ai" /\ a.mode # "evidence-only" /\ where # "explain" OBVIOUS
<1> QED BY <1>1, Zenon DEF RecordOK

LEMMA RecordFacts ==
  ASSUME NEW c, NEW where, NEW d, NEW p, NEW a, RecordOK(c, where, d, p, a)
  PROVE  /\ p \in Seq(Sources) /\ Len(p) <= MaxEvidence /\ a \in Answers
         /\ where # "answered" => a.code = 0 /\ a.mode = "none"
         /\ where = "explain" \/ a.code = 200 => p = Investigations!evidencePacket(d)
         /\ a.code = 200 => SaysSo(c, d, a.warnings)
         /\ a.mode = "local-ai" => Cites(a.hypotheses, p)
         /\ a.mode = "evidence-only" => a.warnings \intersect {"noModel", "rejected"} # {}
BY Zenon DEF RecordOK

LEMMA CodeIs ==
  ASSUME NEW n \in {0, 403, 404, 429}
  PROVE  /\ Investigations!Code(n) \in Answers
         /\ Investigations!Code(n).code = n /\ Investigations!Code(n).mode = "none"
<1>1. <<>> \in Seq(Investigations!Hypothesis) BY EmptySeq
<1> QED BY <1>1 DEF Answers, Investigations!Code

LEMMA InitInvestigations == Investigations!Init => InvestigationInv
<1> SUFFICES ASSUME Investigations!Init PROVE InvestigationInv
  OBVIOUS
<1>1. /\ config \in [enabled : BOOLEAN, model : BOOLEAN, demo : BOOLEAN] /\ slot = {}
      /\ at = [r \in Investigator |-> "none"] /\ packet = [r \in Investigator |-> <<>>]
      /\ answer = [r \in Investigator |-> Investigations!Code(0)]
      /\ collected = [r \in Investigator |-> Investigations!Nothing]
  BY DEF Investigations!Init
<1>2. Investigations!Nothing \in [Sources -> Nat]
  BY SourceNames DEF Investigations!Nothing
<1>3. ASSUME NEW r \in Investigator PROVE RequestInv(r)
  <2>1. <<>> \in Seq(Sources) /\ Len(<<>>) <= MaxEvidence
    BY EmptySeq, InstanceBounds DEF Investigations!InvestigationBounds
  <2>2. at[r] = "none" /\ packet[r] = <<>> /\ answer[r] = Investigations!Code(0) BY <1>1
  <2>3. /\ Investigations!Code(0) \in Answers
        /\ Investigations!Code(0).code = 0 /\ Investigations!Code(0).mode = "none"
    BY CodeIs
  <2>4. RecordOK(config, "none", collected[r], <<>>, Investigations!Code(0))
    <3>1. Investigations!Code(0).code # 200 BY <2>3
    <3> QED BY <2>1, <2>3, <3>1, NoPacketYet
  <2> QED BY <2>2, <2>4 DEF RequestInv
<1>4. Investigations!OneAtATime
  BY <1>1 DEF Investigations!OneAtATime, Investigations!Running
<1> QED BY <1>1, <1>2, <1>3, <1>4 DEF InvestigationInv

\* A step of one request leaves the others as they were.
LEMMA OthersKeep ==
  ASSUME InvestigationInv, NEW r \in Investigator, UNCHANGED config,
         \A q \in Investigator \ {r} :
           /\ at'[q] = at[q] /\ collected'[q] = collected[q]
           /\ packet'[q] = packet[q] /\ answer'[q] = answer[q]
  PROVE  \A q \in Investigator \ {r} : RequestInv(q)'
<1> SUFFICES ASSUME NEW q \in Investigator \ {r} PROVE RequestInv(q)'
  OBVIOUS
<1>1. RequestInv(q) BY DEF InvestigationInv
<1> QED BY <1>1 DEF RequestInv

\* The slot is taken by the first step of the handler and given back by the last.
LEMMA SlotKeeps ==
  ASSUME InvestigationInv, NEW r \in Investigator, NEW where,
         at' = [at EXCEPT ![r] = where],
         \/ where = "answered" /\ slot' = slot \ {r}
         \/ where \in {"collect", "enrich", "explain"} /\ r \in slot /\ slot' = slot
         \/ where \in {"collect", "enrich", "explain"} /\ slot = {} /\ slot' = {r}
  PROVE  Investigations!OneAtATime'
<1> DEFINE working == {"collect", "enrich", "explain"}
           run == {q \in Investigator : at[q] \in working}
           run2 == {q \in Investigator : at'[q] \in working}
<1>1. slot = run /\ \A q, t \in run : q = t
  BY DEF InvestigationInv, Investigations!OneAtATime, Investigations!Running
<1>2. \A q \in Investigator : at'[q] = IF q = r THEN where ELSE at[q]
  BY DEF InvestigationInv
<1>3. run2 = IF where \in working THEN run \union {r} ELSE run \ {r}
  BY <1>2
<1>4. "answered" \notin working OBVIOUS
<1> HIDE DEF run, run2, working
<1>5. slot' = run2 /\ \A q, t \in run2 : q = t
  BY <1>1, <1>3, <1>4 DEF working
<1> QED BY <1>5 DEF Investigations!OneAtATime, Investigations!Running, run2, working

\* The last step of a request.
LEMMA AnswerKeeps ==
  ASSUME InvestigationInv, NEW r \in Investigator, NEW response,
         Investigations!Answer(r, response), UNCHANGED config,
         collected' \in [Investigator -> [Sources -> Nat]], DOMAIN packet' = Investigator,
         \A q \in Investigator \ {r} : collected'[q] = collected[q] /\ packet'[q] = packet[q],
         RecordOK(config, "answered", collected'[r], packet'[r], response)
  PROVE  InvestigationInv'
<1>1. /\ at' = [at EXCEPT ![r] = "answered"] /\ answer' = [answer EXCEPT ![r] = response]
      /\ slot' = slot \ {r}
  BY DEF Investigations!Answer, Investigations!Goto
<1>2. /\ at'[r] = "answered" /\ answer'[r] = response /\ DOMAIN answer' = Investigator
      /\ \A q \in Investigator \ {r} : at'[q] = at[q] /\ answer'[q] = answer[q]
      /\ at' \in [Investigator -> {"none", "collect", "enrich", "explain", "answered"}]
  BY <1>1 DEF InvestigationInv
<1>3. RequestInv(r)' BY <1>2 DEF RequestInv
<1>4. \A q \in Investigator \ {r} : RequestInv(q)' BY <1>2, OthersKeep
<1>5. Investigations!OneAtATime' BY <1>1, SlotKeeps
<1> QED BY <1>2, <1>3, <1>4, <1>5 DEF InvestigationInv

\* An answer without a packet.
LEMMA CodeKeeps ==
  ASSUME InvestigationInv, NEW r \in Investigator, NEW n \in {403, 404, 429},
         Investigations!Answer(r, Investigations!Code(n)), UNCHANGED <<config, collected, packet>>
  PROVE  InvestigationInv'
<1>1. packet[r] \in Seq(Sources) /\ Len(packet[r]) <= MaxEvidence
  <2>1. RequestInv(r) BY DEF InvestigationInv
  <2> QED BY <2>1, RecordFacts DEF RequestInv
<1>2. /\ Investigations!Code(n) \in Answers
      /\ Investigations!Code(n).code = n /\ Investigations!Code(n).mode = "none"
  BY CodeIs
<1>3. n # 200 OBVIOUS
<1>4. RecordOK(config, "answered", collected[r], packet[r], Investigations!Code(n))
  BY <1>1, <1>2, <1>3, NoPacketYet
<1>5. collected' \in [Investigator -> [Sources -> Nat]] /\ DOMAIN packet' = Investigator
  BY DEF InvestigationInv
<1> QED BY <1>4, <1>5, AnswerKeeps

\* A step to the next call.
LEMMA GoesOn ==
  ASSUME InvestigationInv, NEW r \in Investigator, NEW where \in {"collect", "enrich", "explain"},
         Investigations!Goto(r, where), UNCHANGED <<config, answer>>, at[r] # "answered",
         \/ r \in slot /\ slot' = slot
         \/ slot = {} /\ slot' = {r},
         collected' \in [Investigator -> [Sources -> Nat]], DOMAIN packet' = Investigator,
         \A q \in Investigator \ {r} : collected'[q] = collected[q] /\ packet'[q] = packet[q],
         packet'[r] \in Seq(Sources), Len(packet'[r]) <= MaxEvidence,
         where = "explain" => packet'[r] = Investigations!evidencePacket(collected'[r])
  PROVE  InvestigationInv'
<1>1. at' = [at EXCEPT ![r] = where] BY DEF Investigations!Goto
<1>2. /\ at'[r] = where /\ \A q \in Investigator \ {r} : at'[q] = at[q]
      /\ at' \in [Investigator -> {"none", "collect", "enrich", "explain", "answered"}]
  BY <1>1 DEF InvestigationInv
<1>3. answer[r] \in Answers /\ answer[r].code = 0 /\ answer[r].mode = "none"
  <2>1. RequestInv(r) BY DEF InvestigationInv
  <2> QED BY <2>1, RecordFacts DEF RequestInv
<1>4. RequestInv(r)'
  <2>1. RecordOK(config, where, collected'[r], packet'[r], answer[r])
    <3>1. answer[r].code # 200 /\ answer[r].mode # "local-ai" /\ answer[r].mode # "evidence-only"
      BY <1>3
    <3> QED BY <1>3, <3>1, Zenon DEF RecordOK
  <2> QED BY <1>2, <2>1 DEF RequestInv
<1>5. \A q \in Investigator \ {r} : RequestInv(q)' BY <1>2, OthersKeep
<1>6. Investigations!OneAtATime' BY <1>1, SlotKeeps
<1>7. DOMAIN answer' = Investigator BY DEF InvestigationInv
<1> QED BY <1>2, <1>4, <1>5, <1>6, <1>7 DEF InvestigationInv

\* What the answers of a request with a packet say.
LEMMA EvidenceOnlyIs ==
  ASSUME NEW r, NEW d, NEW p \in Seq(Sources), Len(p) <= MaxEvidence,
         p = Investigations!evidencePacket(d), NEW why \in {"noModel", "rejected"}
  PROVE  RecordOK(config, "answered", d, p,
           Investigations!EvidenceOnly(r, Investigations!Warnings(d) \union {why}))
<1> DEFINE warnings == Investigations!Warnings(d) \union {why}
           a == Investigations!EvidenceOnly(r, warnings)
<1>1. a.mode = "evidence-only" /\ a.warnings = warnings /\ a.mode # "local-ai"
  BY DEF Investigations!EvidenceOnly
<1>2. a \in Answers
  <2>1. <<>> \in Seq(Investigations!Hypothesis) BY EmptySeq
  <2>2. warnings \in SUBSET {"simulated", "noLogs", "noMetrics", "noModel", "rejected"}
    BY DEF Investigations!Warnings
  <2> HIDE DEF warnings
  <2> QED BY <2>1, <2>2 DEF Answers, Investigations!EvidenceOnly
<1>3. SaysSo(config, d, warnings) BY DEF SaysSo, Investigations!Warnings
<1>4. warnings \intersect {"noModel", "rejected"} # {} OBVIOUS
<1> HIDE DEF a, warnings
<1>5. RecordOK(config, "answered", d, p, a)
  BY <1>1, <1>2, <1>3, <1>4, Zenon DEF RecordOK
<1> QED BY <1>5 DEF a, warnings

LEMMA ExplainedIs ==
  ASSUME NEW d, NEW p \in Seq(Sources), Len(p) <= MaxEvidence,
         p = Investigations!evidencePacket(d), NEW output \in Output,
         Investigations!Explained(output, p)
  PROVE  RecordOK(config, "answered", d, p,
           [code |-> 200, mode |-> "local-ai", hypotheses |-> output.hypotheses,
            warnings |-> Investigations!Warnings(d)])
<1> DEFINE warnings == Investigations!Warnings(d)
           a == [code |-> 200, mode |-> "local-ai", hypotheses |-> output.hypotheses,
                 warnings |-> warnings]
<1>1. a.mode = "local-ai" /\ a.warnings = warnings /\ a.mode # "evidence-only"
      /\ a.hypotheses = output.hypotheses
  OBVIOUS
<1>2. a \in Answers
  <2>1. output.hypotheses \in Seq(Investigations!Hypothesis)
    BY InstanceBounds DEF Investigations!InvestigationBounds
  <2>2. warnings \in SUBSET {"simulated", "noLogs", "noMetrics", "noModel", "rejected"}
    BY DEF Investigations!Warnings
  <2> HIDE DEF warnings
  <2> QED BY <2>1, <2>2 DEF Answers
<1>3. SaysSo(config, d, warnings) BY DEF SaysSo, Investigations!Warnings
<1>4. Cites(output.hypotheses, p) BY DEF Cites, Investigations!Explained
<1> HIDE DEF a, warnings
<1>5. RecordOK(config, "answered", d, p, a)
  BY <1>1, <1>2, <1>3, <1>4, Zenon DEF RecordOK
<1> QED BY <1>5 DEF a, warnings

LEMMA StepInvestigations ==
  InvestigationInv /\ [Investigations!Next]_investigationVars => InvestigationInv'
<1> SUFFICES ASSUME InvestigationInv, [Investigations!Next]_investigationVars
             PROVE  InvestigationInv'
  OBVIOUS
<1>1. CASE UNCHANGED investigationVars
  <2>1. UNCHANGED <<config, slot, at, collected, packet, answer>> BY <1>1 DEF investigationVars
  <2>2. \A r \in Investigator : RequestInv(r)' BY <2>1 DEF InvestigationInv, RequestInv
  <2>3. Investigations!OneAtATime'
    BY <2>1 DEF InvestigationInv, Investigations!OneAtATime, Investigations!Running
  <2> QED BY <2>1, <2>2, <2>3 DEF InvestigationInv
<1>2. ASSUME NEW r \in Investigator, Investigations!Refuse(r) PROVE InvestigationInv'
  <2>1. UNCHANGED <<config, collected, packet>> BY <1>2 DEF Investigations!Refuse
  <2>2. CASE config.enabled
    <3>1. Investigations!Answer(r, Investigations!Code(403)) BY <1>2, <2>2 DEF Investigations!Refuse
    <3> QED BY <2>1, <3>1, CodeKeeps
  <2>3. CASE ~config.enabled
    <3>1. Investigations!Answer(r, Investigations!Code(404)) BY <1>2, <2>3 DEF Investigations!Refuse
    <3> QED BY <2>1, <3>1, CodeKeeps
  <2> QED BY <2>2, <2>3
<1>3. ASSUME NEW r \in Investigator PROVE RequestInv(r) /\ collected[r] \in [Sources -> Nat]
  BY DEF InvestigationInv
<1>4. ASSUME NEW r \in Investigator
      PROVE  packet[r] \in Seq(Sources) /\ Len(packet[r]) <= MaxEvidence
  BY <1>3, RecordFacts DEF RequestInv
<1>5. \A r \in Investigator : at[r] \in {"collect", "enrich", "explain"} => r \in slot
  BY DEF InvestigationInv, Investigations!OneAtATime, Investigations!Running
<1>6. collected \in [Investigator -> [Sources -> Nat]] /\ DOMAIN packet = Investigator
  BY DEF InvestigationInv
<1>7. ASSUME NEW r \in Investigator, Investigations!Start(r) PROVE InvestigationInv'
  <2>1. UNCHANGED <<config, collected, packet>> /\ at[r] = "none"
    BY <1>7 DEF Investigations!Start
  <2>2. CASE slot = {}
    <3>1. Investigations!Goto(r, "collect") /\ slot' = {r} /\ UNCHANGED answer
      BY <1>7, <2>2 DEF Investigations!Start
    <3> QED BY <1>4, <1>6, <2>1, <2>2, <3>1, GoesOn
  <2>3. CASE slot # {}
    <3>1. Investigations!Answer(r, Investigations!Code(429)) BY <1>7, <2>3 DEF Investigations!Start
    <3> QED BY <2>1, <3>1, CodeKeeps
  <2> QED BY <2>2, <2>3
<1>8. ASSUME NEW r \in Investigator, Investigations!NotCollected(r) PROVE InvestigationInv'
  BY <1>8, CodeKeeps DEF Investigations!NotCollected
<1>9. ASSUME NEW r \in Investigator, Investigations!Collected(r) PROVE InvestigationInv'
  <2>1. /\ at[r] = "collect" /\ Investigations!Goto(r, "enrich")
        /\ UNCHANGED <<config, slot, packet, answer>>
    BY <1>9 DEF Investigations!Collected
  <2>2. PICK recovery \in Found["recovery"], diagnoses \in Found["diagnosis"],
             events \in Found["timeline"] :
          collected' = [collected EXCEPT ![r] = [Investigations!Nothing EXCEPT
            !["recovery"] = recovery, !["diagnosis"] = diagnoses, !["timeline"] = events]]
    BY <1>9 DEF Investigations!Collected
  <2> DEFINE d == [Investigations!Nothing EXCEPT
            !["recovery"] = recovery, !["diagnosis"] = diagnoses, !["timeline"] = events]
  <2>3. d \in [Sources -> Nat]
    <3>1. recovery \in Nat /\ diagnoses \in Nat /\ events \in Nat
      <4>1. /\ Found["recovery"] \subseteq Nat /\ Found["diagnosis"] \subseteq Nat
            /\ Found["timeline"] \subseteq Nat
        BY InstanceBounds, SourceNames DEF Investigations!InvestigationBounds, Sources
      <4> QED BY <4>1
    <3>2. Investigations!Nothing \in [Sources -> Nat]
      BY SourceNames DEF Investigations!Nothing
    <3> QED BY <3>1, <3>2
  <2> HIDE DEF d
  <2>4. /\ collected' \in [Investigator -> [Sources -> Nat]]
        /\ \A q \in Investigator \ {r} : collected'[q] = collected[q]
    BY <1>6, <2>2, <2>3 DEF d
  <2> QED BY <1>4, <1>5, <1>6, <2>1, <2>4, GoesOn
<1>10. ASSUME NEW r \in Investigator, Investigations!Enrich(r) PROVE InvestigationInv'
  <2>1. /\ at[r] = "enrich" /\ UNCHANGED config
        /\ packet' = [packet EXCEPT ![r] = Investigations!evidencePacket(collected'[r])]
    BY <1>10 DEF Investigations!Enrich
  <2>2. PICK logs \in Found["log"], metrics \in Found["metric"] :
          collected' = [collected EXCEPT ![r]["log"] = logs, ![r]["metric"] = metrics,
                                         ![r]["timeline"] = @ + metrics]
    BY <1>10 DEF Investigations!Enrich
  <2>3. /\ collected' \in [Investigator -> [Sources -> Nat]]
        /\ \A q \in Investigator \ {r} : collected'[q] = collected[q]
    <3>1. logs \in Nat /\ metrics \in Nat
      <4>1. Found["log"] \subseteq Nat /\ Found["metric"] \subseteq Nat
        BY InstanceBounds, SourceNames DEF Investigations!InvestigationBounds, Sources
      <4> QED BY <4>1
    <3>2. "log" \in Sources /\ "metric" \in Sources /\ "timeline" \in Sources BY DEF Sources
    <3> QED BY <1>6, <2>2, <3>1, <3>2
  <2>4. collected'[r] \in [Sources -> Nat] BY <2>3
  <2>5. /\ DOMAIN packet' = Investigator
        /\ packet'[r] = Investigations!evidencePacket(collected'[r])
        /\ \A q \in Investigator \ {r} : packet'[q] = packet[q]
    BY <1>6, <2>1
  <2>6. packet'[r] \in Seq(Sources) /\ Len(packet'[r]) <= MaxEvidence
    BY <2>4, <2>5, PacketOf
  <2>7. CASE config.model
    <3>1. Investigations!Goto(r, "explain") /\ UNCHANGED <<slot, answer>>
      BY <1>10, <2>7 DEF Investigations!Enrich
    <3> QED BY <1>5, <2>1, <2>3, <2>5, <2>6, <3>1, GoesOn
  <2>8. CASE ~config.model
    <3> DEFINE warnings == Investigations!Warnings(collected'[r]) \union {"noModel"}
               response == Investigations!EvidenceOnly(r, warnings)
    <3>1. Investigations!Answer(r, response)
      BY <1>10, <2>8 DEF Investigations!Enrich
    <3>2. RecordOK(config, "answered", collected'[r], packet'[r], response)
      BY <2>5, <2>6, EvidenceOnlyIs
    <3> QED BY <2>1, <2>3, <2>5, <3>1, <3>2, AnswerKeeps
  <2> QED BY <2>7, <2>8
<1>11. ASSUME NEW r \in Investigator, Investigations!Explain(r) PROVE InvestigationInv'
  <2>1. at[r] = "explain" /\ UNCHANGED <<config, collected, packet>>
    BY <1>11 DEF Investigations!Explain
  <2>2. PICK output \in Output :
          Investigations!Answer(r,
            IF Investigations!Explained(output, packet[r])
              THEN [code |-> 200, mode |-> "local-ai", hypotheses |-> output.hypotheses,
                    warnings |-> Investigations!Warnings(collected[r])]
              ELSE Investigations!EvidenceOnly(r,
                     Investigations!Warnings(collected[r]) \union {"rejected"}))
    BY <1>11 DEF Investigations!Explain
  <2>3. packet[r] = Investigations!evidencePacket(collected[r])
    BY <1>3, <2>1, RecordFacts DEF RequestInv
  <2>4. CASE Investigations!Explained(output, packet[r])
    <3> DEFINE response == [code |-> 200, mode |-> "local-ai", hypotheses |-> output.hypotheses,
                            warnings |-> Investigations!Warnings(collected[r])]
    <3>1. Investigations!Answer(r, response) BY <2>2, <2>4
    <3>2. RecordOK(config, "answered", collected[r], packet[r], response)
      BY <1>4, <2>3, <2>4, ExplainedIs
    <3> QED BY <1>6, <2>1, <3>1, <3>2, AnswerKeeps
  <2>5. CASE ~Investigations!Explained(output, packet[r])
    <3> DEFINE warnings == Investigations!Warnings(collected[r]) \union {"rejected"}
               response == Investigations!EvidenceOnly(r, warnings)
    <3>1. Investigations!Answer(r, response) BY <2>2, <2>5
    <3>2. RecordOK(config, "answered", collected[r], packet[r], response)
      BY <1>4, <2>3, EvidenceOnlyIs
    <3> QED BY <1>6, <2>1, <3>1, <3>2, AnswerKeeps
  <2> QED BY <2>4, <2>5
<1> QED BY <1>1, <1>2, <1>7, <1>8, <1>9, <1>10, <1>11 DEF Investigations!Next

LEMMA InvestigationTypes == InvestigationInv => Investigations!TypeOK
<1> SUFFICES ASSUME InvestigationInv PROVE Investigations!TypeOK
  OBVIOUS
<1>1. slot \subseteq Investigator
  BY DEF InvestigationInv, Investigations!OneAtATime, Investigations!Running
<1>2. ASSUME NEW r \in Investigator
      PROVE  /\ packet[r] \in Seq(Sources) /\ Len(packet[r]) <= MaxEvidence
             /\ answer[r].code \in {0, 200, 403, 404, 429}
             /\ answer[r].hypotheses \in Seq(Investigations!Hypothesis)
  <2>1. RequestInv(r) BY DEF InvestigationInv
  <2>2. /\ packet[r] \in Seq(Sources) /\ Len(packet[r]) <= MaxEvidence
        /\ answer[r] \in Answers
    BY <2>1, RecordFacts DEF RequestInv
  <2> QED BY <2>2 DEF Answers
<1> QED BY <1>1, <1>2, SourceNames DEF InvestigationInv, Investigations!TypeOK

\* A packet has an item of every source that was found: the limits of logs and metrics
\* are not zero.
LEMMA FoundIsShown ==
  ASSUME NEW d \in [Sources -> Nat], NEW s \in {"log", "metric"},
         s \notin Investigations!Range(Investigations!evidencePacket(d))
  PROVE  d[s] = 0
<1> DEFINE p == Investigations!evidencePacket(d)
           of == {n \in DOMAIN p : p[n] = s}
<1>1. s \in Sources BY DEF Sources
<1>2. Cardinality(of) = Investigations!AtMost(d[s], Limit[s]) BY <1>1, PacketOf
<1>3. of = {} BY DEF Investigations!Range
<1>4. Investigations!AtMost(d[s], Limit[s]) = 0 BY <1>2, <1>3, FS_EmptySet
<1>5. d[s] \in Nat /\ Limit[s] \in Nat /\ Limit[s] > 0
  BY <1>1, InstanceBounds, SourceNames
     DEF Investigations!LimitsFit, Investigations!InvestigationBounds
<1> QED BY <1>4, <1>5 DEF Investigations!AtMost

LEMMA InvestigationsTell == InvestigationInv => InvestigationsAreHonest
<1> SUFFICES ASSUME InvestigationInv PROVE InvestigationsAreHonest
  OBVIOUS
<1>1. ASSUME NEW r \in Investigator
      PROVE  /\ collected[r] \in [Sources -> Nat]
             /\ answer[r].code = 200 =>
                  packet[r] = Investigations!evidencePacket(collected[r])
             /\ answer[r].code = 200 => SaysSo(config, collected[r], answer[r].warnings)
             /\ answer[r].mode = "local-ai" => Cites(answer[r].hypotheses, packet[r])
             /\ answer[r].mode = "evidence-only" =>
                  answer[r].warnings \intersect {"noModel", "rejected"} # {}
  <2>1. RequestInv(r) /\ collected[r] \in [Sources -> Nat] BY DEF InvestigationInv
  <2> QED BY <2>1, RecordFacts DEF RequestInv
<1>2. Investigations!ExplanationsAreCited
  BY <1>1 DEF Cites, Investigations!ExplanationsAreCited
<1>3. Investigations!NothingIsCrowdedOut
  <2> SUFFICES ASSUME NEW r \in Investigator, answer[r].code = 200, NEW s \in Sources
               PROVE  Cardinality({n \in DOMAIN packet[r] : packet[r][n] = s})
                        = Investigations!AtMost(collected[r][s], Limit[s])
    <3>1. \A S : Investigations!Cardinality(S) = Cardinality(S)
      BY DEF Investigations!Cardinality, Cardinality
    <3> QED BY <3>1, SourceNames DEF Investigations!NothingIsCrowdedOut
  <2> QED BY <1>1, PacketOf
<1>4. Investigations!AbsenceIsExplained
  <2> SUFFICES ASSUME NEW r \in Investigator, answer[r].code = 200
               PROVE  /\ answer[r].mode = "evidence-only" =>
                           answer[r].warnings \intersect {"noModel", "rejected"} # {}
                      /\ "log" \notin Investigations!Range(packet[r]) =>
                           "noLogs" \in answer[r].warnings
                      /\ "metric" \notin Investigations!Range(packet[r]) =>
                           "noMetrics" \in answer[r].warnings
                      /\ config.demo => "simulated" \in answer[r].warnings
    BY DEF Investigations!AbsenceIsExplained
  <2>1. \A s \in {"log", "metric"} :
          s \notin Investigations!Range(packet[r]) => collected[r][s] = 0
    BY <1>1, FoundIsShown
  <2>2. SaysSo(config, collected[r], answer[r].warnings) BY <1>1
  <2> QED BY <1>1, <2>1, <2>2 DEF SaysSo
<1> QED BY <1>2, <1>3, <1>4 DEF InvestigationInv, InvestigationsAreHonest

-----------------------------------------------------------------------------
(* The console.  A step of one component leaves the variables of the others  *)
(* as they are, so that their invariants hold together.                      *)

AllInv == ConsoleInv /\ RefreshInv /\ StreamInv /\ InvestigationInv

LEMMA InitAll == AllInit => AllInv
BY InitConsole, InitRefresh, InitStream, InitInvestigations DEF AllInit, AllInv

LEMMA StepAll == AllInv /\ [AllNext]_allVars => AllInv'
<1> SUFFICES ASSUME AllInv, [AllNext]_allVars PROVE AllInv'
  OBVIOUS
<1>1. /\ [Next]_vars /\ [Refresh!Next]_refreshVars /\ [Stream!Next]_streamVars
      /\ [Investigations!Next]_investigationVars
  <2>1. CASE UNCHANGED allVars BY <2>1 DEF allVars
  <2>2. CASE AllNext
    BY <2>2 DEF AllNext, PanelActs, RefreshActs, StreamActs, InvestigationsAct
  <2> QED BY <2>1, <2>2
<1> QED BY <1>1, StepConsole, StepRefresh, StepStream, StepInvestigations DEF AllInv

LEMMA AllInvariant == AllSpec => []AllInv
BY InitAll, StepAll, PTL DEF AllSpec

\* Whatever the drawer, the refreshes, a stream and the investigations do and in
\* whatever order: what is connected was answered, and buffers, packets and answers
\* are within their limits.
THEOREM AllTypes == AllSpec => []Types
<1>1. AllInv => Types
  BY TypesFollow, RefreshTypes, StreamTells, InvestigationTypes DEF AllInv, Types
<1> QED BY <1>1, AllInvariant, PTL

\* A client that is there is told every update, in order, before its stream ends.
THEOREM StreamsTell == AllSpec => []ToldInOrder
<1>1. AllInv => ToldInOrder BY StreamTells DEF AllInv
<1> QED BY <1>1, AllInvariant, PTL

\* There is one investigation at a time; what it explains is cited from its packet,
\* which has of every source what there is up to its limit, and what is missing is
\* said to be missing.
THEOREM HonestInvestigations == AllSpec => []InvestigationsAreHonest
<1>1. AllInv => InvestigationsAreHonest BY InvestigationsTell DEF AllInv
<1> QED BY <1>1, AllInvariant, PTL
=============================================================================
