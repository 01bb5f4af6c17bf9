----------------------------- MODULE ConsolePanel -----------------------------
(***************************************************************************)
(* The workload drawer of the web console and the operations panel in it   *)
(* (WorkloadsPage, WorkloadDrawer and OperationsPanel in web/src/main.tsx, *)
(* IncidentResponse in web/src/incident-response.tsx).                     *)
(*                                                                         *)
(* Every answer arrives on its own, in any order, and finds whatever the   *)
(* user has opened, closed and typed since the question: the state of a    *)
(* component is gone when it is no longer rendered, that of the page       *)
(* around the drawer stays.  The API's part, which ties an execution to    *)
(* the plan it names, is GuardedOperations.                                *)
(***************************************************************************)
EXTENDS Naturals

CONSTANTS
  Workload,   \* Deployments of the inventory
  Draft,      \* what can be filled in: action, count and reason
  None,       \* no workload, no draft
  MaxOpens,   \* bound on how often a workload is opened
  MaxPosts    \* bound on the reviews and executions asked for

ASSUME PanelBounds ==
  MaxOpens \in Nat /\ MaxPosts \in Nat /\ None \notin Workload \union Draft

VARIABLES
  selected,  \* the workload the drawer is about, None when it is closed
  detail,    \* the workload whose detail the drawer, or a page without one, holds
  error,     \* a request for a detail has failed
  loads,     \* [1..MaxOpens -> the workload asked for, None when answered]
  opens,     \* how often a workload was opened: the number of the drawer
  looks,     \* drawers in which "Check recovery" or "Load logs & metrics" is awaited
  form,      \* the draft in the panel
  plan,      \* the plan the panel shows, 0 for none
  receipt,   \* the panel shows the receipt of an execution
  busy,      \* its buttons are disabled
  panel,     \* number of the panel: a new one has none of the old one's state
  posts,     \* requests of a panel that are not answered
  sent,      \* how many there were
  plans,     \* [1..MaxPosts -> the request the API planned under this ID]
  spent,     \* plans that were executed
  effects    \* history: what took effect, with what the panel showed at the click

page == <<selected, detail, error, loads, opens, looks>>
fields == <<form, plan, receipt, busy, panel>>
api == <<plans, spent, effects>>
vars == <<page, fields, posts, sent, api>>

-----------------------------------------------------------------------------
NoRequest == [target |-> None, draft |-> None]

Init ==
  /\ selected = None /\ detail = None /\ error = FALSE
  /\ loads = [n \in 1..MaxOpens |-> None] /\ opens = 0 /\ looks = {}
  /\ form = None /\ plan = 0 /\ receipt = FALSE /\ busy = FALSE /\ panel = 0
  /\ posts = {} /\ sent = 0
  /\ plans = [n \in 1..MaxPosts |-> NoRequest] /\ spent = {} /\ effects = {}

\* The panel is rendered with the detail, when there is one and no error.
Shown(s, d, e) == s # None /\ d # None /\ ~e

Mounted == Shown(selected, detail, error)

\* A panel that is rendered again is another one, with nothing filled in.
Rendered ==
  IF Shown(selected', detail', error') /\ ~Mounted
    THEN /\ panel' = panel + 1
         /\ form' = None /\ plan' = 0 /\ receipt' = FALSE /\ busy' = FALSE
    ELSE UNCHANGED fields

-----------------------------------------------------------------------------
(* The drawer.                                                              *)

Open(w) ==
  /\ selected = None /\ opens < MaxOpens
  /\ opens' = opens + 1 /\ loads' = [loads EXCEPT ![opens'] = w]
  /\ selected' = w /\ detail' = None /\ error' = FALSE
  /\ UNCHANGED <<looks, fields, posts, sent, api>>

Close ==
  /\ selected # None
  /\ selected' = None /\ detail' = None
  /\ UNCHANGED <<error, loads, opens, looks, fields, posts, sent, api>>

\* The answer to a request is shown, whatever was opened in the meantime.
Loaded(n) ==
  /\ loads[n] # None /\ loads' = [loads EXCEPT ![n] = None]
  /\ \/ detail' = loads[n] /\ UNCHANGED error
     \/ error' = TRUE /\ UNCHANGED detail
  /\ UNCHANGED <<selected, opens, looks, posts, sent, api>>
  /\ Rendered

\* The evidence in the drawer is asked for again, one request at a time.
Look ==
  /\ Mounted /\ opens \notin looks
  /\ looks' = looks \union {opens}
  /\ UNCHANGED <<selected, detail, error, loads, opens, fields, posts, sent, api>>

\* The answer is about the workload the drawer was opened for.  It replaces the detail,
\* under the panel as it is, if the drawer is still there; a failure changes nothing.
Looked(n) ==
  /\ n \in looks /\ looks' = looks \ {n}
  /\ \/ n = opens /\ selected # None /\ detail' = selected
     \/ UNCHANGED detail
  /\ UNCHANGED <<selected, error, loads, opens, fields, posts, sent, api>>

-----------------------------------------------------------------------------
(* The operations panel.                                                    *)

Request == [target |-> detail, draft |-> form]

\* An action is chosen, or a field is changed; also while a review is under way.
Edit(d) ==
  /\ Mounted
  /\ form' = d /\ plan' = 0 /\ receipt' = FALSE
  /\ UNCHANGED <<busy, panel, page, posts, sent, api>>

\* Nothing asked for is given up.
Cancel ==
  /\ Mounted /\ ~receipt
  /\ form' = None /\ plan' = 0
  /\ UNCHANGED <<receipt, busy, panel, page, posts, sent, api>>

\* The buttons stay enabled.
MutPost(p) ==
  /\ sent < MaxPosts /\ sent' = sent + 1 /\ busy' = TRUE
  /\ posts' = posts \union {[id |-> sent', panel |-> panel, plan |-> p,
                             request |-> Request, step |-> "asked"]}
  /\ UNCHANGED <<form, receipt, panel, page, api>>

Post(p) ==
  /\ ~busy /\ busy' = TRUE
  /\ sent < MaxPosts /\ sent' = sent + 1
  /\ posts' = posts \union {[id |-> sent', panel |-> panel, plan |-> p,
                             request |-> Request, step |-> "asked"]}
  /\ UNCHANGED <<form, receipt, panel, page, api>>

Review ==
  /\ Mounted /\ form # None /\ plan = 0 /\ ~receipt
  /\ Post(0) /\ plan' = 0

Execute ==
  /\ Mounted /\ form # None /\ plan # 0 /\ ~receipt
  /\ Post(plan) /\ UNCHANGED plan

-----------------------------------------------------------------------------
(* The API, and its answers.                                                *)

\* The plan is looked up, not compared.
MutAccepted(q) == q.plan \notin spent

\* An execution has to repeat the request that was planned, once.
Accepted(q) == q.plan \notin spent /\ plans[q.plan] = q.request

Answered(q, step) ==
  posts' = (posts \ {q}) \union {[q EXCEPT !.step = step]}

Plan(q) ==
  /\ q.plan = 0 /\ q.step = "asked"
  /\ plans' = [plans EXCEPT ![q.id] = q.request] /\ Answered(q, "done")
  /\ UNCHANGED <<page, fields, sent, spent, effects>>

Apply(q) ==
  /\ q.plan # 0 /\ q.step = "asked"
  /\ IF Accepted(q)
       THEN /\ spent' = spent \union {q.plan}
            /\ effects' = effects \union
                 {[plan |-> q.plan, request |-> plans[q.plan], shown |-> q.request]}
            /\ Answered(q, "done")
       ELSE Answered(q, "refused") /\ UNCHANGED <<spent, effects>>
  /\ UNCHANGED <<page, fields, sent, plans>>

\* What the answer does to the panel that asked, if it is still there.  It may
\* not arrive although the request was served: then it is an error.
Arrives(q, ok) ==
  /\ ok => q.step = "done"
  /\ posts' = posts \ {q}
  /\ IF q.panel = panel
       THEN /\ busy' = FALSE
            /\ plan' = IF ok /\ q.plan = 0 THEN q.id ELSE IF ok THEN plan ELSE 0
            /\ receipt' = IF ok /\ q.plan # 0 THEN TRUE ELSE receipt
            /\ UNCHANGED <<form, panel>>
       ELSE UNCHANGED fields
  /\ UNCHANGED <<page, sent, api>>

Next ==
  \/ Close \/ Look \/ Cancel \/ Review \/ Execute
  \/ \E w \in Workload : Open(w)
  \/ \E n \in 1..MaxOpens : Loaded(n) \/ Looked(n)
  \/ \E d \in Draft : Edit(d)
  \/ \E q \in posts : Plan(q) \/ Apply(q) \/ \E ok \in BOOLEAN : Arrives(q, ok)

Spec == Init /\ [][Next]_vars

-----------------------------------------------------------------------------
(* Properties.                                                              *)

TypeOK ==
  /\ {selected, detail} \subseteq Workload \union {None}
  /\ loads \in [1..MaxOpens -> Workload \union {None}]
  /\ opens \in 0..MaxOpens /\ looks \subseteq 1..opens
  /\ form \in Draft \union {None} /\ plan \in 0..MaxPosts
  /\ {error, receipt, busy} \subseteq BOOLEAN
  /\ panel \in Nat /\ sent \in 0..MaxPosts /\ spent \subseteq 1..MaxPosts
  /\ plan # 0 => plans[plan] # NoRequest
  /\ \A q \in posts : q.id \in 1..sent /\ q.plan \in 0..sent /\ q.panel \in 1..panel

\* What takes effect is what the panel showed at the click, in its fields and in
\* the plan under them, and it does so once: although an answer to an earlier
\* review may bring its plan after the fields were changed, and another detail
\* may be put under a plan.
ConfirmedIsApplied ==
  /\ \A e \in effects : e.request = e.shown
  /\ \A e, f \in effects : e.plan = f.plan => e = f

\* The buttons of a panel are disabled exactly while it waits for one answer.
OneRequestAtATime ==
  /\ \A q, r \in posts : q.panel = r.panel => q = r
  /\ Mounted => (busy <=> \E q \in posts : q.panel = panel)

\* docs/frontend.md:28-30: selecting a workload opens a panel "containing its
\* Pods, images, Services": the detail in the drawer is that of the workload the
\* drawer names.
DrawerShowsSelected == Mounted => detail = selected
=============================================================================
