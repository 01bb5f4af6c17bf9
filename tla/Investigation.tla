---------------------------- MODULE Investigation ----------------------------
(***************************************************************************)
(* The read-only investigation (api/internal/httpapi/investigation.go): a  *)
(* packet of evidence about a workload, which a local language model may   *)
(* explain.                                                                *)
(*                                                                         *)
(* A process runs one investigation at a time.  The collection, the        *)
(* enrichment and the model are calls that may fail, and that their        *)
(* timeouts (5 and 6 of 12 seconds) or a client that leaves make fail.     *)
(* What the model writes is anything at all.                               *)
(***************************************************************************)
EXTENDS Naturals, Sequences, FiniteSets, SequencesExt

CONSTANTS
  Request,        \* requests to one API process
  Found,          \* [source -> how many items a collection may find]
  Limit,          \* [source -> how many of them a packet takes]
  MaxEvidence,    \* items in a packet (24)
  MaxHypotheses,  \* hypotheses in an answer (3)
  Output          \* what the model may write

\* In the order in which they are added to a packet.
Sources == <<"recovery", "diagnosis", "metric", "log", "timeline">>

\* What a model writes, as far as the handler reads it.
Hypothesis == [fits : BOOLEAN, cites : SUBSET Nat]

InvestigationBounds ==
  /\ MaxEvidence \in Nat /\ MaxHypotheses \in Nat
  /\ Limit \in [Range(Sources) -> Nat]
  /\ \A s \in Range(Sources) : Found[s] \subseteq Nat
  /\ Output \subseteq [wellFormed : BOOLEAN, hypotheses : Seq(Hypothesis)]

\* The limits of the code: 1, 8, 4, 3 and 8 items are 24.
LimitsFit ==
  /\ Limit["log"] > 0 /\ Limit["metric"] > 0
  /\ Limit["recovery"] + Limit["diagnosis"] + Limit["metric"] + Limit["log"]
       + Limit["timeline"] <= MaxEvidence

VARIABLES
  config,    \* of the process: the prototype is enabled, and not in production; a
             \* local model is there; the inventory is the demo's, without Enrich
  busy,      \* requests that hold the slot, a channel of capacity 1
  at,        \* [Request -> "none", "collect", "enrich", "explain", "answered"]
  detail,    \* [Request -> [source -> how many items were collected]]
  packet,    \* [Request -> the evidence: the sources of E1, E2, ...]
  answer     \* [Request -> the response]

vars == <<config, busy, at, detail, packet, answer>>

-----------------------------------------------------------------------------
\* An answer that carries no packet.
Code(n) == [code |-> n, mode |-> "none", hypotheses |-> <<>>, warnings |-> {}]

Nothing == [s \in Range(Sources) |-> 0]

Init ==
  /\ config \in [enabled : BOOLEAN, model : BOOLEAN, demo : BOOLEAN]
  /\ busy = {}
  /\ at = [r \in Request |-> "none"]
  /\ detail = [r \in Request |-> Nothing]
  /\ packet = [r \in Request |-> <<>>]
  /\ answer = [r \in Request |-> Code(0)]

AtMost(n, max) == IF n < max THEN n ELSE max

\* The items of a source, cut at its limit, and those of every source in turn.
Cut(d, limit, s) == [i \in 1..AtMost(d[s], limit[s]) |-> s]

InTurn(d, limit) ==
  Cut(d, limit, "recovery") \o Cut(d, limit, "diagnosis") \o Cut(d, limit, "metric")
    \o Cut(d, limit, "log") \o Cut(d, limit, "timeline")

FirstOf(items, max) == SubSeq(items, 1, AtMost(Len(items), max))

evidencePacket(d) == FirstOf(InTurn(d, Limit), MaxEvidence)

Warnings(d) ==
  (IF config.demo THEN {"simulated"} ELSE {})
    \union (IF d["log"] = 0 THEN {"noLogs"} ELSE {})
    \union (IF d["metric"] = 0 THEN {"noMetrics"} ELSE {})

\* The longest packet's IDs are valid in every packet.
MutExplained(output, items) ==
  /\ output.wellFormed /\ Len(output.hypotheses) <= MaxHypotheses
  /\ \A h \in Range(output.hypotheses) :
       h.fits /\ h.cites # {} /\ h.cites \subseteq 1..MaxEvidence

\* Every hypothesis has an explanation that is not too long, and cites items of
\* the packet.
Explained(output, items) ==
  /\ output.wellFormed /\ Len(output.hypotheses) <= MaxHypotheses
  /\ \A h \in Range(output.hypotheses) :
       h.fits /\ h.cites # {} /\ h.cites \subseteq 1..Len(items)

-----------------------------------------------------------------------------
(* The handler.                                                             *)

Goto(r, where) == at' = [at EXCEPT ![r] = where]

\* The response, and the deferred release of the slot.
Answer(r, response) ==
  /\ Goto(r, "answered")
  /\ answer' = [answer EXCEPT ![r] = response]
  /\ busy' = busy \ {r}

\* The checks of the configuration, of the header and of the namespace.
Refuse(r) ==
  /\ at[r] = "none"
  /\ Answer(r, Code(IF config.enabled THEN 403 ELSE 404))
  /\ UNCHANGED <<config, detail, packet>>

\* A request that passes them takes the slot; nobody waits for it.
Start(r) ==
  /\ at[r] = "none" /\ config.enabled
  /\ IF busy = {}
       THEN Goto(r, "collect") /\ busy' = {r} /\ UNCHANGED answer
       ELSE Answer(r, Code(429))
  /\ UNCHANGED <<config, detail, packet>>

\* The slot is given back at the end of the handler, which this is not.
MutNotCollected(r) ==
  /\ at[r] = "collect"
  /\ Goto(r, "answered") /\ answer' = [answer EXCEPT ![r] = Code(404)]
  /\ UNCHANGED <<config, busy, detail, packet>>

NotCollected(r) ==
  /\ at[r] = "collect"
  /\ Answer(r, Code(404))
  /\ UNCHANGED <<config, detail, packet>>

\* WorkloadDetail finds all but logs and metrics.
Collected(r) ==
  /\ at[r] = "collect" /\ Goto(r, "enrich")
  /\ \E recovery \in Found["recovery"], diagnoses \in Found["diagnosis"],
        events \in Found["timeline"] :
       detail' = [detail EXCEPT ![r] = [Nothing EXCEPT
         !["recovery"] = recovery, !["diagnosis"] = diagnoses, !["timeline"] = events]]
  /\ UNCHANGED <<config, busy, packet, answer>>

EvidenceOnly(r, warnings) ==
  [code |-> 200, mode |-> "evidence-only", hypotheses |-> <<>>, warnings |-> warnings]

\* Enrich adds logs and metrics, these also to the timeline; then the packet is
\* made, and answered when there is no model to ask.
Enrich(r) ==
  /\ at[r] = "enrich"
  /\ \E logs \in Found["log"], metrics \in Found["metric"] :
       /\ config.demo => logs = 0 /\ metrics = 0
       /\ detail' = [detail EXCEPT ![r]["log"] = logs, ![r]["metric"] = metrics,
                                   ![r]["timeline"] = @ + metrics]
  /\ packet' = [packet EXCEPT ![r] = evidencePacket(detail'[r])]
  /\ IF config.model
       THEN Goto(r, "explain") /\ UNCHANGED <<busy, answer>>
       ELSE Answer(r, EvidenceOnly(r, Warnings(detail'[r]) \union {"noModel"}))
  /\ UNCHANGED config

\* A rejected output is no reason to reject the evidence; nor is it shown.
Explain(r) ==
  /\ at[r] = "explain"
  /\ \E output \in Output :
       Answer(r,
         IF Explained(output, packet[r])
           THEN [code |-> 200, mode |-> "local-ai", hypotheses |-> output.hypotheses,
                 warnings |-> Warnings(detail[r])]
           ELSE EvidenceOnly(r, Warnings(detail[r]) \union {"rejected"}))
  /\ UNCHANGED <<config, detail, packet>>

Next ==
  \E r \in Request :
    \/ Refuse(r) \/ Start(r)
    \/ Collected(r) \/ NotCollected(r) \/ Enrich(r) \/ Explain(r)

Spec == Init /\ [][Next]_vars

\* Every call is bounded by a timeout.
Fairness ==
  \A r \in Request :
    /\ WF_vars(Collected(r) \/ NotCollected(r))
    /\ WF_vars(Enrich(r)) /\ WF_vars(Explain(r))

FairSpec == Spec /\ Fairness

-----------------------------------------------------------------------------
(* Properties.                                                              *)

Running == {r \in Request : at[r] \in {"collect", "enrich", "explain"}}

TypeOK ==
  /\ config \in [enabled : BOOLEAN, model : BOOLEAN, demo : BOOLEAN]
  /\ busy \subseteq Request
  /\ at \in [Request -> {"none", "collect", "enrich", "explain", "answered"}]
  /\ detail \in [Request -> [Range(Sources) -> Nat]]
  /\ \A r \in Request :
       /\ packet[r] \in Seq(Range(Sources)) /\ Len(packet[r]) <= MaxEvidence
       /\ answer[r].code \in {0, 200, 403, 404, 429}
       /\ answer[r].hypotheses \in Seq(Hypothesis)

\* investigation.go:149, "One model request per API process": no two requests
\* are at work, and the slot is taken exactly while one is.
OneAtATime ==
  /\ busy = Running
  /\ \A r, s \in Running : r = s

\* docs/ai-investigation.md:37-38: every explanation that is shown cites items of
\* the packet that is shown with it, whatever the model wrote.  A model that finds too
\* little evidence is asked for an empty list (investigation.go:97), which is shown as
\* its answer: then nothing is explained, and nothing says why.
ExplanationsAreCited ==
  \A r \in Request : answer[r].mode = "local-ai" =>
    /\ Len(answer[r].hypotheses) <= MaxHypotheses
    /\ \A h \in Range(answer[r].hypotheses) :
         h.cites # {} /\ \A n \in h.cites : n \in DOMAIN packet[r]

\* No source crowds out another one: the packet has of every source what was
\* collected, up to the source's limit, although the packet is limited as well.
NothingIsCrowdedOut ==
  \A r \in Request : answer[r].code = 200 =>
    \A s \in Range(Sources) :
      Cardinality({n \in DOMAIN packet[r] : packet[r][n] = s})
        = AtMost(detail[r][s], Limit[s])

\* An answer without an explanation, without logs or without metrics says so, and
\* one from the demo says that it is simulated (docs/ai-investigation.md:29-30).
AbsenceIsExplained ==
  \A r \in Request : answer[r].code = 200 =>
    /\ answer[r].mode = "evidence-only" =>
         answer[r].warnings \intersect {"noModel", "rejected"} # {}
    /\ "log" \notin Range(packet[r]) => "noLogs" \in answer[r].warnings
    /\ "metric" \notin Range(packet[r]) => "noMetrics" \in answer[r].warnings
    /\ config.demo => "simulated" \in answer[r].warnings

\* The slot is free again: an investigation that fails at any call does not turn
\* the next ones away.
SlotIsReturned == busy # {} ~> busy = {}
=============================================================================
