------------------------------- MODULE MCConsole -------------------------------
(***************************************************************************)
(* Console for TLC.  None of its components reads another one's state, so  *)
(* an instance lets one of them act while the others rest.                 *)
(***************************************************************************)
EXTENDS Console, TLC, SequencesExt

VARIABLE part   \* which of them acts

-----------------------------------------------------------------------------
(* Values for the constants.                                                *)

\* The limits of the code.
SourceLimits == "recovery" :> 1 @@ "diagnosis" :> 8 @@ "metric" :> 4
                  @@ "log" :> 3 @@ "timeline" :> 8

\* None, some, and more than a packet takes.
Collections == "recovery" :> {0, 1} @@ "diagnosis" :> {0, 20} @@ "metric" :> {0, 2}
                 @@ "log" :> {0, 3} @@ "timeline" :> {0, 20}

\* A hypothesis that is good for every packet, one for full ones only, one about
\* an item no packet has, one without a citation and one without a text.
Hypotheses ==
  {[fits |-> TRUE, cites |-> {1}], [fits |-> TRUE, cites |-> {1, 20}],
   [fits |-> TRUE, cites |-> {25}], [fits |-> TRUE, cites |-> {}],
   [fits |-> FALSE, cites |-> {1}]}

\* A good hypothesis and any other one, up to four of a kind (one more than is
\* allowed), or no output.
Outputs ==
  {[wellFormed |-> TRUE, hypotheses |-> <<[fits |-> TRUE, cites |-> {1}], h>>] :
      h \in Hypotheses}
    \union {[wellFormed |-> TRUE, hypotheses |-> [i \in 1..n |-> h]] :
              n \in {0, 1, 3, 4}, h \in Hypotheses}
    \union {[wellFormed |-> FALSE, hypotheses |-> <<>>]}

-----------------------------------------------------------------------------
\* What rests has one initial state.
MCInit ==
  /\ AllInit /\ part \in {"panel", "refresh", "stream", "investigations"}
  /\ stream => part = "refresh"
  /\ demo => part = "stream"
  /\ config.enabled \/ config.model \/ config.demo => part = "investigations"

MCNext ==
  /\ UNCHANGED part
  /\ \/ part = "panel" /\ PanelActs
     \/ part = "refresh" /\ RefreshActs
     \/ part = "stream" /\ StreamActs
     \/ part = "investigations" /\ InvestigationsAct

\* The fairness that the modules state (Fairness), of the part that acts.
RefreshIsFair ==
  /\ WF_refreshVars(part = "refresh" /\ \E n \in 1..Slots : Refresh!Poll(n))
  /\ WF_refreshVars(part = "refresh" /\ \E n \in 1..Slots : Refresh!Debounced(n))
  /\ \A n \in 1..Slots :
       /\ WF_refreshVars(part = "refresh" /\ \E t \in View : Refresh!Serve(n, t))
       /\ WF_refreshVars(part = "refresh" /\ Refresh!Drop(n))
       /\ WF_refreshVars(part = "refresh" /\
            \E failed \in SUBSET View : Refresh!Settle(n, failed))

StreamIsFair ==
  /\ WF_streamVars(part = "stream" /\ Stream!Send)
  /\ WF_streamVars(part = "stream" /\ Stream!GiveUp)
  /\ WF_streamVars(part = "stream" /\ Stream!WatchEnded)
  /\ SF_streamVars(part = "stream" /\ Stream!Done)
  /\ WF_streamVars(part = "stream" /\ \E fails \in BOOLEAN : Stream!Open(fails))
  /\ WF_streamVars(part = "stream" /\ (Stream!Written \/ Stream!NotWritten))
  /\ WF_streamVars(part = "stream" /\ (Stream!Receive \/ Stream!Heartbeat \/ Stream!Return))
  /\ SF_streamVars(part = "stream" /\ Stream!Return)
  /\ WF_streamVars(part = "stream" /\ Stream!DeadlinePasses)

InvestigationsAreFair ==
  \A r \in Investigator :
    /\ WF_investigationVars(part = "investigations" /\
         (Investigations!Collected(r) \/ Investigations!NotCollected(r)))
    /\ WF_investigationVars(part = "investigations" /\ Investigations!Enrich(r))
    /\ WF_investigationVars(part = "investigations" /\ Investigations!Explain(r))

MCSpec ==
  /\ MCInit /\ [][MCNext]_<<allVars, part>>
  /\ RefreshIsFair /\ StreamIsFair /\ InvestigationsAreFair

-----------------------------------------------------------------------------
(* What the part that acts gets done.                                       *)

\* The poll brings the console up to date, whatever was not told and in whatever
\* order older answers arrived (App in main.tsx).
Converges == <>[](part = "refresh" => Refresh!UpToDate)

\* A stream ends even if nobody leaves and nothing happens, and no producer and no
\* watch outlives its request, but for the demo's producer in the one place where it
\* does not watch for cancellation (demo.go:134).
StreamsEnd ==
  /\ <>(part = "stream" => handler = "returned")
  /\ (part = "stream" /\ Stream!Cancelled) ~> (part = "stream" /\ Stream!ProducerEnded)

\* The slot is free again, whatever failed.
SlotIsReturned ==
  (part = "investigations" /\ slot # {}) ~> (part = "investigations" /\ slot = {})
=============================================================================
