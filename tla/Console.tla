-------------------------------- MODULE Console --------------------------------
(***************************************************************************)
(* The browser's side: the drawer and its operations (ConsolePanel) and,   *)
(* next to it, what the console talks to and lives from: its refreshes,    *)
(* one update stream, of the cluster or of the demo, and the               *)
(* investigations of one API process.                                      *)
(*                                                                         *)
(* They act in any order, and none of them reads another one's state.      *)
(***************************************************************************)
EXTENDS ConsolePanel, Sequences

CONSTANTS
  View, Workloads, MaxVersion, MaxMoves, MaxFailures, Slots,   \* of ConsoleRefresh
  ClusterCap, MaxChanges,                                      \* of UpdateStream
  Investigator,                                                \* Request of Investigation
  Found, Limit, MaxEvidence, MaxHypotheses, Output             \* of Investigation

VARIABLES
  version, view, effect, cache, status, stream, debounce, refresh, moves, failures,
  demo, watcher, producer, channel, handler, client, late, item, line, changes, taken,
  delivered,
  config, slot, at, collected, packet, answer

refreshVars == <<version, view, effect, cache, status, stream, debounce, refresh, moves, failures>>
streamVars ==
  <<demo, watcher, producer, channel, handler, client, late, item, line, changes, taken,
    delivered>>
investigationVars == <<config, slot, at, collected, packet, answer>>
allVars == <<vars, refreshVars, streamVars, investigationVars>>

Refresh == INSTANCE ConsoleRefresh

Stream == INSTANCE UpdateStream

Investigations == INSTANCE Investigation WITH
  Request <- Investigator, busy <- slot, detail <- collected

ASSUME InstanceBounds ==
  /\ Refresh!RefreshBounds /\ Stream!StreamBounds
  /\ Investigations!InvestigationBounds /\ Investigations!LimitsFit

-----------------------------------------------------------------------------
AllInit == Init /\ Refresh!Init /\ Stream!Init /\ Investigations!Init

PanelActs == Next /\ UNCHANGED <<refreshVars, streamVars, investigationVars>>

RefreshActs == Refresh!Next /\ UNCHANGED <<vars, streamVars, investigationVars>>

StreamActs == Stream!Next /\ UNCHANGED <<vars, refreshVars, investigationVars>>

InvestigationsAct == Investigations!Next /\ UNCHANGED <<vars, refreshVars, streamVars>>

AllNext == PanelActs \/ RefreshActs \/ StreamActs \/ InvestigationsAct

AllSpec == AllInit /\ [][AllNext]_allVars

-----------------------------------------------------------------------------
(* The properties of the instances; the others of the drawer have their     *)
(* names.                                                                   *)

\* What is connected has answered something, the buffer between a watch and a client
\* that is behind is bounded, packets and answers are within their limits.
Types == TypeOK /\ Refresh!TypeOK /\ Stream!TypeOK /\ Investigations!TypeOK

\* A client that is there is told everything before its stream ends, and one that is
\* gone was told the beginning of the story, in order (Updates in experience.go and
\* streamUpdates in router.go).
ToldInOrder == Stream!NothingLost /\ Stream!InOrder

\* There is one investigation at a time; what it explains is cited from the packet that
\* is shown, no source crowds out another one from it, and what is missing is said to
\* be missing, with and without a model (investigation.go).
InvestigationsAreHonest ==
  /\ Investigations!OneAtATime /\ Investigations!ExplanationsAreCited
  /\ Investigations!NothingIsCrowdedOut /\ Investigations!AbsenceIsExplained
=============================================================================
