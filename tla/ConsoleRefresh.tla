---------------------------- MODULE ConsoleRefresh ----------------------------
(***************************************************************************)
(* How the web console keeps what it shows up to date (App in              *)
(* web/src/main.tsx): a refresh of the active view and of the workloads    *)
(* when the view changes, every 15 seconds, a moment after the stream told *)
(* of a change, and whenever the user asks.                                *)
(*                                                                         *)
(* The answers to overlapping refreshes arrive in any order and the last   *)
(* one to arrive is shown, be it older.  The stream ends at least every 15 *)
(* seconds (UpdateStream), and what happens until the browser has          *)
(* connected again is not told.                                            *)
(***************************************************************************)
EXTENDS Naturals

CONSTANTS
  View,         \* views of the console
  Workloads,    \* the view that is always fetched as well
  MaxVersion,   \* bound on the changes of the cluster
  MaxMoves,     \* bound on the changes of the view and the refreshes by hand
  MaxFailures,  \* bound on the refreshes that fail
  Slots         \* bound on the refreshes under way

RefreshBounds ==
  /\ Workloads \in View /\ MaxVersion \in Nat \ {0}
  /\ {MaxMoves, MaxFailures, Slots} \subseteq Nat

VARIABLES
  version,   \* version of what the API would answer
  view,      \* the active view
  effect,    \* number of the effect, and of the signal that its cleanup aborts
  cache,     \* [View -> the version shown, 0 before the first]
  status,    \* requestState: "loading", "connected", "stale"
  stream,    \* the browser is connected to the stream
  debounce,  \* a change was told and the refresh for it is due
  refresh,   \* [1..Slots -> a refresh under way]
  moves,     \* how often the user acted
  failures   \* how many refreshes failed

vars == <<version, view, effect, cache, status, stream, debounce, refresh, moves, failures>>

-----------------------------------------------------------------------------
Unanswered == [t \in View |-> 0]

\* A refresh: its targets, the effect whose signal it has (0 for none), and the
\* version with which the API answered each of its requests, 0 before it did.
NoRefresh == [targets |-> {}, signal |-> 0, answer |-> Unanswered]

Targets(v) == {Workloads, v}

Asked(v, signal) == [targets |-> Targets(v), signal |-> signal, answer |-> Unanswered]

\* What a new refresh is put into.
Begin(n, v, signal) ==
  /\ refresh[n] = NoRefresh /\ refresh' = [refresh EXCEPT ![n] = Asked(v, signal)]

Init ==
  /\ version = 1 /\ view = Workloads /\ effect = 1
  /\ cache = [v \in View |-> 0] /\ status = "loading"
  /\ stream \in BOOLEAN /\ debounce = FALSE
  /\ moves = 0 /\ failures = 0
  /\ refresh = [n \in 1..Slots |-> IF n = 1 THEN Asked(Workloads, 1) ELSE NoRefresh]

-----------------------------------------------------------------------------
(* The cluster, the stream and the API.                                     *)

\* A change is told on the stream, when there is one.
Change ==
  /\ version < MaxVersion /\ version' = version + 1
  /\ debounce' = (debounce \/ stream)
  /\ UNCHANGED <<view, effect, cache, status, stream, refresh, moves, failures>>

Connect ==
  /\ ~stream /\ stream' = TRUE
  /\ UNCHANGED <<version, view, effect, cache, status, debounce, refresh, moves, failures>>

Disconnect ==
  /\ stream /\ stream' = FALSE
  /\ UNCHANGED <<version, view, effect, cache, status, debounce, refresh, moves, failures>>

\* The checks of signal?.aborted.
Aborted(n) == refresh[n].signal \notin {0, effect}

\* Each target is a request of its own; one that was aborted gets no answer.
Serve(n, t) ==
  /\ t \in refresh[n].targets /\ refresh[n].answer[t] = 0 /\ ~Aborted(n)
  /\ refresh' = [refresh EXCEPT ![n].answer[t] = version]
  /\ UNCHANGED <<version, view, effect, cache, status, stream, debounce, moves, failures>>

-----------------------------------------------------------------------------
(* The console.                                                             *)

\* The stream is trusted to tell of every change.
MutPoll(n) == FALSE

\* The 15-second poll of the current effect.
Poll(n) ==
  /\ Begin(n, view, effect)
  /\ UNCHANGED <<version, view, effect, cache, status, stream, debounce, moves, failures>>

\* 350 ms after the last change that was told.
Debounced(n) ==
  /\ debounce /\ debounce' = FALSE
  /\ Begin(n, view, effect)
  /\ UNCHANGED <<version, view, effect, cache, status, stream, moves, failures>>

\* A refresh by hand has no signal: nothing aborts it.
ByHand(n) ==
  /\ moves < MaxMoves /\ moves' = moves + 1
  /\ Begin(n, view, 0)
  /\ UNCHANGED <<version, view, effect, cache, status, stream, debounce, failures>>

\* Another view: the effects are cleaned up and run again.
Navigate(v, n) ==
  /\ v # view /\ moves < MaxMoves /\ moves' = moves + 1
  /\ view' = v /\ effect' = effect + 1
  /\ status' = "loading" /\ stream' = FALSE /\ debounce' = FALSE
  /\ Begin(n, v, effect')
  /\ UNCHANGED <<version, cache, failures>>

\* Promise.allSettled: every target that was answered is cached, and when one
\* was not, the console says so.
Settle(n, failed) ==
  /\ refresh[n] # NoRefresh /\ ~Aborted(n)
  /\ failed \subseteq refresh[n].targets
  /\ \A t \in refresh[n].targets \ failed : refresh[n].answer[t] # 0
  /\ IF failed = {} THEN UNCHANGED failures
     ELSE failures < MaxFailures /\ failures' = failures + 1
  /\ cache' = [t \in View |->
       IF t \in refresh[n].targets \ failed THEN refresh[n].answer[t] ELSE cache[t]]
  /\ status' = IF failed = {} THEN "connected" ELSE "stale"
  /\ refresh' = [refresh EXCEPT ![n] = NoRefresh]
  /\ UNCHANGED <<version, view, effect, stream, debounce, moves>>

\* An aborted refresh is rejected, and does nothing more.
Drop(n) ==
  /\ refresh[n] # NoRefresh /\ Aborted(n)
  /\ refresh' = [refresh EXCEPT ![n] = NoRefresh]
  /\ UNCHANGED <<version, view, effect, cache, status, stream, debounce, moves, failures>>

Next ==
  \/ Change \/ Connect \/ Disconnect
  \/ \E n \in 1..Slots :
       \/ Poll(n) \/ Debounced(n) \/ ByHand(n) \/ Drop(n)
       \/ \E v \in View : Serve(n, v) \/ Navigate(v, n)
       \/ \E failed \in SUBSET View : Settle(n, failed)

Spec == Init /\ [][Next]_vars

\* Timers fire, and every request is answered or fails; nothing is promised of
\* the stream.
Fairness ==
  /\ WF_vars(\E n \in 1..Slots : Poll(n))
  /\ WF_vars(\E n \in 1..Slots : Debounced(n))
  /\ \A n \in 1..Slots :
       /\ WF_vars(\E t \in View : Serve(n, t)) /\ WF_vars(Drop(n))
       /\ WF_vars(\E failed \in SUBSET View : Settle(n, failed))

FairSpec == Spec /\ Fairness
-----------------------------------------------------------------------------
(* Properties.                                                              *)

\* What is connected has answered something.
TypeOK ==
  /\ version \in 1..MaxVersion /\ view \in View /\ effect \in 1..MaxMoves + 1
  /\ cache \in [View -> 0..version]
  /\ status \in {"loading", "connected", "stale"}
  /\ {stream, debounce} \subseteq BOOLEAN
  /\ refresh \in [1..Slots -> [targets : SUBSET View, signal : 0..effect,
                               answer : [View -> 0..version]]]
  /\ moves \in 0..MaxMoves /\ failures \in 0..MaxFailures
  /\ status = "connected" => \E v \in View : cache[v] # 0

UpToDate == \A v \in Targets(view) : cache[v] = version

\* docs/frontend.md:24-26, the poll "remains as a recovery path": when the cluster
\* and the user rest and the API answers, the console ends up showing the cluster
\* as it is, and goes on to, whatever was not told and in whatever order older
\* answers arrived.
Converges == <>[]UpToDate
=============================================================================
