----------------------------- MODULE UpdateStream -----------------------------
(***************************************************************************)
(* One stream of pod changes to a browser: a producer that follows the     *)
(* watch of the cluster (Updates in experience.go) or a ticker (the one in *)
(* demo.go), a buffered channel, and the HTTP handler that writes events   *)
(* and heartbeats (streamUpdates in router.go).                            *)
(*                                                                         *)
(* Two parts of net/http matter.  The request's context is cancelled when  *)
(* the client closes the connection, when a write to it has failed and     *)
(* when the handler has returned.  The server's WriteTimeout                *)
(* (cmd/server/main.go) starts when the request has been read, before the  *)
(* heartbeat's ticker does, and both last 15 seconds: a heartbeat is only  *)
(* ever written when the deadline of the connection has passed.            *)
(***************************************************************************)
EXTENDS Naturals, Sequences, SequencesExt

CONSTANTS
  ClusterCap,   \* capacity of the cluster's channel (8)
  MaxChanges    \* bound on the changes of pods during the stream

StreamBounds == ClusterCap \in Nat \ {0} /\ MaxChanges \in Nat

VARIABLES
  demo,         \* the producer is the demo's
  watcher,      \* the watch: "none", "open", "closed" (by the API server), "stopped"
  producer,     \* "none", "select", "sending", "ended"
  channel,      \* updates in the channel
  handler,      \* "opening", "loop", "writing", "returned"
  client,       \* the connection: "here", "left", "broken" (a write failed)
  late,         \* the write deadline of the connection has passed
  item,         \* the update the producer sends
  line,         \* what the handler writes: <<update>>, or <<>> for a comment
  changes,      \* how many changes the producer was told
  taken,        \* history: the updates the producer made of them
  delivered     \* history: the updates written to the client

source == <<demo, watcher, producer, item, changes, taken>>
sink == <<handler, line, delivered>>
vars == <<source, channel, sink, client, late>>

-----------------------------------------------------------------------------
Cancelled == client # "here" \/ handler = "returned"

\* Capacity of the channel; a demo's is 1.
Cap == IF demo THEN 1 ELSE ClusterCap

Init ==
  /\ demo \in BOOLEAN
  /\ watcher = "none" /\ producer = "none" /\ item = 0
  /\ channel = <<>> /\ handler = "opening" /\ line = <<>>
  /\ client = "here" /\ late = FALSE
  /\ changes = 0 /\ taken = <<>> /\ delivered = <<>>

-----------------------------------------------------------------------------
(* The producer.                                                            *)

\* The return that closes the channel and stops the watch.
Ends ==
  /\ producer' = "ended"
  /\ watcher' = IF watcher = "open" THEN "stopped" ELSE watcher
  /\ UNCHANGED <<demo, item, changes, taken>>

\* A change is told.  A watch also tells what carries no object's metadata (an
\* error, a bookmark): that is skipped.
Take(decodes) ==
  /\ producer = "select" /\ watcher = "open" /\ changes < MaxChanges
  /\ demo => decodes
  /\ changes' = changes + 1
  /\ IF decodes
       THEN /\ producer' = "sending" /\ item' = changes'
            /\ taken' = Append(taken, changes')
       ELSE UNCHANGED <<producer, item, taken>>
  /\ UNCHANGED <<demo, watcher, channel, sink, client, late>>

\* A channel without a limit, for a client that does not read.
MutUnbounded ==
  /\ producer = "sending"
  /\ channel' = Append(channel, item)
  /\ producer' = "select" /\ item' = 0
  /\ UNCHANGED <<demo, watcher, changes, taken, sink, client, late>>

Send ==
  /\ producer = "sending" /\ Len(channel) < Cap
  /\ channel' = Append(channel, item)
  /\ producer' = "select" /\ item' = 0
  /\ UNCHANGED <<demo, watcher, changes, taken, sink, client, late>>

\* ctx.Done() in the select of the loop.
Done ==
  /\ producer = "select" /\ Cancelled
  /\ Ends
  /\ UNCHANGED <<channel, sink, client, late>>

\* The send is not in a select.
MutGiveUp == FALSE

\* ctx.Done() in the select around the send, which the demo's producer has not.
GiveUp ==
  /\ producer = "sending" /\ Cancelled /\ ~demo
  /\ Ends
  /\ UNCHANGED <<channel, sink, client, late>>

WatchEnded ==
  /\ producer = "select" /\ watcher = "closed"
  /\ Ends
  /\ UNCHANGED <<channel, sink, client, late>>

-----------------------------------------------------------------------------
(* The handler.                                                             *)

\* Updates starts the producer, or fails and the answer is a 503.
Open(fails) ==
  /\ handler = "opening"
  /\ IF fails
       THEN ~demo /\ handler' = "returned" /\ UNCHANGED <<watcher, producer>>
       ELSE handler' = "writing" /\ watcher' = "open" /\ producer' = "select"
  /\ UNCHANGED <<demo, item, changes, taken, channel, line, delivered, client, late>>

\* The newest update first.
MutReceive ==
  /\ handler = "loop" /\ channel # <<>>
  /\ handler' = "writing" /\ line' = <<Last(channel)>> /\ channel' = Front(channel)
  /\ UNCHANGED <<source, delivered, client, late>>

Receive ==
  /\ handler = "loop" /\ channel # <<>>
  /\ handler' = "writing" /\ line' = <<Head(channel)>> /\ channel' = Tail(channel)
  /\ UNCHANGED <<source, delivered, client, late>>

\* The first heartbeat comes after the write deadline.
Heartbeat ==
  /\ handler = "loop" /\ late
  /\ handler' = "writing" /\ line' = <<>>
  /\ UNCHANGED <<source, channel, delivered, client, late>>

Return ==
  /\ handler = "loop"
  /\ Cancelled \/ (producer = "ended" /\ channel = <<>>)
  /\ handler' = "returned"
  /\ UNCHANGED <<source, channel, line, delivered, client, late>>

\* A write (with its flush) ends; its error is not looked at, but net/http
\* cancels the context, and no later write of this connection succeeds.
Written ==
  /\ handler = "writing" /\ ~late /\ client # "broken"
  /\ handler' = "loop" /\ line' = <<>> /\ delivered' = delivered \o line
  /\ UNCHANGED <<source, channel, client, late>>

NotWritten ==
  /\ handler = "writing"
  /\ late \/ client # "here"
  /\ handler' = "loop" /\ line' = <<>> /\ client' = "broken"
  /\ UNCHANGED <<source, channel, delivered, late>>

-----------------------------------------------------------------------------
(* The client, the clock and the API server.                                *)

ClientLeaves ==
  /\ client = "here" /\ client' = "left"
  /\ UNCHANGED <<source, channel, sink, late>>

DeadlinePasses ==
  /\ ~late /\ late' = TRUE
  /\ UNCHANGED <<source, channel, sink, client>>

WatchCloses ==
  /\ watcher = "open" /\ ~demo /\ watcher' = "closed"
  /\ UNCHANGED <<demo, producer, item, changes, taken, channel, sink, client, late>>

Producer == Send \/ Done \/ GiveUp \/ WatchEnded \/ \E decodes \in BOOLEAN : Take(decodes)

Handler ==
  \/ Receive \/ Heartbeat \/ Return \/ Written \/ NotWritten
  \/ \E fails \in BOOLEAN : Open(fails)

Next ==
  \/ Producer \/ Handler
  \/ ClientLeaves \/ DeadlinePasses \/ WatchCloses

Spec == Init /\ [][Next]_vars

\* A goroutine that can go on does.  A write ends, at the latest because of the
\* deadline.  A select picks any of the cases that are ready: none of them is
\* passed over forever.
Fairness ==
  /\ WF_vars(Send) /\ WF_vars(GiveUp) /\ WF_vars(WatchEnded) /\ SF_vars(Done)
  /\ WF_vars(\E fails \in BOOLEAN : Open(fails))
  /\ WF_vars(Written \/ NotWritten) /\ WF_vars(Receive \/ Heartbeat \/ Return)
  /\ SF_vars(Return)
  /\ WF_vars(DeadlinePasses)

FairSpec == Spec /\ Fairness

-----------------------------------------------------------------------------
(* Properties.                                                              *)

TypeOK ==
  /\ demo \in BOOLEAN
  /\ watcher \in {"none", "open", "closed", "stopped"}
  /\ producer \in {"none", "select", "sending", "ended"}
  /\ handler \in {"opening", "loop", "writing", "returned"}
  /\ client \in {"here", "left", "broken"} /\ late \in BOOLEAN
  /\ item \in 0..MaxChanges /\ changes \in 0..MaxChanges
  /\ channel \in Seq(1..MaxChanges) /\ Len(channel) <= Cap
  /\ line \in Seq(1..MaxChanges) /\ Len(line) <= 1
  /\ taken \in Seq(1..MaxChanges) /\ delivered \in Seq(1..MaxChanges)

\* Updates between the producer and the client.
Underway == line \o channel \o (IF producer = "sending" THEN <<item>> ELSE <<>>)

\* As long as the client is there every update made was delivered or is under
\* way, in the order of the watch, however far the client is behind.  When the
\* watch ends, what is in the channel is delivered before the stream ends.
NothingLost ==
  /\ client = "here" => delivered \o Underway = taken
  /\ client = "here" /\ handler = "returned" => delivered = taken

\* What a client was told, even one that is gone, is the beginning of the story.
InOrder == IsPrefix(delivered, taken)

\* A demo's producer that finds the channel full when the handler has returned.
LeftBehind ==
  demo /\ producer = "sending" /\ Len(channel) = Cap /\ handler = "returned"

ProducerEnded == (producer \in {"none", "ended"} /\ watcher # "open") \/ LeftBehind

\* No goroutine and no watch outlives its request: experience.go:392 gives up a
\* send.  demo.go:134 does not; it stays behind if it was at the send, with the
\* channel full, and only then.
ProducerEnds == Cancelled ~> ProducerEnded

\* A stream ends even for a client that stays and a cluster in which nothing
\* happens: its first heartbeat fails, and the browser connects again.
StreamEnds == <>(handler = "returned")
=============================================================================
