------------------------------- MODULE MCStreams -------------------------------
(***************************************************************************)
(* Small instances of what is told as it happens: the actor of a session   *)
(* with every exception, the session's stream and its history, and the     *)
(* events of a project.  One behaviour runs one of them, which part says,  *)
(* and leaves the others as they are at the start.  The streams of a       *)
(* session and its history read the same state and change nothing of it,   *)
(* so they are run apart.                                                  *)
(***************************************************************************)
EXTENDS MCSessionActor, SessionFeed, ProjectEvents

CONSTANTS u1, u2  \* clients of the project events

VARIABLE part

streams == << vars, feed, events, part >>

Part == {"actor", "streams", "history", "clients", "batches"}

StreamsInit == part \in Part /\ Init /\ FeedInit /\ EventsInit

\* A viewer may meet deltas in the first turn; for the history they only fill the buffer.
Deltas == {m[1] : m \in {n \in emitted' : Transient(n)}}

\* The two clients are alike: u1 is the first to come.  When both come a batch announces the
\* second change, and there is one batch at a time; the two batches overtake each other in
\* front of u1 alone.
OneBatch ==
  /\ visits = 0 => client'[u2] = Away
  /\ disk' = 2 /\ disk = 1 => calls' # calls
  /\ Len(calls') + Cardinality(rebuilds') <= 1

OneClient == client'[u2] = Away

StreamsNext ==
  /\ UNCHANGED part
  /\ IF part = "actor" THEN Next ELSE UNCHANGED vars
  /\ CASE part = "streams" -> (Session \/ Streams) /\ Deltas \subseteq {1}
       [] part = "history" -> (Session \/ History) /\ Deltas = {}
       [] OTHER -> UNCHANGED feed
  /\ CASE part = "clients" -> EventsNext /\ OneBatch
       [] part = "batches" -> EventsNext /\ OneClient
       [] OTHER -> UNCHANGED events

StreamsSpec == StreamsInit /\ [][StreamsNext]_streams /\ FeedFairness /\ EventsFairness
================================================================================
