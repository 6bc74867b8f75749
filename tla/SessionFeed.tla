-------------------------------- MODULE SessionFeed --------------------------------
(***************************************************************************)
(* What the viewers of one agent session get to see.  The messages of a    *)
(* turn go to a bounded buffer and to the bounded queues of the            *)
(* subscribers, and some time later to the transcript in the database.  A  *)
(* viewer that opens the stream of a running session subscribes, takes the *)
(* buffer, reads the transcript, shows both as a snapshot and goes on with *)
(* its queue until the turn is over.  The history request shows the        *)
(* transcript and the buffer, and keeps what it shows of a session that    *)
(* does not run.                                                           *)
(*                                                                         *)
(* A message is << round, kind >>; that a message of the buffer is one of  *)
(* the transcript, which the code tells by uuid, text and content, is the  *)
(* equality of the two.                                                    *)
(***************************************************************************)
EXTENDS Integers, Sequences, FiniteSets, SequencesExt

CONSTANTS
  Viewer,
  MaxRound,    \* turns
  BufferSize,  \* 100 in the code
  QueueSize    \* 100 in the code

ASSUME BufferFits == BufferSize \in Nat \ {0} /\ QueueSize \in Nat /\ BufferSize <= QueueSize

VARIABLES
  round,
  turn,      \* "rest", "sending", the next kind of message, "over", "settling", "dead"
  live,      \* status = "running"
  buffer,
  stored,    \* messages in the transcript
  emitted,   \* messages sent so far
  early,     \* messages the buffer let go before they were stored
  viewer,
  reader, cache

feed == << round, turn, live, buffer, stored, emitted, early, viewer, reader, cache >>

Overflow == << 0, "overflow" >>
Transient(m) == m[2] = "delta"
Groupable(ms) == {m \in ms : m[2] \in {"user", "assistant", "result"}}

NotOpen == [pc |-> "closed", in |-> FALSE, queue |-> << >>, shown |-> {}]
NoRead == [pc |-> "idle", history |-> {}, quiet |-> FALSE]

FeedInit ==
  /\ round = 0 /\ turn = "rest" /\ live = FALSE
  /\ buffer = << >> /\ stored = {} /\ emitted = {} /\ early = {}
  /\ viewer = [v \in Viewer |-> NotOpen]
  /\ reader = NoRead
  /\ cache = [there |-> FALSE, shown |-> {}, quiet |-> FALSE]

\* No message is being sent, no turn goes on and the transcript has everything.
Quiet == turn = "rest" /\ Groupable(emitted) \subseteq stored

-----------------------------------------------------------------------------
(* Buffer and queues *)

\* The first of ms that may go; the last is the new one.
Evicted(ms) ==
  LET i == SelectInSubSeq(ms, 1, Len(ms) - 1, Transient) IN
  RemoveAt(ms, IF i = 0 THEN 1 ELSE i)

Buffered(m) ==
  LET ms == Append(buffer, m) IN IF Len(ms) > BufferSize THEN Evicted(ms) ELSE ms

\* Mutant: the oldest message makes room, whatever it is.
Room_Oldest(q) == Tail(q)

\* The oldest message that is not critical makes room for a critical one.
Room(q) ==
  LET i == SelectInSeq(q, Transient) IN IF i = 0 THEN q ELSE RemoveAt(q, i)

\* A queue full of critical messages is given up: what it holds is dropped and the stream
\* told to connect again.
Offered(v, m) ==
  CASE ~v.in -> v
    [] v.in /\ Len(v.queue) < QueueSize -> [v EXCEPT !.queue = Append(@, m)]
    [] v.in /\ Len(v.queue) >= QueueSize /\ Transient(m) -> v
    [] v.in /\ Len(v.queue) >= QueueSize /\ ~Transient(m) ->
         IF Len(Room(v.queue)) < QueueSize
         THEN [v EXCEPT !.queue = Append(Room(v.queue), m)]
         ELSE [v EXCEPT !.queue = << Overflow >>, !.in = FALSE]

LetGo(kept) == Groupable(ToSet(buffer)) \ (ToSet(kept) \union stored)

AddMessage(m) ==
  /\ buffer' = Buffered(m)
  /\ early' = early \union LetGo(Buffered(m))
  /\ emitted' = emitted \union {m}
  /\ viewer' = [v \in Viewer |-> Offered(viewer[v], m)]

\* Everything of a turn goes, be it in the transcript or not.
Prune ==
  /\ buffer' = << >>
  /\ early' = early \union LetGo(<< >>)

-----------------------------------------------------------------------------
(* The turns *)

Uncached == cache' = [cache EXCEPT !.there = FALSE, !.shown = {}]

\* send_or_create and send_message up to the write of the status: what is left in the buffer
\* is pruned and the user's message echoed.  A session whose actor died gets a new one,
\* without buffer and subscribers; the streams of the old one hold on to their queues.
Send ==
  LET echo == << round + 1, "user" >>
      open == IF turn = "dead" THEN [v \in Viewer |-> [viewer[v] EXCEPT !.in = FALSE]] ELSE viewer
  IN
  /\ ~live /\ round < MaxRound /\ turn \in {"rest", "settling", "dead"}
  /\ round' = round + 1 /\ turn' = "sending"
  /\ Uncached
  /\ buffer' = << echo >>
  /\ early' = early \union LetGo(<< >>)
  /\ emitted' = emitted \union {echo}
  /\ viewer' = [v \in Viewer |-> Offered(open[v], echo)]
  /\ UNCHANGED << live, stored, reader >>

SendQuery ==
  /\ turn = "sending"
  /\ live' = TRUE /\ turn' = "answering"
  /\ UNCHANGED << round, buffer, stored, emitted, early, viewer, reader, cache >>

Emit(kind) ==
  /\ turn = "answering"
  /\ << round, kind >> \notin emitted
  /\ kind = "delta" => << round, "assistant" >> \notin emitted
  /\ kind = "result" => << round, "assistant" >> \in emitted
  /\ AddMessage(<< round, kind >>)
  /\ turn' = IF kind = "result" THEN "over" ELSE turn
  /\ UNCHANGED << round, live, stored, reader, cache >>

\* The transcript gets the messages in their order.
Before(m, n) == m[1] < n[1] \/ (m[1] = n[1] /\ << m[2], n[2] >> \in
  {<< "user", "assistant" >>, << "user", "result" >>, << "assistant", "result" >>})

Store(m) ==
  /\ m \in Groupable(emitted) \ stored
  /\ \A n \in Groupable(emitted) \ stored : ~Before(n, m)
  /\ stored' = stored \union {m}
  /\ UNCHANGED << round, turn, live, buffer, emitted, early, viewer, reader, cache >>

\* _finalize_turn sets the status, awaits the table, then prunes: a message that was sent
\* meanwhile loses its echo from the buffer.
SettleStatus ==
  /\ turn = "over"
  /\ live' = FALSE /\ turn' = "settling"
  /\ UNCHANGED << round, buffer, stored, emitted, early, viewer, reader, cache >>

SettleBuffer ==
  /\ turn = "settling"
  /\ Prune /\ turn' = "rest"
  /\ UNCHANGED << round, live, stored, emitted, viewer, reader, cache >>

LatePrune ==
  /\ turn = "sending" /\ << round - 1, "result" >> \in emitted
  /\ buffer # << >>
  /\ Prune
  /\ UNCHANGED << round, turn, live, stored, emitted, viewer, reader, cache >>

ActorDies ==
  /\ turn \in {"answering", "over"}
  /\ turn' = "dead" /\ live' = FALSE
  /\ AddMessage(<< round, "status" >>)
  /\ UNCHANGED << round, stored, reader, cache >>

-----------------------------------------------------------------------------
(* The stream of a viewer *)

\* Subscribed, with the buffer taken.
Subscribed(v) == [viewer[v] EXCEPT !.pc = "reading", !.in = TRUE,
                                   !.shown = Groupable(ToSet(buffer))]

Open(v) ==
  /\ viewer[v].pc = "closed" /\ live
  /\ viewer' = [viewer EXCEPT ![v] = Subscribed(v)]
  /\ UNCHANGED << round, turn, live, buffer, stored, emitted, early, reader, cache >>

\* Snapshot: the transcript and what of the buffer is not in it.  The status may have
\* changed since, and the stream then ends here.
ShowSnapshot(v) ==
  /\ viewer[v].pc = "reading"
  /\ viewer' = [viewer EXCEPT ![v].pc = "live", ![v].shown = @ \union stored]
  /\ UNCHANGED << round, turn, live, buffer, stored, emitted, early, reader, cache >>

Ends(m) == m[2] \in {"result", "status", "overflow"}

\* A stream that has taken the first message of its queue.
TookLive(v) ==
  LET m == Head(v.queue) IN
  IF Ends(m) THEN NotOpen ELSE [v EXCEPT !.queue = Tail(@), !.shown = @ \union Groupable({m})]

TakeLive(v) ==
  /\ viewer[v].pc = "live" /\ viewer[v].queue # << >>
  /\ viewer' = [viewer EXCEPT ![v] = TookLive(@)]
  /\ UNCHANGED << round, turn, live, buffer, stored, emitted, early, reader, cache >>

\* Mutant: the heartbeat believes the status the stream began with.
NotRunning_AsOpened == FALSE

NotRunning == ~live

\* No message for a while: the stream ends if the session does not run any more.
Heartbeat(v) ==
  /\ viewer[v].pc = "live" /\ viewer[v].queue = << >> /\ NotRunning
  /\ viewer' = [viewer EXCEPT ![v] = NotOpen]
  /\ UNCHANGED << round, turn, live, buffer, stored, emitted, early, reader, cache >>

-----------------------------------------------------------------------------
(* The history *)

\* A session that does not run and has no kept snapshot: its transcript is read, and after
\* that the buffer.
ReadHistory ==
  /\ reader.pc = "idle" /\ ~live /\ ~cache.there
  /\ reader' = [pc |-> "reading", history |-> stored, quiet |-> Quiet]
  /\ UNCHANGED << round, turn, live, buffer, stored, emitted, early, viewer, cache >>

KeepSnapshot ==
  /\ reader.pc = "reading"
  /\ cache' = [there |-> TRUE, shown |-> reader.history \union Groupable(ToSet(buffer)),
               quiet |-> reader.quiet /\ Quiet /\ reader.history = stored]
  /\ reader' = NoRead
  /\ UNCHANGED << round, turn, live, buffer, stored, emitted, early, viewer >>

-----------------------------------------------------------------------------
Turn ==
  \/ SendQuery \/ SettleStatus \/ SettleBuffer
  \/ \E kind \in {"delta", "assistant", "result"} : Emit(kind)

Follow(v) == ShowSnapshot(v) \/ TakeLive(v) \/ Heartbeat(v)

Session ==
  \/ Send \/ Turn \/ LatePrune \/ ActorDies
  \/ \E m \in emitted : Store(m)

Streams == \E v \in Viewer : Open(v) \/ Follow(v)

History == ReadHistory \/ KeepSnapshot

FeedNext == Session \/ Streams \/ History

\* A turn comes to its result and is settled; a stream that has something to do does it.
FeedFairness == WF_feed(Turn) /\ \A v \in Viewer : WF_feed(Follow(v))

FeedSpec == FeedInit /\ [][FeedNext]_feed /\ FeedFairness

-----------------------------------------------------------------------------
(* Properties *)

\* A viewer that follows the session has on its screen or in its queue every user message,
\* answer and result so far: what was said before it subscribed comes from the buffer or the
\* transcript, what is said while it reads the transcript from its queue.  What the buffer
\* let go before the transcript had it is the exception.
NothingMissed ==
  \A v \in Viewer :
    (viewer[v].pc = "live" /\ viewer[v].in)
      => Groupable(emitted) \ early \subseteq viewer[v].shown \union ToSet(viewer[v].queue)

\* A stream does not outlive the turns of its session: it ends, also when it was opened
\* after the result had gone out.
StreamsClose == \A v \in Viewer : viewer[v].pc = "live" ~> viewer[v].pc = "closed"

\* The snapshot that is kept of a session lacks nothing, if it was made while nothing went
\* on, until the next message is sent: then it is not kept any longer.
CacheFresh == cache.there /\ cache.quiet => Groupable(emitted) \subseteq cache.shown

\* Neither who follows a session nor who loads it lacks a part of it.
ViewsComplete == NothingMissed /\ CacheFresh

=================================================================================
