------------------------------ MODULE ProjectEvents ------------------------------
(***************************************************************************)
(* The stream of changes of one project.  A channel has the subscribers, a *)
(* snapshot of the project and a watcher, which reads the project in a     *)
(* thread and broadcasts what differs from the snapshot, at every hint and *)
(* at every poll.  Whoever knows what it changed can emit a batch instead: *)
(* a task of its own then reads the project, puts the result in the        *)
(* snapshot and broadcasts the batch only.  A hint does no more than wake  *)
(* the watcher before its poll is due; here it may wake at any time, so a  *)
(* hint leaves no trace.                                                   *)
(*                                                                         *)
(* The project on disk is the number of the last change made to it; to     *)
(* read it is to copy that number.  Everything but the reading runs on the *)
(* event loop, so a step of a handler is what it does between two awaits.  *)
(***************************************************************************)
EXTENDS Integers, Sequences, FiniteSets, SequencesExt

CONSTANTS
  Client,
  MaxChannel,  \* channels made
  MaxChange,   \* changes of the project
  MaxVisits,   \* subscriptions
  Capacity     \* of a subscriber's queue, 100 in the code

ASSUME EventsAssumption ==
  MaxChannel \in Nat /\ MaxChange \in Nat /\ MaxVisits \in Nat /\ Capacity \in Nat \ {0}

VARIABLES
  disk,      \* the last change
  calls,     \* batches on their way to the event loop
  rebuilds,  \* batches whose snapshot is being read
  channels, registered,
  client,
  absorbed,  \* changes a batch took into the snapshot of a channel without a word
  visits

events == << disk, calls, rebuilds, channels, registered, client, absorbed, visits >>

Unread == -1   \* no snapshot yet
NoChannel == 0

NewChannel == [subs |-> {}, task |-> "none", ready |-> FALSE, snapshot |-> Unread, copy |-> Unread]

Away == [pc |-> "away", ch |-> NoChannel, queue |-> << >>, since |-> Unread, heard |-> {}]

EventsInit ==
  /\ disk = 0 /\ calls = << >> /\ rebuilds = {}
  /\ channels = << >> /\ registered = NoChannel
  /\ client = [u \in Client |-> Away]
  /\ absorbed = {} /\ visits = 0

Over(c) == channels[c].task \in {"none", "done"}
At(c, task) == channels[c].task = task

-----------------------------------------------------------------------------
(* subscribe and unsubscribe *)

\* Mutant: the watcher of a channel is started once.
NeedsWatcher_First(ch) == ch.task = "none"

NeedsWatcher(ch) == ch.task \in {"none", "done"}

Joined(ch, u) ==
  LET with == [ch EXCEPT !.subs = @ \union {u}] IN
  IF NeedsWatcher(ch) THEN [with EXCEPT !.task = "scan", !.ready = FALSE] ELSE with

Subscribe(u) ==
  LET c == IF registered = NoChannel THEN Len(channels) + 1 ELSE registered IN
  /\ client[u].pc = "away" /\ visits < MaxVisits /\ visits' = visits + 1
  /\ c \in 1 .. MaxChannel
  /\ registered' = c
  /\ channels' = IF registered = NoChannel THEN Append(channels, Joined(NewChannel, u))
                 ELSE [channels EXCEPT ![c] = Joined(@, u)]
  /\ client' = [client EXCEPT ![u] = [Away EXCEPT !.pc = "waiting", !.ch = c]]
  /\ UNCHANGED << disk, calls, rebuilds, absorbed >>

\* The fingerprint in the answer tells the client what it has to load.
Answered(u) ==
  LET c == client[u].ch IN
  /\ client[u].pc = "waiting" /\ channels[c].ready
  /\ client' = [client EXCEPT ![u].pc = "in", ![u].since = channels[c].snapshot]
  /\ UNCHANGED << disk, calls, rebuilds, channels, registered, absorbed, visits >>

Hear(u) ==
  /\ client[u].pc = "in" /\ client[u].queue # << >>
  /\ client' = [client EXCEPT ![u].queue = Tail(@), ![u].heard = @ \union Head(client[u].queue)]
  /\ UNCHANGED << disk, calls, rebuilds, channels, registered, absorbed, visits >>

\* The last one to leave cancels the watcher and waits for it to end; until then the channel
\* stays in its place.
Unsubscribe(u) ==
  LET rest == channels[registered].subs \ {u} IN
  /\ client[u].pc = "in"
  /\ IF registered = NoChannel
     THEN client' = [client EXCEPT ![u] = Away] /\ UNCHANGED channels
     ELSE /\ client' = [client EXCEPT ![u] =
               IF rest # {} THEN Away ELSE [Away EXCEPT !.pc = "leaving", !.ch = registered]]
          /\ channels' = [channels EXCEPT ![registered].subs = rest,
               ![registered].task = IF rest = {} /\ ~Over(registered) THEN "cancelled" ELSE @]
  /\ UNCHANGED << disk, calls, rebuilds, registered, absorbed, visits >>

\* Whatever is registered by then is dropped.
Unregister(u) ==
  /\ client[u].pc = "leaving" /\ Over(client[u].ch)
  /\ registered' = NoChannel
  /\ client' = [client EXCEPT ![u] = Away]
  /\ UNCHANGED << disk, calls, rebuilds, channels, absorbed, visits >>

-----------------------------------------------------------------------------
(* Changes and batches *)

\* A change is announced by a batch, by a hint or not at all.
Change(emits) ==
  /\ disk < MaxChange /\ disk' = disk + 1
  /\ calls' = IF emits THEN Append(calls, disk + 1) ELSE calls
  /\ UNCHANGED << rebuilds, channels, registered, client, absorbed, visits >>

ApplyEmittedBatch ==
  /\ calls # << >> /\ calls' = Tail(calls)
  /\ rebuilds' = IF registered = NoChannel THEN rebuilds
                 ELSE rebuilds \union {[ch |-> registered, change |-> Head(calls), copy |-> Unread]}
  /\ UNCHANGED << disk, channels, registered, client, absorbed, visits >>

RebuildSnapshot(b) ==
  /\ b \in rebuilds /\ b.copy = Unread
  /\ rebuilds' = (rebuilds \ {b}) \union {[b EXCEPT !.copy = disk]}
  /\ UNCHANGED << disk, calls, channels, registered, client, absorbed, visits >>

\* Mutant: a subscriber whose queue is full is left in, without the event.
Dropped_Never(c) == {}

\* Subscribers with a full queue are dropped, and are not told so.
Dropped(c) == {u \in channels[c].subs : Len(client[u].queue) >= Capacity}

\* The channel takes in what was read, and broadcasts the changes in what.
Broadcast(c, ch, what) ==
  /\ client' = [u \in Client |->
       IF u \in ch.subs /\ Len(client[u].queue) < Capacity
       THEN [client[u] EXCEPT !.queue = Append(@, what)] ELSE client[u]]
  /\ channels' = [channels EXCEPT ![c] = [ch EXCEPT !.subs = @ \ Dropped(c)]]

Between(from, to) == {k \in 1 .. MaxChange : from < k /\ k <= to}

BroadcastBatch(b) ==
  /\ b \in rebuilds /\ b.copy # Unread
  /\ rebuilds' = rebuilds \ {b}
  /\ Broadcast(b.ch, [channels[b.ch] EXCEPT !.snapshot = b.copy], {b.change})
  /\ absorbed' = absorbed \union
       {<< b.ch, k >> : k \in Between(channels[b.ch].snapshot, b.copy) \ {b.change}}
  /\ UNCHANGED << disk, calls, registered, visits >>

-----------------------------------------------------------------------------
(* The watcher of channel c *)

Scan(c) ==
  /\ At(c, "scan")
  /\ channels' = [channels EXCEPT ![c].task = "apply", ![c].copy = disk]
  /\ UNCHANGED << disk, calls, rebuilds, registered, client, absorbed, visits >>

\* The first snapshot and one that is the same are nobody's news.  An older one, which a
\* batch overtook, takes the changes in between back, and the next scan brings them again.
ApplyScanResult(c) ==
  LET ch == channels[c]
      after == [ch EXCEPT !.snapshot = ch.copy, !.task = "wait", !.ready = TRUE]
  IN
  /\ At(c, "apply")
  /\ IF ch.snapshot \in {Unread, ch.copy}
     THEN channels' = [channels EXCEPT ![c] = after] /\ UNCHANGED client
     ELSE Broadcast(c, after, Between(ch.snapshot, ch.copy) \union Between(ch.copy, ch.snapshot))
  /\ UNCHANGED << disk, calls, rebuilds, registered, absorbed, visits >>

\* A scan that raises changes nothing, and is tried again at the next poll.
ScanFails(c) ==
  /\ At(c, "scan")
  /\ channels' = [channels EXCEPT ![c].task = "wait", ![c].ready = TRUE]
  /\ UNCHANGED << disk, calls, rebuilds, registered, client, absorbed, visits >>

\* Without subscribers the watcher ends.
WakeUp(c) ==
  /\ At(c, "wait")
  /\ channels' = [channels EXCEPT ![c].task = IF channels[c].subs = {} THEN "done" ELSE "scan"]
  /\ UNCHANGED << disk, calls, rebuilds, registered, client, absorbed, visits >>

Stop(c) ==
  /\ At(c, "cancelled")
  /\ channels' = [channels EXCEPT ![c].task = "done", ![c].ready = TRUE]
  /\ UNCHANGED << disk, calls, rebuilds, registered, client, absorbed, visits >>

-----------------------------------------------------------------------------
Visitor(u) == Subscribe(u) \/ Answered(u) \/ Hear(u) \/ Unsubscribe(u) \/ Unregister(u)

Rebuild == \E b \in rebuilds : RebuildSnapshot(b) \/ BroadcastBatch(b)

Watch(c) == ApplyScanResult(c) \/ WakeUp(c) \/ Stop(c)

EventsNext ==
  \/ \E u \in Client : Visitor(u)
  \/ \E emits \in BOOLEAN : Change(emits)
  \/ ApplyEmittedBatch \/ Rebuild
  \/ \E c \in DOMAIN channels : Scan(c) \/ ScanFails(c) \/ Watch(c)

EventsFairness ==
  /\ \A u \in Client : WF_events(Answered(u) \/ Hear(u) \/ Unregister(u))
  /\ WF_events(ApplyEmittedBatch \/ Rebuild)
  /\ \A c \in 1 .. MaxChannel : /\ WF_events(c \in DOMAIN channels /\ Watch(c))
                                 /\ SF_events(c \in DOMAIN channels /\ Scan(c))

EventsSpec == EventsInit /\ [][EventsNext]_events /\ EventsFairness

-----------------------------------------------------------------------------
(* Properties *)

\* u has its answer and is still a subscriber of the channel that is registered: it was
\* not dropped with a full queue, and no leaving subscriber took the channel away.
Standing(u) ==
  /\ client[u].pc = "in" /\ client[u].ch = registered /\ u \in channels[registered].subs
  /\ client[u].since # Unread

Told(u) == client[u].heard \union (UNION ToSet(client[u].queue))
           \union {k \in 1 .. MaxChange : << client[u].ch, k >> \in absorbed}

\* A subscriber in standing has been told of every change the snapshot went through since
\* its answer, whichever of watcher and batches put it there, except what a batch covers up.
SnapshotTold ==
  \A u \in Client :
    Standing(u) => Between(client[u].since, channels[registered].snapshot) \subseteq Told(u)

Behind(u) == Standing(u) /\ ~(Between(client[u].since, disk) \subseteq Told(u))

\* A subscriber that stays in standing catches up with the project, the changes nobody
\* announces included.
ChangesReach == \A u \in Client : Behind(u) ~> ~Behind(u)

=================================================================================
