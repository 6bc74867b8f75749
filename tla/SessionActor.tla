----------------------------- MODULE SessionActor -----------------------------
(***************************************************************************)
(* One session's actor: a task that owns the SDK client, takes commands    *)
(* from a queue, and while a query's response streams in, waits for the    *)
(* next message and for the next command at once.  A command has two       *)
(* events its callers wait for: sent (the prompt went out) and done.       *)
(* What the task does between two awaits is one action.                    *)
(***************************************************************************)
EXTENDS Sequences, Functions, FiniteSets

CONSTANTS
  Cmd,     \* the commands that callers may enqueue
  KindOf,  \* "query", "interrupt" or "disconnect"
  Raises,  \* the awaits at which an exception may come out
  NoCmd

Kind == {"query", "interrupt", "disconnect"}

ASSUME KindAssumption == KindOf \in [Cmd -> Kind]
ASSUME NoCmdAssumption == NoCmd \notin Cmd
ASSUME RaisesAssumption ==
  Raises \subseteq {"connect", "query", "stream", "interrupt", "hangup", "cancel"}

VARIABLES
  apc,    \* the await the task is suspended at
  queue,  \* _cmd_queue
  cur,    \* the query that is being sent or driven
  aside,  \* pending_query: a query that came while another one is driven
  got,    \* the result of cmd_task, when the drive has not looked at it yet
  msg,    \* the result of msg_task, when the drive has not looked at it yet
  asked,  \* the commands enqueued so far
  sent, done  \* the commands whose event is set

vars == << apc, queue, cur, aside, got, msg, asked, sent, done >>

DriveStates == {"driving", "interrupting", "hangingup"}

AwaitStates == {"connecting", "waiting", "querying", "closing"} \union DriveStates

Is(c, kind) == c # NoCmd /\ KindOf[c] = kind

\* The commands of S are completed; for those of T only done is set.
Mark(S, T) ==
  /\ sent' = sent \union S
  /\ done' = done \union S \union T

\* The command, if there is one.
Opt(c) == {c} \ {NoCmd}

\* Mutant: the loop goes on after a disconnect.
Handle_Continues(c) ==
  /\ apc' = IF Is(c, "query") THEN "querying" ELSE "waiting"
  /\ cur' = IF Is(c, "query") THEN c ELSE NoCmd

\* The command loop with its next command in hand: it goes up to its next await.
Handle(c) ==
  /\ apc' = CASE Is(c, "disconnect") -> "closing"
              [] Is(c, "query") -> "querying"
              [] OTHER -> "waiting"
  /\ cur' = IF Is(c, "query") THEN c ELSE NoCmd

\* The command loop answers these at once.
Acked(c) == IF Is(c, "query") THEN {} ELSE Opt(c)

Init ==
  /\ apc = "connecting"
  /\ queue = << >>
  /\ cur = NoCmd /\ aside = NoCmd /\ got = NoCmd
  /\ msg = "none"
  /\ asked = {} /\ sent = {} /\ done = {}

\* A caller enqueues a command; an actor that has ended refuses it.
Enqueue(c) ==
  /\ c \notin asked
  /\ asked' = asked \union {c}
  /\ IF apc = "ended"
     THEN Mark({c}, {}) /\ UNCHANGED queue
     ELSE Mark({}, {}) /\ queue' = Append(queue, c)
  /\ UNCHANGED << apc, cur, aside, got, msg >>

\* Mutant: no drain.
End_Undrained ==
  /\ apc' = "ended"
  /\ queue' = << >>
  /\ Mark({}, {})

\* The task is over: what is left in the queue is released.
End ==
  /\ apc' = "ended"
  /\ queue' = << >>
  /\ Mark(Range(queue), {})

Connected ==
  /\ apc = "connecting"
  /\ apc' = "waiting"
  /\ UNCHANGED << queue, cur, aside, got, msg, asked, sent, done >>

ConnectRaises ==
  /\ apc = "connecting" /\ "connect" \in Raises
  /\ End
  /\ UNCHANGED << cur, aside, got, msg, asked >>

Take ==
  /\ apc = "waiting" /\ queue # << >>
  /\ Handle(Head(queue))
  /\ Mark(Acked(Head(queue)), {})
  /\ queue' = Tail(queue)
  /\ UNCHANGED << aside, got, msg, asked >>

QuerySent ==
  /\ apc = "querying"
  /\ apc' = "driving"
  /\ sent' = sent \union {cur}
  /\ msg' = "none"
  /\ UNCHANGED << queue, cur, aside, got, asked, done >>

\* Mutant: the query set aside is left where it is.
Unwind_QueryOnly(S) ==
  /\ apc' = "closing"
  /\ Mark(Opt(cur) \union S, {})
  /\ cur' = NoCmd /\ got' = NoCmd /\ msg' = "none"
  /\ UNCHANGED << queue, aside, asked >>

\* An exception leaves the drive or the query call: the query and the one set
\* aside are released, with those of S; the client is closed.
Unwind(S) ==
  /\ apc' = "closing"
  /\ Mark(Opt(cur) \union Opt(aside) \union S, {})
  /\ cur' = NoCmd /\ aside' = NoCmd /\ got' = NoCmd /\ msg' = "none"
  /\ UNCHANGED << queue, asked >>

QueryRaises == apc = "querying" /\ "query" \in Raises /\ Unwind({})

\* The SDK delivers a message, the end of the stream or an error.
Stream(m) ==
  /\ apc \in DriveStates /\ msg = "none"
  /\ msg' = m
  /\ UNCHANGED << apc, queue, cur, aside, got, asked, sent, done >>

StreamMessage == Stream("message")
StreamEnds == Stream("end")
StreamFails == "stream" \in Raises /\ Stream("error")

\* cmd_task takes a command from the queue.
Get ==
  /\ apc = "driving" /\ got = NoCmd /\ queue # << >>
  /\ got' = Head(queue)
  /\ queue' = Tail(queue)
  /\ UNCHANGED << apc, cur, aside, msg, asked, sent, done >>

\* The drive looks at the command it got, if any.
Dispatch ==
  \/ /\ got = NoCmd
     /\ Mark({}, {}) /\ UNCHANGED << apc, aside, got >>
  \/ /\ Is(got, "interrupt")
     /\ apc' = "interrupting" /\ Mark({}, {}) /\ UNCHANGED << aside, got >>
  \/ /\ Is(got, "disconnect")
     /\ apc' = "hangingup" /\ Mark({}, {}) /\ UNCHANGED << aside, got >>
  \/ /\ Is(got, "query") /\ aside = NoCmd
     /\ aside' = got /\ got' = NoCmd /\ Mark({}, {}) /\ UNCHANGED apc
  \/ /\ Is(got, "query") /\ aside # NoCmd
     /\ got' = NoCmd /\ Mark({got}, {}) /\ UNCHANGED << apc, aside >>

\* The drive wakes for a message, a command, or both.
Wake ==
  /\ apc = "driving"
  /\ msg \in {"none", "message"}
  /\ msg = "message" \/ got # NoCmd
  /\ msg' = "none"
  /\ Dispatch
  /\ UNCHANGED << queue, cur, asked >>

\* Mutant: the query set aside is handed on, and released on the way out.
EndOfStream_ReleasesAside ==
  /\ apc = "driving" /\ msg = "end"
  /\ Handle(IF aside # NoCmd THEN aside ELSE got)
  /\ Mark(Acked(IF aside # NoCmd THEN NoCmd ELSE got) \union Opt(aside), {cur})
  /\ queue' = IF aside # NoCmd /\ got # NoCmd THEN Append(queue, got) ELSE queue
  /\ aside' = NoCmd /\ got' = NoCmd /\ msg' = "none"
  /\ UNCHANGED asked

\* Mutant: a command that came with the end of the stream is not put back.
EndOfStream_NoPutBack ==
  /\ apc = "driving" /\ msg = "end"
  /\ Handle(IF aside # NoCmd THEN aside ELSE got)
  /\ Mark(Acked(IF aside # NoCmd THEN aside ELSE got), {cur})
  /\ aside' = NoCmd /\ got' = NoCmd /\ msg' = "none"
  /\ UNCHANGED << queue, asked >>

\* The drive wakes for the end of the stream: the query is done, the loop goes
\* on with the query set aside, or else with the command that just came.
EndOfStream ==
  LET next == IF aside # NoCmd THEN aside ELSE got
      back == aside # NoCmd /\ got # NoCmd
  IN /\ apc = "driving" /\ msg = "end"
     /\ Handle(next)
     /\ Mark(Acked(next), {cur})
     /\ queue' = IF back THEN Append(queue, got) ELSE queue
     /\ aside' = NoCmd /\ got' = NoCmd /\ msg' = "none"
     /\ UNCHANGED asked

\* The drive wakes for an error of the stream; the command it got is forgotten.
StreamError == apc = "driving" /\ msg = "error" /\ Unwind({})

Interrupted ==
  /\ apc = "interrupting"
  /\ apc' = "driving"
  /\ Mark({got}, {})
  /\ got' = NoCmd
  /\ UNCHANGED << queue, cur, aside, msg, asked >>

InterruptRaises ==
  apc = "interrupting" /\ "interrupt" \in Raises /\ Unwind({got})

\* The interrupt before a disconnect came through: the loop gets the disconnect.
HungUp ==
  /\ apc = "hangingup"
  /\ Handle(got)
  /\ Mark(Opt(aside) \union Acked(got), {cur})
  /\ aside' = NoCmd /\ got' = NoCmd /\ msg' = "none"
  /\ UNCHANGED << queue, asked >>

\* It raised: the disconnect is forgotten.
HangUpRaises == apc = "hangingup" /\ "hangup" \in Raises /\ Unwind({})

\* The client has been closed.
Closed ==
  /\ apc = "closing"
  /\ End
  /\ UNCHANGED << cur, aside, got, msg, asked >>

\* cancel_and_wait: a CancelledError comes out of the await.
Cancelled ==
  /\ "cancel" \in Raises
  /\ \/ /\ apc \in {"connecting", "closing"}
        /\ End /\ UNCHANGED << cur, aside, got, msg, asked >>
     \/ apc \in {"waiting", "querying", "driving", "hangingup"} /\ Unwind({})
     \/ apc = "interrupting" /\ Unwind({got})

\* A step of the task, whose awaits all return.
Step ==
  \/ Connected \/ ConnectRaises \/ Take \/ QuerySent \/ QueryRaises
  \/ Wake \/ EndOfStream \/ StreamError
  \/ Interrupted \/ InterruptRaises \/ HungUp \/ HangUpRaises \/ Closed

Next ==
  \/ \E c \in Cmd : Enqueue(c)
  \/ Step \/ Get \/ Cancelled
  \/ StreamMessage \/ StreamEnds \/ StreamFails

Spec == Init /\ [][Next]_vars

\* The event loop runs what is ready; a response may stream forever.
FairSpec == Spec /\ WF_vars(Step) /\ WF_vars(Get)
--------------------------------------------------------------------------------
\* Where the commands are: the values have their types, and the task holds a
\* command only at the awaits where the code has one in a local variable.
TypeOK ==
  /\ apc \in AwaitStates \union {"ended"}
  /\ queue \in Seq(Cmd)
  /\ {cur, aside, got} \subseteq Cmd \union {NoCmd}
  /\ msg \in {"none", "message", "end", "error"}
  /\ asked \subseteq Cmd /\ sent \subseteq Cmd /\ done \subseteq Cmd
  /\ (cur # NoCmd) <=> (apc \in DriveStates \union {"querying"})
  /\ aside # NoCmd \/ got # NoCmd => apc \in DriveStates
  /\ apc = "interrupting" => Is(got, "interrupt")
  /\ apc = "hangingup" => Is(got, "disconnect")
  /\ apc = "ended" => queue = << >>

Held == Range(queue) \union {cur, aside, got}

\* complete() is the one contract point: whoever waits for the prompt to go out
\* (send_query) is awake whenever whoever waits for the turn to end would be.
SentWhenDone == done \subseteq sent

\* A command that was enqueued and not answered is somewhere the task will look:
\* in the queue, driven, set aside or just dequeued.  The drive moves commands
\* between these places while a message, the end of a stream or another command
\* arrives in the same wakeup.
NoneMislaid == asked \ done \subseteq Held

\* When the task is over, normally or by an exception, nobody still waits for a
\* command, neither for its prompt to go out (send_query) nor for the end of its
\* turn: the drain in _run is there to keep callers from hanging.
Released == apc = "ended" => asked \subseteq done \intersect sent

\* A prompt goes out once, and never after its caller has been told that it will
\* not (the session is busy, the actor is closed).
SentOnce == [][apc = "querying" /\ apc' = "driving" => cur \notin sent]_vars

\* A response that may end at any moment does not stream forever.
StreamsEnd == SF_vars(StreamEnds)

\* Every command is answered, if no response streams forever.
NobodyHangs == StreamsEnd => \A c \in Cmd : c \in asked ~> c \in done

\* Interrupts and disconnects are answered, and a disconnect ends the actor, even
\* if the response streams forever: they are what a caller has against it.
ControlsWork ==
  \A c \in Cmd :
    /\ KindOf[c] # "query" => (c \in asked ~> c \in done)
    /\ KindOf[c] = "disconnect" => (c \in asked ~> apc = "ended")
================================================================================
