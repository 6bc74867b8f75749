----------------------------- MODULE SessionManager -----------------------------
(***************************************************************************)
(* The registry of live agent sessions: connecting, creating, sending,     *)
(* interrupting, the settling of a turn, the eviction of idle sessions,    *)
(* deletion, and the status that memory and the table agent_sessions keep  *)
(* of each.  A ManagedSession is numbered by the order of creation; its    *)
(* actor is reduced to what SessionActor promises.  Every action runs from *)
(* one await to the next; a write to the table is an action of its own.    *)
(***************************************************************************)
EXTENDS Integers, Sequences, FiniteSets, SequencesExt, Functions

CONSTANTS
  Session,      \* sdk session ids
  Stored,       \* the sessions that have a row when the server starts
  Request,      \* tasks of the server that serve one request at a time
  Limit,        \* agent_max_concurrent_sessions
  MaxBegun,     \* bound on requests
  MaxFaults,    \* bound on what nobody asked for: actors that die, connects that fail,
                \* disconnects that time out, rounds of the patrol, server restarts
  None

Conn == 1..MaxBegun

ASSUME SessionAssumption ==
  /\ Stored \subseteq Session
  /\ None \notin Session \union Conn \union Request
  /\ None \notin {"send", "new", "interrupt", "delete"}
  /\ Session \intersect Conn = {} /\ IsFiniteSet(Request)
ASSUME SessionBounds ==
  /\ Limit \in Nat \ {0}
  /\ MaxBegun \in Nat /\ MaxFaults \in Nat

VARIABLES
  sessions,       \* the registry, by id; a new session is under its number
  disconnecting,  \* evictions under way: of which connection, under which id, for whom
  managed,        \* the ManagedSession objects
  locks,          \* how often the connect lock of an id was thrown away
  row,            \* status in agent_sessions
  late,           \* error statuses that detached tasks are about to write
  req,            \* the requests
  overlap,        \* ids that a request set out to connect during their disconnect,
                  \* or under a lock that was thrown away; and numbers under which
                  \* a session was being evicted when it got its id
  begun, faults

vars == << sessions, disconnecting, managed, locks, row, late, req, overlap,
           begun, faults >>

Id == Session \union Conn

Settled == {"completed", "interrupted", "error"}

Status == {"idle", "running", "closed"} \union Settled

Blank == [id |-> None, sdk |-> None, status |-> "idle", actor |-> "none",
          cmds |-> << >>, interrupted |-> FALSE, asking |-> FALSE,
          inbox |-> << >>, proc |-> "off", timer |-> FALSE]

Idle == [pc |-> "idle", op |-> None, sid |-> None, c |-> None, meta |-> None, lock |-> 0]

Init ==
  /\ sessions = [i \in Id |-> None]
  /\ disconnecting = {}
  /\ managed = [c \in Conn |-> Blank]
  /\ locks = [s \in Session |-> 0]
  /\ row = [s \in Session |-> IF s \in Stored THEN "idle" ELSE "absent"]
  /\ late = {}
  /\ req = [r \in Request |-> Idle]
  /\ overlap = {}
  /\ begun = 0 /\ faults = 0

Alive(c) == managed[c].actor \in {"starting", "ready", "driving"}

Evicted == {e.c : e \in disconnecting}

Disconnecting(i) == \E e \in disconnecting : e.id = i

Usable(i) == sessions[i] # None /\ ~ Disconnecting(i)

\* What _ensure_capacity counts.
Active == {c \in Conn : \E i \in Id : sessions[i] = c /\ ~ Disconnecting(managed[c].id)}

Used == {c \in Conn : managed[c].actor # "none"}

Done(r) == [req EXCEPT ![r] = Idle]

At(r, pc) == req[r].pc = pc

Fault == faults < MaxFaults /\ faults' = faults + 1

\* update_status: a session without a row is left alone.
Write(s, status) == row' = IF row[s] = "absent" THEN row ELSE [row EXCEPT ![s] = status]

-----------------------------------------------------------------------------
(* The actor, as its commands and callbacks show it. *)

Callers(c) == {managed[c].cmds[n].by : n \in DOMAIN managed[c].cmds}

\* The task ends: what is queued is refused, the inbox gets its sentinel.
Over(m, status) ==
  [m EXCEPT !.actor = "over", !.cmds = << >>, !.asking = FALSE, !.status = status,
            !.inbox = Append(@, "stop")]

\* Requests whose command was refused resume with its error.
Refused(c) == [r \in Request |-> IF r \in Callers(c) /\ req[r].pc = "sending"
                                 THEN [req[r] EXCEPT !.pc = "failed"]
                                 ELSE IF r \in Callers(c) /\ req[r].pc = "interrupting"
                                 THEN [req[r] EXCEPT !.pc = "unheard"]
                                 ELSE req[r]]

\* A query goes out when the actor is free.
ActorSends(c) ==
  LET cmd == Head(managed[c].cmds)
      r == cmd.by IN
  /\ managed[c].actor = "ready" /\ managed[c].cmds # << >> /\ cmd.kind = "query"
  /\ managed' = [managed EXCEPT ![c].actor = "driving", ![c].cmds = Tail(@)]
  /\ req' = IF req[r].op = "new" THEN [req EXCEPT ![r].pc = "naming"] ELSE Done(r)
  /\ UNCHANGED << sessions, disconnecting, locks, row, late, overlap, begun, faults >>

\* An interrupt is heard at once, also during a turn.
ActorInterrupted(c) ==
  \E n \in DOMAIN managed[c].cmds :
    LET cmd == managed[c].cmds[n] IN
    /\ cmd.kind = "interrupt" /\ managed[c].actor \in {"ready", "driving"}
    /\ managed[c].actor = "ready" => n = 1
    /\ managed' = [managed EXCEPT ![c].cmds = RemoveAt(@, n)]
    /\ req' = Done(cmd.by)
    /\ UNCHANGED << sessions, disconnecting, locks, row, late, overlap, begun, faults >>

\* A disconnect ends the actor, also during a turn.
ActorLeaves(c) ==
  \E n \in DOMAIN managed[c].cmds :
    /\ managed[c].cmds[n].kind = "disconnect" /\ managed[c].actor \in {"ready", "driving"}
    /\ managed[c].actor = "ready" => n = 1
    /\ managed' = [managed EXCEPT ![c] = Over(@, @.status)]
    /\ req' = Refused(c)
    /\ UNCHANGED << sessions, disconnecting, locks, row, late, overlap, begun, faults >>

\* _on_done: the status is error at once, the row follows in a task of its own.
ActorCrashes(c) ==
  /\ managed[c].actor \in {"ready", "driving"}
  /\ Fault
  /\ managed' = [managed EXCEPT ![c] = Over(@, "error")]
  /\ late' = late \union ({managed[c].id} \intersect Session)
  /\ req' = Refused(c)
  /\ UNCHANGED << sessions, disconnecting, locks, row, overlap, begun >>

PersistActorError(s) ==
  /\ s \in late /\ late' = late \ {s}
  /\ Write(s, "error")
  /\ UNCHANGED << sessions, disconnecting, managed, locks, req, overlap, begun, faults >>

\* The first message of a new session carries its id.
FirstMessage(c) ==
  /\ managed[c].actor = "driving" /\ managed[c].sdk = None
  /\ managed[c].inbox = << >> /\ managed[c].proc = "waiting"
  /\ managed' = [managed EXCEPT ![c].inbox = << "init" >>]
  /\ UNCHANGED << sessions, disconnecting, locks, row, late, req, overlap, begun, faults >>

\* AskUserQuestion: the agent waits for the user in the middle of its turn.
AskUser(c) ==
  /\ managed[c].actor = "driving" /\ ~ managed[c].asking
  /\ managed[c].sdk # None
  /\ managed' = [managed EXCEPT ![c].asking = TRUE]
  /\ UNCHANGED << sessions, disconnecting, locks, row, late, req, overlap, begun, faults >>

\* _resolve_result_status: an error counts as an interrupt if one was asked for.
ResultStatus(c, isError) ==
  IF ~ isError THEN "completed"
  ELSE IF managed[c].interrupted THEN "interrupted" ELSE "error"

\* The result of a turn; its status is decided before anybody sees it.
TurnEnds(c) ==
  /\ managed[c].actor = "driving" /\ ~ managed[c].asking /\ managed[c].sdk # None
  /\ \E isError \in BOOLEAN :
       managed' = [managed EXCEPT ![c].actor = "ready",
                                  ![c].inbox = Append(@, ResultStatus(c, isError))]
  /\ UNCHANGED << sessions, disconnecting, locks, row, late, req, overlap, begun, faults >>

-----------------------------------------------------------------------------
(* _process_inbox *)

\* It takes a message up to the first write this asks for.
ProcessInbox(c) ==
  /\ managed[c].proc = "waiting" /\ managed[c].inbox # << >>
  /\ LET m == Head(managed[c].inbox) IN
     \/ /\ m = "stop"
        /\ managed' = [managed EXCEPT ![c].proc = "over", ![c].inbox = Tail(@)]
     \/ /\ m = "init"
        /\ \E s \in Session :
             /\ row[s] = "absent" /\ s \notin Stored
             /\ \A d \in Conn : managed[d].sdk # s
             /\ managed' = [managed EXCEPT ![c].proc = "creating", ![c].sdk = s,
                                           ![c].inbox = Tail(@)]
     \/ /\ m \in Settled
        /\ managed' = [managed EXCEPT ![c].proc = "finalizing", ![c].status = m,
                                      ![c].asking = FALSE]
  /\ UNCHANGED << sessions, disconnecting, locks, row, late, req, overlap, begun, faults >>

\* meta_store.create
CreateRow(c) ==
  /\ managed[c].proc = "creating"
  /\ row' = [row EXCEPT ![managed[c].sdk] = "idle"]
  /\ managed' = [managed EXCEPT ![c].proc = "naming"]
  /\ UNCHANGED << sessions, disconnecting, locks, late, req, overlap, begun, faults >>

\* update_status, then the key swap, then whoever waits for the id goes on.
SwapKey(c) ==
  LET s == managed[c].sdk IN
  /\ managed[c].proc = "naming"
  /\ Write(s, "running")
  /\ IF sessions[managed[c].id] # None
     THEN /\ sessions' = [sessions EXCEPT ![managed[c].id] = None, ![s] = c]
          /\ managed' = [managed EXCEPT ![c].proc = "waiting", ![c].id = s]
          /\ overlap' = IF Disconnecting(managed[c].id) THEN overlap \union {managed[c].id} ELSE overlap
     ELSE /\ managed' = [managed EXCEPT ![c].proc = "waiting"]
          /\ UNCHANGED << sessions, overlap >>
  /\ req' = [r \in Request |-> IF At(r, "naming") /\ req[r].c = c THEN Idle ELSE req[r]]
  /\ UNCHANGED << disconnecting, locks, late, begun, faults >>

\* _finalize_turn from its write on; it arms the timer of whoever has the id now.
Finalize(c) ==
  LET id == managed[c].id
      d == sessions[id]
      settled == [managed EXCEPT ![c].proc = "waiting", ![c].inbox = Tail(@),
                                 ![c].interrupted = FALSE] IN
  /\ managed[c].proc = "finalizing"
  /\ IF id \in Session THEN Write(id, Head(managed[c].inbox)) ELSE UNCHANGED row
  /\ managed' = IF d = None THEN settled ELSE [settled EXCEPT ![d].timer = TRUE]
  /\ UNCHANGED << sessions, disconnecting, locks, late, req, overlap, begun, faults >>

-----------------------------------------------------------------------------
(* Connecting: get_or_connect and the first half of send_new_session. *)

Enqueue(m, kind, r) ==
  IF m.actor = "over" THEN m
  ELSE [m EXCEPT !.cmds = Append(@, [kind |-> kind, by |-> r])]

\* The status a session is resumed with.
Resumed(status) == IF status = "completed" THEN "idle" ELSE status

\* Registered, and its actor is starting.  S and M are registry and objects so far.
Open(r, S, M) ==
  LET c == Cardinality(Used) + 1
      new == req[r].op = "new"
      i == IF new THEN c ELSE req[r].sid IN
  /\ sessions' = [S EXCEPT ![i] = c]
  /\ managed' = [M EXCEPT ![c] =
       [Blank EXCEPT !.id = i, !.actor = "starting",
                     !.sdk = IF new THEN None ELSE i,
                     !.status = IF new THEN "running" ELSE Resumed(req[r].meta)]]
  /\ req' = [req EXCEPT ![r].pc = "starting", ![r].c = c]

\* send_message has its session: it goes on to the write of the status.
Attach(r, c, M) ==
  /\ managed' = [M EXCEPT ![c].timer = FALSE]
  /\ req' = IF M[c].status = "running" THEN Done(r)
            ELSE [req EXCEPT ![r].pc = "marking", ![r].c = c]

\* Somebody is inside the connect lock with this number.
Locked(s, n) ==
  \E q \in Request : /\ req[q].op = "send" /\ req[q].sid = s /\ req[q].lock = n
                     /\ req[q].pc \in {"capacity", "evicting", "starting"}

Inside(r, n) ==
  /\ req' = [req EXCEPT ![r].pc = "capacity", ![r].lock = n]
  /\ overlap' = IF Disconnecting(req[r].sid) \/ n # locks[req[r].sid]
                THEN overlap \union {req[r].sid} ELSE overlap
  /\ UNCHANGED managed

\* The fast path, or the connect lock of the id, which is made on demand.
LookUp(r) ==
  LET s == req[r].sid IN
  /\ At(r, "looking")
  /\ \/ Usable(s) /\ Attach(r, sessions[s], managed) /\ UNCHANGED overlap
     \/ ~ Usable(s) /\ ~ Locked(s, locks[s]) /\ Inside(r, locks[s])
     \/ /\ ~ Usable(s) /\ Locked(s, locks[s])
        /\ req' = [req EXCEPT ![r].pc = "queued", ![r].lock = locks[s]]
        /\ UNCHANGED << managed, overlap >>
  /\ UNCHANGED << sessions, disconnecting, locks, row, late, begun, faults >>

\* Mutant: no second look inside the lock.
Recheck_None(r) == Inside(r, req[r].lock)

\* The second look, inside the lock.
Recheck(r) ==
  IF Usable(req[r].sid)
  THEN Attach(r, sessions[req[r].sid], managed) /\ UNCHANGED overlap
  ELSE Inside(r, req[r].lock)

AcquireLock(r) ==
  /\ At(r, "queued") /\ ~ Locked(req[r].sid, req[r].lock)
  /\ Recheck(r)
  /\ UNCHANGED << sessions, disconnecting, locks, row, late, begun, faults >>

\* Eviction starts.  A clean-up timer that is pending is cancelled first, which
\* takes an await; then the disconnect is enqueued.
Evict(M, c, by) ==
  /\ managed' = IF M[c].timer THEN [M EXCEPT ![c].timer = FALSE]
                ELSE [M EXCEPT ![c] = Enqueue(@, "disconnect", None)]
  /\ disconnecting' = disconnecting \union
       {[id |-> managed[c].id, c |-> c, by |-> by,
         step |-> IF M[c].timer THEN "begin" ELSE "disconnect"]}

\* Mutant: it evicts nobody and lets everybody in.
HasSlot_Always == TRUE

HasSlot == Cardinality(Active) < Limit

\* The least recently used session that is not running makes room; the model has
\* no clock, so it may be any of them.
EnsureCapacity(r) ==
  LET evictable == {c \in Active : managed[c].status # "running"} IN
  /\ At(r, "capacity")
  /\ \/ HasSlot /\ Open(r, sessions, managed) /\ UNCHANGED disconnecting
     \/ /\ ~ HasSlot /\ evictable # {}
        /\ \E c \in evictable : Evict(managed, c, r)
        /\ req' = [req EXCEPT ![r].pc = "evicting"]
        /\ UNCHANGED sessions
     \/ /\ ~ HasSlot /\ evictable = {}
        /\ req' = Done(r) /\ UNCHANGED << sessions, managed, disconnecting >>
  /\ UNCHANGED << locks, row, late, overlap, begun, faults >>

\* connect() returned: the inbox is attended; then the prompt goes its way.
Started(r) ==
  LET c == req[r].c
      up == [managed EXCEPT ![c].actor = "ready", ![c].proc = "waiting"] IN
  /\ At(r, "starting") /\ managed[c].actor = "starting"
  /\ IF req[r].op = "send" THEN Attach(r, c, up)
     ELSE /\ managed' = [up EXCEPT ![c] = Enqueue(@, "query", r)]
          /\ req' = [req EXCEPT ![r].pc = "sending"]
  /\ UNCHANGED << sessions, disconnecting, locks, row, late, overlap, begun, faults >>

\* connect() raised.
StartFails(r) ==
  LET c == req[r].c IN
  /\ At(r, "starting") /\ managed[c].actor = "starting"
  /\ Fault
  /\ sessions' = [sessions EXCEPT ![managed[c].id] = None]
  /\ managed' = [managed EXCEPT ![c].actor = "over", ![c].cmds = << >>]
  /\ req' = [Refused(c) EXCEPT ![r] = Idle]
  /\ UNCHANGED << disconnecting, locks, row, late, overlap, begun >>

-----------------------------------------------------------------------------
(* The rest of _evict_one. *)

Step(e, step) == disconnecting' = (disconnecting \ {e}) \union {[e EXCEPT !.step = step]}

\* The id leaves the registry, its lock is thrown away, and whoever asked for the
\* eviction goes on: to connect, to delete, or to nothing.
Leave(e, M) ==
  LET S == [sessions EXCEPT ![e.id] = None] IN
  /\ disconnecting' = disconnecting \ {e}
  /\ locks' = IF e.id \in Session THEN [locks EXCEPT ![e.id] = @ + 1] ELSE locks
  /\ IF e.by # None /\ req[e.by].op # "delete"
     THEN Open(e.by, S, M)
     ELSE /\ sessions' = S /\ managed' = M
          /\ req' = IF e.by = None THEN req ELSE [req EXCEPT ![e.by].pc = "deleting"]

HangUp(e) ==
  /\ e.step = "begin" /\ Step(e, "disconnect")
  /\ managed' = [managed EXCEPT ![e.c] = Enqueue(@, "disconnect", None)]
  /\ UNCHANGED << sessions, locks, row, late, req, overlap, begun, faults >>

\* send_disconnect returned.
Disconnected(e) ==
  /\ e.step = "disconnect" /\ managed[e.c].actor = "over" /\ Step(e, "drain")
  /\ managed' = [managed EXCEPT ![e.c].status = "closed", ![e.c].inbox = Append(@, "stop")]
  /\ UNCHANGED << sessions, locks, row, late, req, overlap, begun, faults >>

\* It did not return in time: the actor's task is cancelled.
DisconnectTimesOut(e) ==
  /\ e.step = "disconnect" /\ managed[e.c].actor \in {"ready", "driving"} /\ Step(e, "drain")
  /\ managed' = [managed EXCEPT ![e.c] = Over(@, "interrupted")]
  /\ Fault
  /\ req' = Refused(e.c)
  /\ UNCHANGED << sessions, locks, row, late, overlap, begun >>

\* The inbox is drained; an abnormal status has to be written down.
Drained(e) ==
  LET m == managed[e.c]
      status == IF m.sdk # None /\ m.status = "running" THEN "interrupted" ELSE m.status
      M == [managed EXCEPT ![e.c].status = status] IN
  /\ e.step = "drain" /\ m.proc \in {"off", "over"}
  /\ IF m.sdk # None /\ status \in {"interrupted", "error"}
     THEN Step(e, "persist") /\ managed' = M /\ UNCHANGED << sessions, locks, req >>
     ELSE Leave(e, M)
  /\ UNCHANGED << row, late, overlap, begun, faults >>

Persist(e) ==
  /\ e.step = "persist"
  /\ Write(managed[e.c].sdk, managed[e.c].status)
  /\ Leave(e, managed)
  /\ UNCHANGED << late, overlap, begun, faults >>

\* A clean-up timer goes off.  It looks its session up by id.
TimerFires(c) ==
  LET d == sessions[managed[c].id]
      M == [managed EXCEPT ![c].timer = FALSE] IN
  /\ managed[c].timer
  /\ IF d # None /\ managed[d].status \in {"idle"} \union Settled /\ Usable(managed[d].id)
     THEN Evict([M EXCEPT ![d].timer = FALSE], d, None)
     ELSE managed' = M /\ UNCHANGED disconnecting
  /\ UNCHANGED << sessions, locks, row, late, req, overlap, begun, faults >>

\* The patrol evicts what has not been active for long.
Patrol(c) ==
  /\ c \in Active /\ managed[c].status # "running"
  /\ Fault
  /\ Evict(managed, c, None)
  /\ UNCHANGED << sessions, locks, row, late, req, overlap, begun >>

-----------------------------------------------------------------------------
(* Requests. *)

Begins(r, op, s, pc) ==
  /\ At(r, "idle") /\ begun < MaxBegun /\ begun' = begun + 1
  /\ req' = [req EXCEPT ![r] = [Idle EXCEPT !.op = op, !.sid = s, !.pc = pc,
                                !.meta = IF s = None THEN None ELSE row[s]]]

\* Clients name a session that has a row, once its creation was answered.
Known(s) == row[s] # "absent" /\ \A c \in Conn : managed[c].proc = "naming" => managed[c].sdk # s

SendArrives(r, s) ==
  /\ Known(s) /\ Begins(r, "send", s, "looking")
  /\ UNCHANGED << sessions, disconnecting, managed, locks, row, late, overlap, faults >>

NewArrives(r) ==
  /\ Begins(r, "new", None, "capacity")
  /\ UNCHANGED << sessions, disconnecting, managed, locks, row, late, overlap, faults >>

InterruptArrives(r, s) ==
  /\ Known(s) /\ Begins(r, "interrupt", s, "stopping")
  /\ UNCHANGED << sessions, disconnecting, managed, locks, row, late, overlap, faults >>

\* close_session comes first, and does nothing for a session that is leaving.
DeleteArrives(r, s) ==
  LET M == [managed EXCEPT ![sessions[s]].asking = FALSE] IN
  /\ Known(s)
  /\ IF Usable(s)
     THEN Begins(r, "delete", s, "evicting") /\ Evict(M, sessions[s], r)
     ELSE /\ Begins(r, "delete", s, "deleting") /\ UNCHANGED disconnecting
          /\ managed' = IF sessions[s] = None THEN managed ELSE M
  /\ UNCHANGED << sessions, locks, row, late, overlap, faults >>

DeleteRow(r) ==
  /\ At(r, "deleting")
  /\ row' = [row EXCEPT ![req[r].sid] = "absent"]
  /\ req' = Done(r)
  /\ UNCHANGED << sessions, disconnecting, managed, locks, late, overlap, begun, faults >>

\* send_message after its write: send_query.
MarkRunning(r) ==
  LET c == req[r].c
      over == managed[c].actor = "over" IN
  /\ At(r, "marking")
  /\ Write(req[r].sid, "running")
  /\ managed' = [managed EXCEPT ![c] =
       Enqueue([@ EXCEPT !.status = IF over THEN "error" ELSE "running"], "query", r)]
  /\ req' = [req EXCEPT ![r].pc = IF over THEN "failing" ELSE "sending"]
  /\ UNCHANGED << sessions, disconnecting, locks, late, overlap, begun, faults >>

\* The prompt was refused.  A new session is dropped with it.
SendFails(r) ==
  LET c == req[r].c IN
  /\ At(r, "failed")
  /\ IF req[r].op = "send"
     THEN /\ managed' = [managed EXCEPT ![c].status = "error"]
          /\ req' = [req EXCEPT ![r].pc = "failing"] /\ UNCHANGED sessions
     ELSE /\ managed' = [managed EXCEPT ![c].status = "closed", ![c].proc = "over"]
          /\ sessions' = [sessions EXCEPT ![c] = None]
          /\ req' = Done(r)
  /\ UNCHANGED << disconnecting, locks, row, late, overlap, begun, faults >>

\* Mutant: the error is not written down.
RecordFailure_Not(r) == UNCHANGED row

RecordFailure(r) == Write(req[r].sid, "error")

FailureRecorded(r) ==
  /\ At(r, "failing") /\ RecordFailure(r) /\ req' = Done(r)
  /\ UNCHANGED << sessions, disconnecting, managed, locks, late, overlap, begun, faults >>

\* No session id in time, or the actor ended before it told one.
NamingFails(r) ==
  LET c == req[r].c IN
  /\ At(r, "naming")
  /\ sessions' = [sessions EXCEPT ![c] = None]
  /\ managed' = [managed EXCEPT ![c] = Enqueue([@ EXCEPT !.asking = FALSE], "disconnect", None)]
  /\ req' = [req EXCEPT ![r].pc = "dropping"]
  /\ UNCHANGED << disconnecting, locks, row, late, overlap, begun, faults >>

Dropped(r) ==
  LET c == req[r].c IN
  /\ At(r, "dropping") /\ managed[c].actor = "over"
  /\ managed' = [managed EXCEPT ![c].status = "closed", ![c].proc = "over"]
  /\ req' = Done(r)
  /\ UNCHANGED << sessions, disconnecting, locks, row, late, overlap, begun, faults >>

\* interrupt_session: a session that nobody has live is repaired in the table.
Interrupt(r) ==
  LET c == sessions[req[r].sid]
      stop == [managed[c] EXCEPT !.interrupted = TRUE, !.asking = FALSE]
      busy == \E q \in Request : At(q, "interrupting") /\ req[q].c = c IN
  /\ At(r, "stopping")
  /\ IF c = None
     THEN /\ req' = IF req[r].meta = "running" THEN [req EXCEPT ![r].pc = "repairing"] ELSE Done(r)
          /\ UNCHANGED managed
     ELSE IF managed[c].status # "running" THEN req' = Done(r) /\ UNCHANGED managed
     ELSE IF managed[c].actor = "over"
     THEN req' = Done(r) /\ managed' = [managed EXCEPT ![c] = [stop EXCEPT !.status = "error"]]
     ELSE /\ managed' = [managed EXCEPT ![c] = IF busy THEN stop ELSE Enqueue(stop, "interrupt", r)]
          /\ req' = IF busy THEN Done(r)
                    ELSE [req EXCEPT ![r].pc = "interrupting", ![r].c = c]
  /\ UNCHANGED << sessions, disconnecting, locks, row, late, overlap, begun, faults >>

InterruptUnheard(r) ==
  /\ At(r, "unheard")
  /\ managed' = [managed EXCEPT ![req[r].c].status = "error"]
  /\ req' = Done(r)
  /\ UNCHANGED << sessions, disconnecting, locks, row, late, overlap, begun, faults >>

Repair(r) ==
  /\ At(r, "repairing") /\ Write(req[r].sid, "interrupted") /\ req' = Done(r)
  /\ UNCHANGED << sessions, disconnecting, managed, locks, late, overlap, begun, faults >>

AnswerUser(c) ==
  /\ managed[c].asking /\ c \in Range(sessions) /\ managed[c].status = "running"
  /\ managed' = [managed EXCEPT ![c].asking = FALSE]
  /\ UNCHANGED << sessions, disconnecting, locks, row, late, req, overlap, begun, faults >>

\* Nothing is closed when the server stops; on its start it settles the rows.
ServerRestarts ==
  /\ Fault
  /\ sessions' = [i \in Id |-> None]
  /\ managed' = [c \in Conn |-> IF managed[c].actor = "none" THEN Blank
                                ELSE [Blank EXCEPT !.actor = "over", !.sdk = managed[c].sdk]]
  /\ row' = [s \in Session |-> IF row[s] = "running" THEN "interrupted" ELSE row[s]]
  /\ disconnecting' = {} /\ late' = {} /\ overlap' = {}
  /\ locks' = [s \in Session |-> 0]
  /\ req' = [r \in Request |-> Idle]
  /\ UNCHANGED begun

-----------------------------------------------------------------------------

Actor(c) == ActorSends(c) \/ ActorInterrupted(c) \/ ActorLeaves(c) \/ TurnEnds(c)

Inbox(c) == ProcessInbox(c) \/ CreateRow(c) \/ SwapKey(c) \/ Finalize(c)

Eviction == \E e \in disconnecting :
  HangUp(e) \/ Disconnected(e) \/ DisconnectTimesOut(e) \/ Drained(e) \/ Persist(e)

Proceed(r) ==
  \/ LookUp(r) \/ AcquireLock(r) \/ EnsureCapacity(r) \/ Started(r)
  \/ MarkRunning(r) \/ SendFails(r) \/ FailureRecorded(r) \/ NamingFails(r) \/ Dropped(r)
  \/ Interrupt(r) \/ InterruptUnheard(r) \/ Repair(r) \/ DeleteRow(r)

Next ==
  \/ \E c \in Conn :
       \/ Actor(c) \/ Inbox(c) \/ FirstMessage(c) \/ AskUser(c) \/ AnswerUser(c)
       \/ ActorCrashes(c) \/ TimerFires(c) \/ Patrol(c)
  \/ Eviction
  \/ \E r \in Request :
       \/ Proceed(r) \/ StartFails(r) \/ NewArrives(r)
       \/ \E s \in Session : SendArrives(r, s) \/ InterruptArrives(r, s) \/ DeleteArrives(r, s)
  \/ \E s \in Session : PersistActorError(s)
  \/ ServerRestarts

Spec == Init /\ [][Next]_vars

-----------------------------------------------------------------------------

TypeOK ==
  /\ sessions \in [Id -> Conn \union {None}]
  /\ disconnecting \subseteq [id : Id, c : Conn, by : Request \union {None},
                              step : {"begin", "disconnect", "drain", "persist"}]
  /\ \A c \in Conn : /\ managed[c].id \in Id \union {None}
                     /\ managed[c].sdk \in Session \union {None}
                     /\ managed[c].status \in Status
  /\ row \in [Session -> {"absent"} \union Status]
  /\ late \subseteq Session
  /\ overlap \subseteq Id

\* An actor that runs is the one that its id stands for, or is being shut down:
\* nobody has two agents on one session or an agent that no request can reach.
\* Except for the ids in overlap: their connects and disconnects were not in order.
OneActor ==
  \A c \in Conn :
    (Alive(c) /\ sessions[managed[c].id] # c /\ c \notin Evicted) =>
      \/ managed[c].id \in overlap
      \/ \E r \in Request : At(r, "dropping") /\ req[r].c = c

\* Nobody works on s, or is about to write its status.
Quiet(s) ==
  /\ \A r \in Request : At(r, "idle") \/ req[r].sid # s
  /\ s \notin late /\ ~ Disconnecting(s)
  /\ \A c \in Conn : managed[c].sdk = s =>
       \/ managed[c].proc \in {"off", "over"}
       \/ managed[c].proc = "waiting" /\ managed[c].inbox = << >>

\* A live session that is not running is not recorded as running, except for a new
\* session whose actor died while the session was still known by its number.
RowFollows ==
  \A s \in Session :
    (Quiet(s) /\ sessions[s] # None /\ s \notin overlap /\ row[s] = "running") =>
      LET status == managed[sessions[s]].status IN
      status = "running" \/ (status \in {"error", "closed"} /\ s \notin Stored)

\* The limit may be exceeded, but at most by one session for each request that
\* was being served at the same time, and by one that got its id after an eviction
\* had set out to remove it under its number: the eviction then misses it.
BoundedExcess ==
  Cardinality(Active) < Limit + Cardinality(Request) + Cardinality(overlap \intersect Conn)

\* A session that was closed can be resumed: it is not recorded as running.
ClosedIsSettled ==
  \A s \in Stored \ overlap : (Quiet(s) /\ sessions[s] = None) => row[s] # "running"

================================================================================
