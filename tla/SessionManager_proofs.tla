------------------------- MODULE SessionManager_proofs -------------------------
(***************************************************************************)
(* What holds of SessionManager for any sessions and requests, any limit   *)
(* and any bounds.                                                         *)
(***************************************************************************)
EXTENDS SessionManager, Numbers_proofs, SequenceTheorems, TLAPS

Command == [kind : {"query", "interrupt", "disconnect"}, by : Request \union {None}]
News == {"init", "stop"} \union Settled
ProcState == {"off", "waiting", "creating", "naming", "finalizing", "over"}

Managed == [id : Id \union {None}, sdk : Session \union {None}, status : Status,
            actor : {"none", "starting", "ready", "driving", "over"}, cmds : Seq(Command),
            interrupted : BOOLEAN, asking : BOOLEAN, inbox : Seq(News), proc : ProcState, timer : BOOLEAN]

RequestPc == {"idle", "looking", "queued", "capacity", "evicting", "starting", "marking", "sending",
              "failed", "failing", "naming", "dropping", "stopping", "interrupting", "unheard",
              "repairing", "deleting"}

Requested == [pc : RequestPc, op : {None, "send", "new", "interrupt", "delete"},
              sid : Session \union {None}, c : Conn \union {None},
              meta : {None, "absent"} \union Status, lock : Nat]

Evicting == [id : Id, c : Conn, by : Request \union {None},
             step : {"begin", "disconnect", "drain", "persist"}]

Typed ==
  /\ sessions \in [Id -> Conn \union {None}]
  /\ disconnecting \subseteq Evicting
  /\ managed \in [Conn -> Managed]
  /\ locks \in [Session -> Nat]
  /\ row \in [Session -> {"absent"} \union Status]
  /\ late \subseteq Session
  /\ req \in [Request -> Requested]
  /\ overlap \subseteq Id
  /\ begun \in Nat /\ begun <= MaxBegun /\ faults \in Nat

\* Objects are made in the order of their numbers.
InOrder ==
  \A c \in Conn : managed[c].actor = "none" =>
    /\ managed[c] = Blank
    /\ \A d \in Conn : d > c => managed[d].actor = "none"

\* Requests that may yet make one.
Opening == {r \in Request : \/ req[r].pc \in {"looking", "queued", "capacity"}
                            \/ req[r].pc = "evicting" /\ req[r].op # "delete"}

EnoughNumbers == Cardinality(Used) + Cardinality(Opening) <= begun

\* Ids are numbers of one's own at first, and what the agent calls the session later.
IdsOwn ==
  /\ \A c \in Conn :
       /\ managed[c].id \in Conn => managed[c].id = c
       /\ managed[c].id \in Session => managed[c].sdk = managed[c].id
       /\ Alive(c) \/ managed[c].timer \/ managed[c].proc \notin {"off", "over"} => managed[c].id # None
       /\ managed[c].actor \in {"none", "starting"} => managed[c].proc = "off"
       /\ managed[c].actor = "starting" /\ managed[c].id \in Conn => managed[c].sdk = None
       /\ managed[c].proc \in {"creating", "naming"} => managed[c].sdk # None /\ managed[c].id \notin Session
  /\ \A i \in Id : sessions[i] # None => managed[sessions[i]].id = i /\ managed[sessions[i]].actor # "none"

\* The first message comes first and once; results follow it, and the one that
\* settles a turn stays in front until it has.
NewsInOrder ==
  \A c \in Conn :
    /\ \A n \in DOMAIN managed[c].inbox :
         /\ managed[c].inbox[n] = "init" => n = 1 /\ managed[c].sdk = None
         /\ managed[c].inbox[n] \in Settled => managed[c].sdk # None
    /\ managed[c].proc = "finalizing" => managed[c].inbox # << >> /\ managed[c].inbox[1] \in Settled

\* A session that gets its id gets one that nobody has or asks for.
Met(s) == s \in Stored \/ \E d \in Conn : managed[d].sdk = s
Fresh ==
  /\ \A s \in Session : row[s] # "absent" => Met(s)
  /\ \A r \in Request : req[r].sid # None => Met(req[r].sid)
  /\ \A c \in Conn : managed[c].proc \in {"creating", "naming"} =>
       /\ managed[c].proc = "creating" => row[managed[c].sdk] = "absent"
       /\ \A d \in Conn : managed[d].sdk = managed[c].sdk => d = c
       /\ \A r \in Request : req[r].sid # managed[c].sdk

\* A session in the registry under its number is running, or dead; one that is
\* being dropped has left the registry.
UnderNumber ==
  /\ \A c \in Conn : sessions[c] = c =>
       /\ managed[c].sdk # None => managed[c].proc \in {"creating", "naming"}
       /\ Alive(c) => managed[c].status = "running"
  /\ \A r \in Request : req[r].pc = "dropping" => sessions[req[r].c] # req[r].c

\* What a request is about, at each point.
Attached(r) == req[r].c \in Conn /\ managed[req[r].c].actor # "none"
NotSent(c) ==
  /\ managed[c].sdk = None /\ managed[c].actor # "driving"
  /\ \A n \in DOMAIN managed[c].inbox : managed[c].inbox[n] # "init"
PurposeOf(r) ==
    /\ req[r].op = "send" => req[r].sid \in Session /\ req[r].meta \in Status
    /\ req[r].op \in {"interrupt", "delete"} => req[r].sid \in Session
    /\ req[r].op = "new" => req[r].sid = None
    /\ req[r].pc \in {"looking", "queued", "marking", "failing"} => req[r].op = "send"
    /\ req[r].pc \in {"capacity", "starting", "sending", "failed"} => req[r].op \in {"send", "new"}
    /\ req[r].pc = "evicting" => req[r].op \in {"send", "new", "delete"}
    /\ req[r].pc \in {"naming", "dropping"} => req[r].op = "new"
    /\ req[r].pc \in {"stopping", "interrupting", "unheard", "repairing"} => req[r].op = "interrupt"
    /\ req[r].pc \in {"starting", "marking", "sending", "failed", "naming", "dropping",
                      "interrupting", "unheard"} => Attached(r)
    /\ req[r].pc \in {"failed", "unheard"} => managed[req[r].c].actor = "over"
    /\ req[r].pc = "starting" => managed[req[r].c].actor = "starting"
    /\ req[r].pc \in {"starting", "marking", "sending", "failed"} /\ req[r].op = "send" =>
         managed[req[r].c].id = req[r].sid
    /\ req[r].pc \in {"starting", "sending", "failed", "naming"} /\ req[r].op = "new" =>
         managed[req[r].c].id = req[r].c
    /\ req[r].pc \in {"starting", "sending", "failed"} /\ req[r].op = "new" => NotSent(req[r].c)
Purposes == \A r \in Request : PurposeOf(r)

\* An object has one request that starts it, and a new session one that made it.
Made(r) == req[r].op = "new" /\ req[r].pc \in {"starting", "sending", "failed", "naming", "dropping"}
OneStarter ==
  \A r, q \in Request : req[r].c = req[q].c =>
    /\ req[r].pc = "starting" /\ req[q].pc = "starting" => r = q
    /\ Made(r) /\ Made(q) => r = q

\* A command that waits has somebody who waits for it and for no other, or nobody.
CommandOf(c, cmd) ==
  /\ cmd.kind = "query" => /\ cmd.by # None /\ req[cmd.by].c = c /\ req[cmd.by].pc = "sending"
  /\ cmd.kind = "interrupt" => /\ cmd.by # None /\ req[cmd.by].c = c /\ req[cmd.by].pc = "interrupting"
  /\ cmd.kind = "disconnect" => cmd.by = None
OneEach(cmds) == \A m, n \in DOMAIN cmds : cmds[m].by # None /\ cmds[m].by = cmds[n].by => m = n
CommandsAnswered ==
  \A c \in Conn : /\ \A n \in DOMAIN managed[c].cmds : CommandOf(c, managed[c].cmds[n])
                  /\ OneEach(managed[c].cmds)

\* An eviction is of what has the id, and for one request at most.
EvictionsMean ==
  /\ \A e \in disconnecting :
       /\ managed[e.c].actor # "none"
       /\ e.id \in Conn => e.c = e.id
       /\ e.id \in Session => managed[e.c].sdk = e.id
       /\ e.step \in {"drain", "persist"} => managed[e.c].actor = "over"
       /\ e.by # None => req[e.by].pc = "evicting"
       /\ sessions[e.id] \in {None, e.c} \/ e.id \in overlap
  /\ \A e, f \in disconnecting : e.by # None /\ e.by = f.by => e = f

\* Whoever holds the connect lock of an id has the id to itself.
Holds(r, s) == req[r].op = "send" /\ req[r].sid = s /\ req[r].pc \in {"capacity", "evicting", "starting"}
LockedOut ==
  \A s \in Session \ overlap :
    /\ \A r \in Request : Holds(r, s) =>
         /\ req[r].lock = locks[s]
         /\ req[r].pc # "starting" => sessions[s] = None /\ ~ Disconnecting(s)
         /\ req[r].pc = "starting" => /\ sessions[s] \in {None, req[r].c}
                                      /\ \A e \in disconnecting : e.id = s => e.c = req[r].c
    /\ \A r, q \in Request : Holds(r, s) /\ Holds(q, s) => r = q

\* Evictions that will make room for a session.
Freeing == {r \in Request : req[r].pc = "evicting" /\ req[r].op # "delete"}
Renamed == overlap \intersect Conn
RoomCounted ==
  /\ Cardinality(Active) + Cardinality(Freeing) < Limit + Cardinality(Request) + Cardinality(Renamed)
  /\ \A c \in Renamed : managed[c].id # c /\ managed[c].actor # "none"

Inv ==
  /\ Typed /\ InOrder /\ EnoughNumbers /\ IdsOwn /\ NewsInOrder /\ Fresh /\ UnderNumber
  /\ Purposes /\ OneStarter /\ CommandsAnswered /\ EvictionsMean /\ LockedOut /\ RoomCounted /\ OneActor

--------------------------------------------------------------------------------
(* Steps that make no object, give no id and let nobody into a connect lock. *)

Naming == {"creating", "naming"}

SameObjects ==
  \A c \in Conn :
    /\ managed'[c].id = managed[c].id /\ managed'[c].sdk = managed[c].sdk
    /\ managed[c].actor = "none" => managed'[c] = managed[c]
    /\ managed'[c].actor = "none" => managed[c].actor = "none"
    /\ managed[c].actor = "over" => managed'[c].actor = "over"
    /\ managed'[c].actor = "starting" => managed[c].actor = "starting" /\ managed'[c].proc = managed[c].proc
    /\ managed'[c].proc \notin {"off", "over"} => managed[c].id # None
    /\ managed'[c].timer => managed[c].timer \/ managed[c].id # None
    /\ managed'[c].proc \in Naming => managed[c].proc \in Naming
    /\ managed'[c].proc = "creating" => managed[c].proc = "creating"
    /\ sessions[c] = c /\ sessions'[c] = c =>
         /\ managed[c].proc \in Naming => managed'[c].proc \in Naming
         /\ Alive(c)' => managed'[c].status = "running"

\* A session that runs leaves the registry only as what an error drops.
FewerSessions ==
  \A i \in Id : sessions'[i] # sessions[i] =>
    /\ sessions'[i] = None
    /\ \A c \in Conn : c = sessions[i] /\ Alive(c)' =>
         i \in overlap \/ \E r \in Request : req'[r].pc = "dropping" /\ req'[r].c = c

\* Evictions go on, and begin with what is in the registry.
Begins0(f) ==
  /\ sessions[f.id] = f.c /\ managed[f.c].id = f.id /\ f.step \notin {"drain", "persist"}
  /\ f.by # None => req'[f.by].pc = "evicting"
EvictionsGoOn ==
  /\ \A f \in disconnecting' :
       /\ Begins0(f) \/ \E e \in disconnecting : e.id = f.id /\ e.c = f.c /\ e.by = f.by
       /\ f.step \in {"drain", "persist"} => managed'[f.c].actor = "over"
  /\ \A e \in disconnecting : \E f \in disconnecting' : f.id = e.id /\ f.c = e.c
  /\ \A e, f \in disconnecting' : e.by # None /\ e.by = f.by => e = f

CalmRequests ==
  \A r \in Request : req'[r] # req[r] =>
    /\ req[r].pc # "evicting"
    /\ req[r].pc = "dropping" => managed[req[r].c].actor = "over"
    /\ req'[r].pc = "dropping" => req'[r].c \in Conn /\ sessions'[req'[r].c] # req'[r].c
    /\ Made(r)' => Made(r) /\ req'[r].c = req[r].c
    /\ req'[r].pc # "starting"
    /\ req'[r].pc = "capacity" => req'[r].op = "new"
    /\ req'[r].pc = "evicting" =>
         \/ req'[r].op = "delete"
         \/ /\ req[r].pc = "capacity"
            /\ req'[r].op = req[r].op /\ req'[r].sid = req[r].sid /\ req'[r].lock = req[r].lock
    /\ req'[r].sid \in {None, req[r].sid} \/ (req'[r].sid \in Session /\ Known(req'[r].sid))

\* Requests that may come to make an object were counted when they came.
NumbersLeft ==
  \/ begun' = begun /\ Opening' \subseteq Opening
  \/ begun' = begun + 1 /\ \E r \in Request : Opening' \subseteq Opening \union {r}

\* An eviction that is to make room takes a session away.
RoomLeft ==
  \/ Freeing' \subseteq Freeing
  \/ \E c \in Active, r \in Request :
       Freeing' \subseteq Freeing \union {r} /\ \E f \in disconnecting' : f.id = managed[c].id

RowsMet ==
  \A s \in Session : row'[s] # "absent" =>
    Met(s) /\ \A c \in Conn : managed'[c].proc = "creating" => managed[c].sdk # s

LEMMA FiniteParts ==
  /\ IsFiniteSet(Conn) /\ IsFiniteSet(Request)
  /\ \A S : S \subseteq Conn => IsFiniteSet(S) /\ Cardinality(S) \in Nat
  /\ \A S : S \subseteq Request => IsFiniteSet(S) /\ Cardinality(S) \in Nat /\ Cardinality(S) <= Cardinality(Request)
<1>1. IsFiniteSet(Conn) /\ IsFiniteSet(Request)
  BY SessionAssumption, SessionBounds, FS_Interval DEF Conn
<1>. QED BY <1>1, FS_Subset, FS_CardinalityType

LEMMA Calm ==
  ASSUME Inv, Typed', SameObjects, FewerSessions, EvictionsGoOn, CalmRequests, NumbersLeft, RoomLeft, RowsMet,
         UNCHANGED << locks, overlap >>, Purposes', NewsInOrder', CommandsAnswered'
  PROVE  Inv'
<1>t. Typed /\ Typed'
  BY DEF Inv
<1>c. None \notin Conn /\ Conn \subseteq Id /\ Session \subseteq Id /\ None \notin Id /\ Conn \cap Session = {}
  BY SessionAssumption DEF Id
<1>a. \A c \in Conn : Alive(c)' => Alive(c)
  BY <1>t DEF SameObjects, Alive, Typed, Managed
<1>s. \A i \in Id : sessions'[i] \in {None, sessions[i]}
  BY DEF FewerSessions
<1>1. InOrder'
  BY <1>t DEF Inv, InOrder, SameObjects
<1>2. IdsOwn'
  <2>1. \A i \in Id : sessions'[i] # None => managed'[sessions'[i]].id = i /\ managed'[sessions'[i]].actor # "none"
    BY <1>t, <1>s DEF Inv, IdsOwn, SameObjects, Typed
  <2>2. ASSUME NEW c \in Conn
        PROVE  /\ managed'[c].id \in Conn => managed'[c].id = c
               /\ managed'[c].id \in Session => managed'[c].sdk = managed'[c].id
               /\ Alive(c)' \/ managed'[c].timer \/ managed'[c].proc \notin {"off", "over"} => managed'[c].id # None
               /\ managed'[c].actor \in {"none", "starting"} => managed'[c].proc = "off"
               /\ managed'[c].actor = "starting" /\ managed'[c].id \in Conn => managed'[c].sdk = None
               /\ managed'[c].proc \in {"creating", "naming"} => managed'[c].sdk # None /\ managed'[c].id \notin Session
    BY <1>a DEF Inv, IdsOwn, SameObjects, Naming
  <2>. QED BY <2>1, <2>2 DEF IdsOwn
<1>3. Fresh'
  <2>1. \A s : Met(s) => Met(s)'
    BY DEF Met, SameObjects
  <2>2. \A s \in Session : row'[s] # "absent" => Met(s)'
    BY <2>1 DEF RowsMet
  <2>3. \A r \in Request : req'[r].sid # None => Met(req[r].sid)'
    <3>1. \A r \in Request : req'[r].sid # None => Met(req'[r].sid)
      BY DEF Inv, Fresh, CalmRequests, Known, Made
    <3>. QED BY <3>1, <2>1
  <2>4. ASSUME NEW c \in Conn, managed'[c].proc \in {"creating", "naming"}
        PROVE  /\ managed'[c].proc = "creating" => row'[managed'[c].sdk] = "absent"
               /\ \A d \in Conn : managed'[d].sdk = managed'[c].sdk => d = c
               /\ \A r \in Request : req'[r].sid # managed'[c].sdk
    <3>1. managed[c].proc \in {"creating", "naming"} /\ managed[c].sdk # None /\ managed[c].sdk \in Session
      BY <2>4, <1>t DEF SameObjects, Inv, IdsOwn, Typed, Managed, Naming
    <3>2. managed'[c].proc = "creating" => row'[managed'[c].sdk] = "absent"
      BY <3>1 DEF RowsMet, SameObjects
    <3>3. \A d \in Conn : managed'[d].sdk = managed'[c].sdk => d = c
      BY <3>1 DEF SameObjects, Inv, Fresh
    <3>4. ASSUME NEW r \in Request PROVE req'[r].sid # managed[c].sdk
      <4>1. req[r].sid # managed[c].sdk
        BY <3>1 DEF Inv, Fresh
      <4>2. \A s \in Session : Known(s) => s # managed[c].sdk
        BY <3>1 DEF Known, Inv, Fresh
      <4>. QED BY <4>1, <4>2, <3>1 DEF CalmRequests, Made
    <3>. QED BY <3>2, <3>3, <3>4 DEF SameObjects
  <2>. QED BY <2>2, <2>3, <2>4 DEF Fresh
<1>4. UnderNumber'
  <2>1. ASSUME NEW c \in Conn, sessions'[c] = c
        PROVE  /\ managed'[c].sdk # None => managed'[c].proc \in {"creating", "naming"}
               /\ Alive(c)' => managed'[c].status = "running"
    BY <2>1, <1>a, <1>s, <1>c DEF Inv, UnderNumber, SameObjects, Naming
  <2>2. ASSUME NEW r \in Request, req'[r].pc = "dropping" PROVE sessions'[req'[r].c] # req'[r].c
    <3>1. CASE req'[r] # req[r]
      BY <2>2, <3>1 DEF CalmRequests, Made
    <3>2. CASE req'[r] = req[r]
      <4>1. req[r].c \in Conn /\ sessions[req[r].c] # req[r].c
        BY <2>2, <3>2 DEF Inv, UnderNumber, Purposes, PurposeOf, Attached
      <4>. QED BY <4>1, <3>2, <1>s, <1>c
    <3>. QED BY <3>1, <3>2
  <2>. QED BY <2>1, <2>2 DEF UnderNumber
<1>5. OneStarter'
  BY DEF Inv, OneStarter, CalmRequests, Made
<1>6. EnoughNumbers'
  <2>1. Used' = Used
    BY DEF Used, SameObjects
  <2>2. /\ Used \subseteq Conn /\ Opening \subseteq Request /\ Opening' \subseteq Request
    BY DEF Used, Opening
  <2>3. CASE begun' = begun /\ Opening' \subseteq Opening
    <3>1. Cardinality(Opening') <= Cardinality(Opening)
      BY <2>2, <2>3, FiniteParts, FS_Subset
    <3>. QED BY <2>1, <2>2, <2>3, <3>1, <1>t, FiniteParts DEF Inv, EnoughNumbers, Typed
  <2>4. ASSUME begun' = begun + 1, NEW r \in Request, Opening' \subseteq Opening \union {r}
        PROVE  EnoughNumbers'
    <3>1. /\ IsFiniteSet(Opening \union {r}) /\ Cardinality(Opening \union {r}) <= Cardinality(Opening) + 1
          /\ Cardinality(Opening \union {r}) \in Nat
      BY <2>2, FiniteParts, FS_AddElement, FS_CardinalityType
    <3>2. Cardinality(Opening') <= Cardinality(Opening \union {r})
      BY <3>1, <2>4, FS_Subset
    <3>. QED BY <2>1, <2>2, <2>4, <3>1, <3>2, <1>t, FiniteParts DEF Inv, EnoughNumbers, Typed
  <2>. QED BY <2>3, <2>4 DEF NumbersLeft
<1>7. EvictionsMean'
  <2>1. ASSUME NEW f \in disconnecting'
        PROVE  /\ managed'[f.c].actor # "none"
               /\ f.id \in Conn => f.c = f.id
               /\ f.id \in Session => managed'[f.c].sdk = f.id
               /\ f.step \in {"drain", "persist"} => managed'[f.c].actor = "over"
               /\ f.by # None => req'[f.by].pc = "evicting"
               /\ sessions'[f.id] \in {None, f.c} \/ f.id \in overlap'
    <3>0. f.id \in Id /\ f.c \in Conn /\ f.by \in Request \union {None}
      BY <1>t DEF Typed, Evicting
    <3>1. CASE Begins0(f)
      <4>1. sessions[f.id] # None
        BY <3>1, <3>0, <1>c DEF Begins0
      <4>2. managed[f.c].actor # "none"
        BY <4>1, <3>0, <3>1 DEF Inv, IdsOwn, Begins0
      <4>. QED BY <3>0, <3>1, <4>2, <1>s DEF Inv, IdsOwn, Begins0, SameObjects, EvictionsGoOn
    <3>2. ASSUME NEW e \in disconnecting, e.id = f.id, e.c = f.c, e.by = f.by
          PROVE  /\ managed'[f.c].actor # "none"
                 /\ f.id \in Conn => f.c = f.id
                 /\ f.id \in Session => managed'[f.c].sdk = f.id
                 /\ f.by # None => req'[f.by].pc = "evicting"
                 /\ sessions'[f.id] \in {None, f.c} \/ f.id \in overlap'
      <4>1. f.by # None => req[f.by].pc = "evicting"
        BY <3>2 DEF Inv, EvictionsMean
      <4>2. f.by # None => req'[f.by].pc = "evicting"
        BY <4>1, <3>0, <1>c DEF CalmRequests, Made
      <4>. QED BY <4>2, <3>0, <3>2, <1>s DEF Inv, EvictionsMean, SameObjects
    <3>. QED BY <3>1, <3>2 DEF EvictionsGoOn
  <2>. QED BY <2>1 DEF EvictionsMean, EvictionsGoOn
<1>8. LockedOut'
  <2>1. ASSUME NEW r \in Request, NEW s, Holds(r, s)'
        PROVE  /\ Holds(r, s) /\ req'[r].lock = req[r].lock
               /\ req'[r].pc = "starting" => req[r].pc = "starting" /\ req'[r].c = req[r].c
               /\ req'[r].pc # "starting" => req[r].pc # "starting"
    BY <2>1 DEF Holds, CalmRequests, Made
  <2>2. ASSUME NEW s \in Session, sessions[s] = None, ~ Disconnecting(s)
        PROVE  sessions'[s] = None /\ ~ Disconnecting(s)'
    <3>1. sessions'[s] = None
      BY <2>2, <1>s, <1>c
    <3>2. ASSUME NEW f \in disconnecting', f.id = s PROVE FALSE
      <4>1. f.c \in Conn
        BY <1>t DEF Typed, Evicting
      <4>. QED BY <4>1, <3>2, <2>2, <1>c DEF EvictionsGoOn, Begins0, Disconnecting
    <3>. QED BY <3>1, <3>2 DEF Disconnecting
  <2>3. ASSUME NEW s \in Session, NEW d \in Conn, sessions[s] \in {None, d},
               \A e \in disconnecting : e.id = s => e.c = d, NEW f \in disconnecting', f.id = s
        PROVE  f.c = d
    <3>1. f.c \in Conn
      BY <1>t DEF Typed, Evicting
    <3>. QED BY <3>1, <2>3, <1>c DEF EvictionsGoOn, Begins0
  <2>4. ASSUME NEW s \in Session \ overlap, NEW r \in Request, Holds(r, s)'
        PROVE  /\ req'[r].lock = locks'[s]
               /\ req'[r].pc # "starting" => sessions'[s] = None /\ ~ Disconnecting(s)'
               /\ req'[r].pc = "starting" => /\ sessions'[s] \in {None, req'[r].c}
                                            /\ \A e \in disconnecting' : e.id = s => e.c = req'[r].c
    <3>1. /\ Holds(r, s) /\ req'[r].lock = req[r].lock
          /\ req'[r].pc = "starting" => req[r].pc = "starting" /\ req'[r].c = req[r].c
          /\ req'[r].pc # "starting" => req[r].pc # "starting"
      BY <2>1, <2>4
    <3>2. /\ req[r].lock = locks[s]
          /\ req[r].pc # "starting" => sessions[s] = None /\ ~ Disconnecting(s)
          /\ req[r].pc = "starting" => /\ sessions[s] \in {None, req[r].c}
                                       /\ \A e \in disconnecting : e.id = s => e.c = req[r].c
      BY <3>1 DEF Inv, LockedOut
    <3>3. req[r].pc = "starting" => req[r].c \in Conn
      BY DEF Inv, Purposes, PurposeOf, Attached
    <3>4. CASE req'[r].pc # "starting"
      BY <3>1, <3>2, <3>4, <2>2
    <3>5. CASE req'[r].pc = "starting"
      BY <3>1, <3>2, <3>3, <3>5, <2>3, <1>s, <1>c
    <3>. QED BY <3>4, <3>5
  <2>5. \A s \in Session \ overlap : \A r, q \in Request : Holds(r, s)' /\ Holds(q, s)' => r = q
    BY <2>1 DEF Inv, LockedOut
  <2>6. overlap' = overlap
    OBVIOUS
  <2>. QED BY <2>4, <2>5, <2>6 DEF LockedOut
<1>9. RoomCounted'
  <2>0. /\ Active \subseteq Conn /\ Freeing \subseteq Request /\ Active' \subseteq Conn
        /\ Freeing' \subseteq Request /\ Renamed \subseteq Conn
    BY DEF Active, Freeing, Renamed
  <2>1. \A i \in Id : Disconnecting(i) => Disconnecting(i)'
    BY DEF Disconnecting, EvictionsGoOn
  <2>2. \A c \in Conn : managed[c].id \in Id \/ managed[c].id = None
    BY <1>t DEF Typed, Managed
  <2>3. ASSUME NEW c \in Active' PROVE c \in Active /\ ~ \E e \in disconnecting' : e.id = managed[c].id
    <3>1. PICK i \in Id : sessions'[i] = c /\ ~ Disconnecting(managed[c].id)'
      BY DEF Active
    <3>2. sessions[i] = c /\ managed[c].id = i /\ managed'[c].id = i
      BY <3>1, <1>s, <1>c, <2>0 DEF Inv, IdsOwn, SameObjects
    <3>. QED BY <2>0, <3>1, <3>2, <2>1 DEF Active, Disconnecting
  <2>4. Cardinality(Active') + Cardinality(Freeing') <= Cardinality(Active) + Cardinality(Freeing)
    <3>1. CASE Freeing' \subseteq Freeing
      <4>1. Cardinality(Active') <= Cardinality(Active) /\ Cardinality(Freeing') <= Cardinality(Freeing)
        BY <3>1, <2>0, <2>3, FiniteParts, FS_Subset
      <4>. QED BY <4>1, <2>0, FiniteParts
    <3>2. ASSUME NEW c \in Active, NEW r \in Request, Freeing' \subseteq Freeing \union {r},
                 \E f \in disconnecting' : f.id = managed[c].id
          PROVE  Cardinality(Active') + Cardinality(Freeing') <= Cardinality(Active) + Cardinality(Freeing)
      <4>1. Active' \subseteq Active \ {c}
        BY <2>3, <3>2 DEF Disconnecting
      <4>2. Cardinality(Active \ {c}) = Cardinality(Active) - 1 /\ IsFiniteSet(Active \ {c})
        BY <2>0, FiniteParts, FS_RemoveElement
      <4>3. Cardinality(Active') <= Cardinality(Active) - 1
        BY <4>1, <4>2, FS_Subset
      <4>4. /\ IsFiniteSet(Freeing \union {r}) /\ Cardinality(Freeing \union {r}) <= Cardinality(Freeing) + 1
            /\ Cardinality(Freeing \union {r}) \in Nat
        BY <2>0, FiniteParts, FS_AddElement, FS_CardinalityType
      <4>5. Cardinality(Freeing') <= Cardinality(Freeing) + 1
        BY <4>4, <3>2, <2>0, FiniteParts, FS_Subset
      <4>. QED BY <4>3, <4>5, <2>0, FiniteParts
    <3>. QED BY <3>1, <3>2 DEF RoomLeft
  <2>5. Renamed' = Renamed
    BY DEF Renamed
  <2>6. \A c \in Renamed' : managed'[c].id # c /\ managed'[c].actor # "none"
    BY <2>0, <2>5 DEF Inv, RoomCounted, SameObjects
  <2>7. Limit \in Nat
    BY SessionBounds
  <2>. QED BY <2>0, <2>4, <2>5, <2>6, <2>7, FiniteParts DEF Inv, RoomCounted
<1>10. OneActor'
  <2>. SUFFICES ASSUME NEW c \in Conn, Alive(c)', sessions'[managed'[c].id] # c, c \notin Evicted'
                PROVE  \/ managed'[c].id \in overlap'
                       \/ \E r \in Request : At(r, "dropping")' /\ req'[r].c = c
    BY DEF OneActor
  <2>1. Alive(c) /\ managed'[c].id = managed[c].id /\ managed[c].id \in Id
    BY <1>a, <1>t DEF SameObjects, Inv, IdsOwn, Typed, Managed
  <2>2. c \notin Evicted
    BY DEF Evicted, EvictionsGoOn
  <2>3. CASE sessions[managed[c].id] = c
    BY <2>1, <2>3 DEF FewerSessions, At
  <2>4. CASE sessions[managed[c].id] # c
    <3>1. CASE managed[c].id \in overlap
      BY <2>1, <3>1
    <3>2. ASSUME NEW r \in Request, At(r, "dropping"), req[r].c = c
          PROVE  At(r, "dropping")' /\ req'[r].c = c
      BY <3>2, <2>1 DEF CalmRequests, At, Alive, Made
    <3>. QED BY <3>1, <3>2, <2>1, <2>2, <2>4 DEF Inv, OneActor
  <2>. QED BY <2>3, <2>4
<1>. QED BY <1>1, <1>2, <1>3, <1>4, <1>5, <1>6, <1>7, <1>8, <1>9, <1>10 DEF Inv

LEMMA ChangeOne ==
  ASSUME Typed, NEW c \in Conn, NEW m \in Managed, managed' = [managed EXCEPT ![c] = m]
  PROVE  /\ managed' \in [Conn -> Managed] /\ managed'[c] = m
         /\ \A d \in Conn : d # c => managed'[d] = managed[d]
BY DEF Typed

LEMMA ManagedParts ==
  ASSUME Typed, NEW c \in Conn
  PROVE  /\ managed[c] \in Managed
         /\ managed[c].inbox \in Seq(News) /\ managed[c].cmds \in Seq(Command)
         /\ managed[c].sdk \in Session \union {None} /\ managed[c].id \in Id \union {None}
         /\ managed[c].status \in Status /\ managed[c].proc \in ProcState
         /\ managed[c].actor \in {"none", "starting", "ready", "driving", "over"}
         /\ managed[c].timer \in BOOLEAN
BY DEF Typed, Managed

LEMMA RequestParts ==
  ASSUME Typed, NEW r \in Request
  PROVE  /\ req[r] \in Requested /\ req[r].pc \in RequestPc /\ req[r].c \in Conn \union {None}
         /\ req[r].sid \in Session \union {None}
BY DEF Typed, Requested

\* What changes nothing of a kind keeps what is said of it.
LEMMA Unmoved ==
  ASSUME Inv
  PROVE  /\ managed' = managed => SameObjects
         /\ SameObjects /\ disconnecting' = disconnecting => EvictionsGoOn
         /\ sessions' = sessions => FewerSessions
         /\ SameObjects /\ (\A s \in Session : row'[s] # "absent" => row[s] # "absent") => RowsMet
         /\ req' = req => CalmRequests /\ Opening' = Opening /\ Freeing' = Freeing
<1>1. managed' = managed => SameObjects
  BY DEF Inv, IdsOwn, SameObjects, UnderNumber, Alive, Naming
<1>2. SameObjects /\ disconnecting' = disconnecting => EvictionsGoOn
  BY DEF Inv, EvictionsMean, EvictionsGoOn, SameObjects, Typed, Evicting
<1>3. sessions' = sessions => FewerSessions
  BY DEF FewerSessions
<1>4. ASSUME SameObjects, \A s \in Session : row'[s] # "absent" => row[s] # "absent" PROVE RowsMet
  BY <1>4 DEF RowsMet, Inv, Fresh, SameObjects
<1>5. req' = req => CalmRequests /\ Opening' = Opening /\ Freeing' = Freeing
  BY DEF CalmRequests, Opening, Freeing, Made
<1>. QED BY <1>1, <1>2, <1>3, <1>4, <1>5

LEMMA Written ==
  ASSUME Typed, NEW s, NEW status \in Status, Write(s, status)
  PROVE  /\ row' \in [Session -> {"absent"} \union Status]
         /\ \A t \in Session : row'[t] # "absent" => row[t] # "absent"
BY DEF Write, Typed

\* Messages are taken from the front and added at the end.
HeadStays(c) ==
  managed'[c].proc = "finalizing" =>
    \/ /\ managed[c].proc = "finalizing"
       /\ \/ managed'[c].inbox = managed[c].inbox
          \/ \E m \in News : managed'[c].inbox = Append(managed[c].inbox, m)
    \/ /\ managed'[c].inbox = managed[c].inbox
       /\ managed[c].inbox # << >> /\ managed[c].inbox[1] \in Settled

LEMMA NewsKept ==
  ASSUME Inv, Typed', SameObjects, \A c \in Conn : HeadStays(c),
         \A c \in Conn : \/ managed'[c].inbox = managed[c].inbox
                         \/ managed[c].inbox # << >> /\ managed'[c].inbox = Tail(managed[c].inbox)
                         \/ \E m \in News : /\ managed'[c].inbox = Append(managed[c].inbox, m)
                                            /\ m = "stop" \/ (m \in Settled /\ managed[c].sdk # None)
  PROVE  NewsInOrder'
<1>0. ASSUME NEW c \in Conn, managed'[c].proc = "finalizing"
      PROVE  managed'[c].inbox # << >> /\ managed'[c].inbox[1] \in Settled
  <2>1. managed[c].proc = "finalizing" => managed[c].inbox # << >> /\ managed[c].inbox[1] \in Settled
    BY DEF Inv, NewsInOrder
  <2>2. CASE managed'[c].inbox = managed[c].inbox
    BY <1>0, <2>1, <2>2 DEF HeadStays
  <2>3. ASSUME NEW m \in News, managed'[c].inbox = Append(managed[c].inbox, m), managed[c].proc = "finalizing"
        PROVE  managed'[c].inbox # << >> /\ managed'[c].inbox[1] \in Settled
    <3>1. managed[c].inbox \in Seq(News)
      BY DEF Inv, Typed, Managed
    <3>2. 1 \in 1 .. Len(managed[c].inbox)
      BY <2>1, <2>3, <3>1, EmptySeq, LenProperties
    <3>. QED BY <2>1, <2>3, <3>1, <3>2, AppendProperties
  <2>. QED BY <1>0, <2>2, <2>3 DEF HeadStays
<1>. SUFFICES ASSUME NEW c \in Conn, NEW n \in DOMAIN managed'[c].inbox
              PROVE  /\ managed'[c].inbox[n] = "init" => n = 1 /\ managed'[c].sdk = None
                     /\ managed'[c].inbox[n] \in Settled => managed'[c].sdk # None
  BY <1>0 DEF NewsInOrder
<1>t. managed[c].inbox \in Seq(News) /\ managed'[c].inbox \in Seq(News)
  BY DEF Inv, Typed, Managed
<1>o. \A k \in DOMAIN managed[c].inbox :
        /\ managed[c].inbox[k] = "init" => k = 1 /\ managed[c].sdk = None
        /\ managed[c].inbox[k] \in Settled => managed[c].sdk # None
  BY DEF Inv, NewsInOrder
<1>s. managed'[c].sdk = managed[c].sdk
  BY DEF SameObjects
<1>1. CASE managed'[c].inbox = managed[c].inbox
  BY <1>1, <1>o, <1>s
<1>2. CASE managed[c].inbox # << >> /\ managed'[c].inbox = Tail(managed[c].inbox)
  <2>1. n \in Nat /\ n > 0 /\ n + 1 \in DOMAIN managed[c].inbox /\ managed'[c].inbox[n] = managed[c].inbox[n + 1]
    BY <1>2, <1>t, HeadTailProperties, LenProperties
  <2>. QED BY <2>1, <1>o, <1>s
<1>3. ASSUME NEW m \in News, managed'[c].inbox = Append(managed[c].inbox, m),
             m = "stop" \/ (m \in Settled /\ managed[c].sdk # None)
      PROVE  /\ managed'[c].inbox[n] = "init" => n = 1 /\ managed'[c].sdk = None
             /\ managed'[c].inbox[n] \in Settled => managed'[c].sdk # None
  <2>1. \/ n \in DOMAIN managed[c].inbox /\ managed'[c].inbox[n] = managed[c].inbox[n]
        \/ managed'[c].inbox[n] = m
    BY <1>3, <1>t, AppendProperties, LenProperties
  <2>. QED BY <2>1, <1>3, <1>o, <1>s DEF Settled
<1>. QED BY <1>1, <1>2, <1>3

\* What has not been sent a prompt has not said its id.
LEMMA StillUnsent ==
  ASSUME Inv, Typed', NEW c \in Conn, NotSent(c), managed'[c].sdk = managed[c].sdk,
         managed'[c].actor = "driving" => managed[c].actor = "driving",
         \/ managed'[c].inbox = managed[c].inbox
         \/ managed[c].inbox # << >> /\ managed'[c].inbox = Tail(managed[c].inbox)
         \/ \E m \in News : managed'[c].inbox = Append(managed[c].inbox, m) /\ m # "init"
  PROVE  NotSent(c)'
<1>t. managed[c].inbox \in Seq(News) /\ managed'[c].inbox \in Seq(News)
  BY DEF Inv, Typed, Managed
<1>. SUFFICES ASSUME NEW n \in DOMAIN managed'[c].inbox PROVE managed'[c].inbox[n] # "init"
  BY DEF NotSent
<1>1. CASE managed'[c].inbox = managed[c].inbox
  BY <1>1 DEF NotSent
<1>2. CASE managed[c].inbox # << >> /\ managed'[c].inbox = Tail(managed[c].inbox)
  <2>1. n + 1 \in DOMAIN managed[c].inbox /\ managed'[c].inbox[n] = managed[c].inbox[n + 1]
    BY <1>2, <1>t, HeadTailProperties, LenProperties
  <2>. QED BY <2>1 DEF NotSent
<1>3. ASSUME NEW m \in News, managed'[c].inbox = Append(managed[c].inbox, m), m # "init"
      PROVE  managed'[c].inbox[n] # "init"
  <2>1. \/ n \in DOMAIN managed[c].inbox /\ managed'[c].inbox[n] = managed[c].inbox[n]
        \/ managed'[c].inbox[n] = m
    BY <1>3, <1>t, AppendProperties, LenProperties
  <2>. QED BY <2>1, <1>3 DEF NotSent
<1>. QED BY <1>1, <1>2, <1>3

\* Requests that stay as they are stay attached to what they were.
LEMMA PurposesKept ==
  ASSUME Inv, SameObjects,
         \A r \in Request : \/ req'[r] = Idle
                            \/ /\ req'[r] = req[r]
                               /\ req[r].pc = "starting" => managed'[req[r].c].actor = "starting"
                               /\ NotSent(req[r].c) /\ req[r].c \in Conn => NotSent(req[r].c)'
                            \/ PurposeOf(r)'
  PROVE  Purposes'
<1>. SUFFICES ASSUME NEW r \in Request PROVE PurposeOf(r)'
  BY DEF Purposes
<1>1. CASE req'[r] = Idle
  BY <1>1, SessionAssumption DEF Idle, PurposeOf
<1>2. CASE /\ req'[r] = req[r]
           /\ req[r].pc = "starting" => managed'[req[r].c].actor = "starting"
           /\ NotSent(req[r].c) /\ req[r].c \in Conn => NotSent(req[r].c)'
  <2>. QED BY <1>2 DEF Inv, Purposes, PurposeOf, Attached, SameObjects
<1>. QED BY <1>1, <1>2

\* Commands that stay are waited for as long as their requests wait.
LEMMA CommandsKept ==
  ASSUME Inv,
         \A c \in Conn : /\ \A n \in DOMAIN managed'[c].cmds :
                              \/ \E m \in DOMAIN managed[c].cmds :
                                   /\ managed'[c].cmds[n] = managed[c].cmds[m]
                                   /\ managed[c].cmds[m].by # None =>
                                        LET r == managed[c].cmds[m].by IN
                                        req'[r].pc = req[r].pc /\ req'[r].c = req[r].c
                              \/ CommandOf(c, managed[c].cmds[n])'
                         /\ OneEach(managed'[c].cmds)
  PROVE  CommandsAnswered'
<1>. SUFFICES ASSUME NEW c \in Conn, NEW n \in DOMAIN managed'[c].cmds PROVE CommandOf(c, managed[c].cmds[n])'
  BY DEF CommandsAnswered, OneEach
<1>1. ASSUME NEW m \in DOMAIN managed[c].cmds, managed'[c].cmds[n] = managed[c].cmds[m],
             managed[c].cmds[m].by # None =>
               LET r == managed[c].cmds[m].by IN req'[r].pc = req[r].pc /\ req'[r].c = req[r].c
      PROVE  CommandOf(c, managed[c].cmds[n])'
  <2>1. CommandOf(c, managed[c].cmds[m])
    BY DEF Inv, CommandsAnswered
  <2>. QED BY <2>1, <1>1 DEF CommandOf
<1>. QED BY <1>1

LEMMA FirstTaken ==
  ASSUME NEW cmds \in Seq(Command), cmds # << >>, OneEach(cmds)
  PROVE  /\ Tail(cmds) \in Seq(Command) /\ Head(cmds) = cmds[1] /\ 1 \in DOMAIN cmds /\ OneEach(Tail(cmds))
         /\ \A n \in DOMAIN Tail(cmds) : \E m \in DOMAIN cmds :
              Tail(cmds)[n] = cmds[m] /\ (cmds[m].by # None => cmds[m].by # Head(cmds).by)
<1>1. /\ Tail(cmds) \in Seq(Command) /\ Head(cmds) = cmds[1] /\ 1 \in DOMAIN cmds
      /\ \A n \in DOMAIN Tail(cmds) : n \in Nat /\ n > 0 /\ n + 1 \in DOMAIN cmds /\ Tail(cmds)[n] = cmds[n + 1]
  BY HeadTailProperties, LenProperties, EmptySeq
<1>2. OneEach(Tail(cmds))
  BY <1>1 DEF OneEach
<1>3. ASSUME NEW n \in DOMAIN Tail(cmds)
      PROVE  Tail(cmds)[n] = cmds[n + 1] /\ n + 1 \in DOMAIN cmds
             /\ (cmds[n + 1].by # None => cmds[n + 1].by # Head(cmds).by)
  BY <1>1 DEF OneEach
<1>. QED BY <1>1, <1>2, <1>3

LEMMA OneRemoved ==
  ASSUME NEW cmds \in Seq(Command), OneEach(cmds), NEW k \in DOMAIN cmds
  PROVE  /\ RemoveAt(cmds, k) \in Seq(Command) /\ OneEach(RemoveAt(cmds, k))
         /\ \A n \in DOMAIN RemoveAt(cmds, k) : \E m \in DOMAIN cmds :
              RemoveAt(cmds, k)[n] = cmds[m] /\ (cmds[m].by # None => cmds[m].by # cmds[k].by)
<1>. DEFINE a == SubSeq(cmds, 1, k - 1)
            b == SubSeq(cmds, k + 1, Len(cmds))
            rest == a \o b
<1>1. Len(cmds) \in Nat /\ k \in 1 .. Len(cmds) /\ DOMAIN cmds = 1 .. Len(cmds)
  BY LenProperties
<1>2. /\ a \in Seq(Command) /\ Len(a) = k - 1 /\ \A n \in 1 .. (k - 1) : a[n] = cmds[n]
  BY <1>1, SubSeqProperties
<1>3. /\ b \in Seq(Command) /\ Len(b) = Len(cmds) - k
      /\ \A n \in 1 .. (Len(cmds) - k) : b[n] = cmds[k + n]
  <2>1. \A n \in 1 .. (Len(cmds) - k) : (k + 1) + n - 1 = k + n
    BY <1>1
  <2>. QED BY <1>1, <2>1, SubSeqProperties
<1>. HIDE DEF a, b
<1>4. /\ rest \in Seq(Command) /\ Len(rest) = Len(cmds) - 1
      /\ \A n \in 1 .. (Len(cmds) - 1) : rest[n] = IF n < k THEN cmds[n] ELSE cmds[n + 1]
  <2>0. rest \in Seq(Command) /\ Len(rest) = Len(a) + Len(b)
    BY <1>2, <1>3, ConcatProperties
  <2>1. rest \in Seq(Command) /\ Len(rest) = Len(cmds) - 1
    <3>. HIDE DEF rest
    <3>. QED BY <2>0, <1>1, <1>2, <1>3
  <2>2. ASSUME NEW n \in 1 .. (Len(cmds) - 1), n < k PROVE rest[n] = cmds[n]
    BY <1>1, <1>2, <1>3, <2>2, ConcatProperties
  <2>3. ASSUME NEW n \in 1 .. (Len(cmds) - 1), ~ n < k PROVE rest[n] = cmds[n + 1]
    <3>1. rest[n] = b[n - Len(a)]
      BY <1>1, <1>2, <1>3, <2>3, ConcatProperties
    <3>2. n - Len(a) \in 1 .. (Len(cmds) - k) /\ k + (n - Len(a)) = n + 1
      BY <1>1, <1>2, <2>3
    <3>. QED BY <3>1, <3>2, <1>3
  <2>. QED BY <2>1, <2>2, <2>3
<1>5. RemoveAt(cmds, k) = rest
  BY DEF RemoveAt, rest, a, b
<1>. HIDE DEF rest
<1>6. DOMAIN rest = 1 .. (Len(cmds) - 1)
  BY <1>4, LenProperties
<1>7. ASSUME NEW n \in DOMAIN rest
      PROVE  \E m \in DOMAIN cmds : /\ rest[n] = cmds[m] /\ m # k
                                    /\ m = IF n < k THEN n ELSE n + 1
  BY <1>1, <1>4, <1>6
<1>8. OneEach(rest)
  BY <1>1, <1>6, <1>7 DEF OneEach
<1>9. \A n \in DOMAIN rest : \E m \in DOMAIN cmds :
        rest[n] = cmds[m] /\ (cmds[m].by # None => cmds[m].by # cmds[k].by)
  BY <1>7 DEF OneEach
<1>. QED BY <1>4, <1>5, <1>8, <1>9

LEMMA OneAdded ==
  ASSUME NEW cmds \in Seq(Command), OneEach(cmds), NEW cmd \in Command,
         \A n \in DOMAIN cmds : cmd.by = None \/ cmds[n].by # cmd.by
  PROVE  /\ Append(cmds, cmd) \in Seq(Command) /\ OneEach(Append(cmds, cmd))
         /\ \A n \in DOMAIN Append(cmds, cmd) :
              \/ n \in DOMAIN cmds /\ Append(cmds, cmd)[n] = cmds[n]
              \/ Append(cmds, cmd)[n] = cmd
<1>1. /\ Append(cmds, cmd) \in Seq(Command) /\ Len(cmds) \in Nat /\ DOMAIN cmds = 1 .. Len(cmds)
      /\ DOMAIN Append(cmds, cmd) = 1 .. (Len(cmds) + 1)
      /\ \A n \in 1 .. Len(cmds) : Append(cmds, cmd)[n] = cmds[n]
      /\ Append(cmds, cmd)[Len(cmds) + 1] = cmd
  BY AppendProperties, LenProperties
<1>2. \A n \in DOMAIN Append(cmds, cmd) :
              \/ n \in DOMAIN cmds /\ Append(cmds, cmd)[n] = cmds[n]
              \/ n = Len(cmds) + 1 /\ Append(cmds, cmd)[n] = cmd
  BY <1>1
<1>3. OneEach(Append(cmds, cmd))
  BY <1>1, <1>2 DEF OneEach
<1>. QED BY <1>1, <1>2, <1>3

\* An actor ends: whoever had sent it a command is refused.
LEMMA ActorEnds ==
  ASSUME Inv, Typed', NEW c \in Conn,
         \A d \in Conn : d # c => managed'[d] = managed[d],
         Alive(c), managed'[c].actor = "over", managed'[c].cmds = << >>,
         managed'[c].id = managed[c].id, managed'[c].sdk = managed[c].sdk, managed'[c].proc = managed[c].proc,
         managed'[c].inbox \in {managed[c].inbox, Append(managed[c].inbox, "stop")},
         \A q \in Request : \/ req'[q] = Refused(c)[q] /\ (req[q].pc = "starting" => req[q].c # c)
                            \/ req'[q] = Idle /\ req[q].pc = "starting" /\ req[q].c = c
  PROVE  /\ SameObjects /\ NewsInOrder' /\ CommandsAnswered' /\ Purposes' /\ CalmRequests
         /\ Opening' \subseteq Opening /\ Freeing' \subseteq Freeing
<1>t. Typed
  BY DEF Inv
<1>0. \A d \in Conn : OneEach(managed[d].cmds)
  BY DEF Inv, CommandsAnswered
<1>1. SameObjects
  BY DEF Inv, IdsOwn, SameObjects, UnderNumber, Alive, Naming
<1>2. NewsInOrder'
  <2>1. "stop" \in News
    BY DEF News
  <2>2. \A d \in Conn : \/ managed'[d].inbox = managed[d].inbox
                        \/ managed[d].inbox # << >> /\ managed'[d].inbox = Tail(managed[d].inbox)
                        \/ \E m \in News : /\ managed'[d].inbox = Append(managed[d].inbox, m)
                                           /\ m = "stop" \/ (m \in Settled /\ managed[d].sdk # None)
    BY <2>1
  <2>3. \A d \in Conn : HeadStays(d)
    BY <2>1 DEF HeadStays
  <2>. QED BY <1>1, <2>2, <2>3, NewsKept
<1>3. \A n \in DOMAIN managed[c].cmds : CommandOf(c, managed[c].cmds[n])
  BY DEF Inv, CommandsAnswered
<1>4. \A q \in Request : q \in Callers(c) => req[q].c = c /\ req[q].pc \in {"sending", "interrupting"}
  <2>. SUFFICES ASSUME NEW n \in DOMAIN managed[c].cmds, managed[c].cmds[n].by \in Request
                PROVE  LET q == managed[c].cmds[n].by IN req[q].c = c /\ req[q].pc \in {"sending", "interrupting"}
    BY DEF Callers
  <2>1. managed[c].cmds[n] \in Command
    BY <1>t, ManagedParts, ElementOfSeq, LenProperties
  <2>2. managed[c].cmds[n].kind \in {"query", "interrupt"}
    BY <2>1, <1>3, SessionAssumption DEF Command, CommandOf
  <2>. QED BY <2>2, <1>3 DEF CommandOf
<1>5. \A q \in Request : \/ req'[q] = req[q] /\ (req[q].pc = "starting" => req[q].c # c)
                         \/ req'[q] = [req[q] EXCEPT !.pc = "failed"] /\ req[q].pc = "sending" /\ req[q].c = c
                         \/ req'[q] = [req[q] EXCEPT !.pc = "unheard"] /\ req[q].pc = "interrupting" /\ req[q].c = c
                         \/ req'[q] = Idle /\ req[q].pc = "starting" /\ req[q].c = c
  BY <1>4 DEF Refused
<1>6. CommandsAnswered'
  <2>. SUFFICES ASSUME NEW d \in Conn
                PROVE  /\ \A n \in DOMAIN managed'[d].cmds :
                              \E m \in DOMAIN managed[d].cmds :
                                   /\ managed'[d].cmds[n] = managed[d].cmds[m]
                                   /\ managed[d].cmds[m].by # None =>
                                        LET r == managed[d].cmds[m].by IN
                                        req'[r].pc = req[r].pc /\ req'[r].c = req[r].c
                       /\ OneEach(managed'[d].cmds)
    BY CommandsKept
  <2>1. CASE d = c
    <3>1. DOMAIN managed'[c].cmds = {}
      BY EmptySeq
    <3>. QED BY <2>1, <3>1 DEF OneEach
  <2>2. CASE d # c
    <3>1. managed'[d] = managed[d] /\ OneEach(managed[d].cmds)
      <4>1. managed'[d] = managed[d]
        BY <2>2
      <4>2. OneEach(managed[d].cmds)
        BY <1>0
      <4>. QED BY <4>1, <4>2
    <3>2. ASSUME NEW m \in DOMAIN managed[d].cmds, managed[d].cmds[m].by # None
          PROVE  LET r == managed[d].cmds[m].by IN req'[r].pc = req[r].pc /\ req'[r].c = req[r].c
      <4>1. managed[d].cmds[m] \in Command
        BY <1>t, ManagedParts, ElementOfSeq, LenProperties
      <4>2. managed[d].cmds[m].by \in Request
        BY <4>1, <3>2 DEF Command
      <4>3. CommandOf(d, managed[d].cmds[m])
        BY DEF Inv, CommandsAnswered
      <4>4. LET r == managed[d].cmds[m].by IN req[r].c = d /\ req[r].pc \in {"sending", "interrupting"}
        BY <4>1, <4>3, <3>2 DEF CommandOf, Command
      <4>. QED BY <4>2, <4>4, <2>2, <1>5
    <3>. QED BY <3>1, <3>2
  <2>. QED BY <2>1, <2>2
<1>n. ASSUME NEW d \in Conn, NotSent(d) PROVE NotSent(d)'
  <2>1. CASE d = c
    <3>1. "stop" \in News /\ "stop" # "init"
      BY DEF News
    <3>. QED BY <1>n, <2>1, <3>1, StillUnsent
  <2>2. CASE d # c
    BY <1>n, <2>2 DEF NotSent
  <2>. QED BY <2>1, <2>2
<1>7. Purposes'
  <2>. SUFFICES ASSUME NEW q \in Request
                PROVE  \/ req'[q] = Idle
                       \/ req'[q] = req[q] /\ (req[q].pc = "starting" => managed'[req[q].c].actor = "starting")
                       \/ PurposeOf(q)'
    BY <1>1, <1>n, PurposesKept
  <2>0. PurposeOf(q) /\ req[q] \in Requested
    BY <1>t, RequestParts DEF Inv, Purposes
  <2>1. CASE req'[q] = req[q] /\ (req[q].pc = "starting" => req[q].c # c)
    BY <2>0, <2>1 DEF PurposeOf, Attached
  <2>2. CASE req'[q] = [req[q] EXCEPT !.pc = "failed"] /\ req[q].pc = "sending" /\ req[q].c = c
    <3>1. /\ req'[q].pc = "failed" /\ req'[q].op = req[q].op /\ req'[q].sid = req[q].sid /\ req'[q].c = c
          /\ req'[q].meta = req[q].meta
      BY <2>0, <2>2 DEF Requested
    <3>2. req[q].op = "new" => NotSent(c)'
      BY <1>n, <2>0, <2>2 DEF PurposeOf
    <3>. QED BY <3>1, <3>2, <2>0, <2>2 DEF PurposeOf, Attached
  <2>3. CASE req'[q] = [req[q] EXCEPT !.pc = "unheard"] /\ req[q].pc = "interrupting" /\ req[q].c = c
    <3>1. /\ req'[q].pc = "unheard" /\ req'[q].op = req[q].op /\ req'[q].sid = req[q].sid /\ req'[q].c = c
          /\ req'[q].meta = req[q].meta
      BY <2>0, <2>3 DEF Requested
    <3>. QED BY <3>1, <2>0, <2>3 DEF PurposeOf, Attached
  <2>. QED BY <1>5, <2>1, <2>2, <2>3
<1>m. ASSUME NEW q \in Request, Made(q)' PROVE Made(q) /\ req'[q].c = req[q].c
  <2>0. req[q] \in Requested /\ PurposeOf(q)
    BY <1>t, RequestParts DEF Inv, Purposes
  <2>1. CASE req'[q] = req[q] \/ (req'[q] = Idle /\ req[q].pc = "starting")
    BY <1>m, <2>1 DEF Idle, Made
  <2>2. CASE req'[q] = [req[q] EXCEPT !.pc = "failed"] /\ req[q].pc = "sending"
    BY <1>m, <2>2, <2>0 DEF Requested, Made
  <2>3. CASE req'[q] = [req[q] EXCEPT !.pc = "unheard"] /\ req[q].pc = "interrupting"
    BY <1>m, <2>3, <2>0 DEF Requested, Made
  <2>. QED BY <1>5, <2>1, <2>2, <2>3
<1>8. ASSUME NEW q \in Request
      PROVE  \/ req'[q] = req[q]
             \/ /\ req[q].pc \in {"sending", "interrupting", "starting"}
                /\ req'[q].pc \in {"failed", "unheard", "idle"}
                /\ req'[q].sid \in {None, req[q].sid}
  <2>0. req[q] \in Requested
    BY <1>t, RequestParts
  <2>1. CASE req'[q] = req[q] \/ (req'[q] = Idle /\ req[q].pc = "starting")
    BY <2>1 DEF Idle
  <2>2. CASE req'[q] = [req[q] EXCEPT !.pc = "failed"] /\ req[q].pc = "sending"
    BY <2>2, <2>0 DEF Requested
  <2>3. CASE req'[q] = [req[q] EXCEPT !.pc = "unheard"] /\ req[q].pc = "interrupting"
    BY <2>3, <2>0 DEF Requested
  <2>. QED BY <1>5, <2>1, <2>2, <2>3
<1>9. CalmRequests
  <2>1. \A q \in Request : req'[q] # req[q] => (Made(q)' => Made(q) /\ req'[q].c = req[q].c)
    BY <1>m
  <2>. QED BY <1>8, <2>1 DEF CalmRequests
<1>10. Opening' \subseteq Opening /\ Freeing' \subseteq Freeing
  BY <1>8 DEF Opening, Freeing
<1>. QED BY <1>1, <1>2, <1>6, <1>7, <1>9, <1>10

--------------------------------------------------------------------------------
(* The actor. *)

\* A command that was taken, with its request moving on, leaves the others waited for.
LEMMA CommandTaken ==
  ASSUME Inv, NEW c \in Conn, NEW k \in DOMAIN managed[c].cmds, managed[c].cmds[k].kind # "disconnect",
         \A d \in Conn : d # c => managed'[d].cmds = managed[d].cmds,
         OneEach(managed'[c].cmds),
         \A n \in DOMAIN managed'[c].cmds : \E m \in DOMAIN managed[c].cmds :
              /\ managed'[c].cmds[n] = managed[c].cmds[m]
              /\ managed[c].cmds[m].by # None => managed[c].cmds[m].by # managed[c].cmds[k].by,
         \A q \in Request : q # managed[c].cmds[k].by => req'[q] = req[q]
  PROVE  /\ CommandsAnswered' /\ managed[c].cmds[k].by \in Request
         /\ req[managed[c].cmds[k].by].c = c
         /\ managed[c].cmds[k].kind = "query" => req[managed[c].cmds[k].by].pc = "sending"
         /\ managed[c].cmds[k].kind = "interrupt" => req[managed[c].cmds[k].by].pc = "interrupting"
<1>t. Typed
  BY DEF Inv
<1>1. ASSUME NEW d \in Conn, NEW n \in DOMAIN managed[d].cmds
      PROVE  managed[d].cmds[n] \in Command /\ CommandOf(d, managed[d].cmds[n])
  <2>1. managed[d].cmds[n] \in Command
    BY <1>t, ManagedParts, ElementOfSeq, LenProperties
  <2>. QED BY <2>1 DEF Inv, CommandsAnswered
<1>2. /\ managed[c].cmds[k].by \in Request /\ req[managed[c].cmds[k].by].c = c
      /\ managed[c].cmds[k].kind = "query" => req[managed[c].cmds[k].by].pc = "sending"
      /\ managed[c].cmds[k].kind = "interrupt" => req[managed[c].cmds[k].by].pc = "interrupting"
  BY <1>1 DEF Command, CommandOf
<1>3. ASSUME NEW d \in Conn, d # c
      PROVE  /\ \A n \in DOMAIN managed'[d].cmds :
                  /\ managed'[d].cmds[n] = managed[d].cmds[n] /\ n \in DOMAIN managed[d].cmds
                  /\ managed[d].cmds[n].by # None =>
                       LET r == managed[d].cmds[n].by IN req'[r].pc = req[r].pc /\ req'[r].c = req[r].c
             /\ OneEach(managed'[d].cmds)
  <2>1. managed'[d].cmds = managed[d].cmds /\ OneEach(managed[d].cmds)
    BY <1>3 DEF Inv, CommandsAnswered
  <2>2. ASSUME NEW n \in DOMAIN managed[d].cmds, managed[d].cmds[n].by # None
        PROVE  managed[d].cmds[n].by \in Request /\ req[managed[d].cmds[n].by].c = d
    BY <1>1, <2>2 DEF Command, CommandOf
  <2>. QED BY <2>1, <2>2, <1>2, <1>3
<1>4. ASSUME NEW m \in DOMAIN managed[c].cmds, managed[c].cmds[m].by # None,
             managed[c].cmds[m].by # managed[c].cmds[k].by
      PROVE  LET r == managed[c].cmds[m].by IN req'[r].pc = req[r].pc /\ req'[r].c = req[r].c
  BY <1>1, <1>4 DEF Command
<1>5. ASSUME NEW d \in Conn
      PROVE  /\ \A n \in DOMAIN managed'[d].cmds : \E m \in DOMAIN managed[d].cmds :
                   /\ managed'[d].cmds[n] = managed[d].cmds[m]
                   /\ managed[d].cmds[m].by # None =>
                        LET r == managed[d].cmds[m].by IN
                        req'[r].pc = req[r].pc /\ req'[r].c = req[r].c
             /\ OneEach(managed'[d].cmds)
  <2>1. CASE d = c
    BY <2>1, <1>4
  <2>2. CASE d # c
    BY <2>2, <1>3
  <2>. QED BY <2>1, <2>2
<1>6. CommandsAnswered'
  BY <1>5, CommandsKept
<1>. QED BY <1>2, <1>6

\* Where a step changes the state of one object only in what no name and no command depends on.
LEMMA OnlyState ==
  ASSUME Inv, Typed', req' = req, NEW c \in Conn,
         managed'[c].cmds = managed[c].cmds, SameObjects,
         \A d \in Conn : d # c => managed'[d] = managed[d],
         managed[c].actor = "starting" => managed'[c].actor = "starting",
         NotSent(c) => NotSent(c)'
  PROVE  CommandsAnswered' /\ Purposes' /\ CalmRequests /\ Opening' = Opening /\ Freeing' = Freeing
<1>1. \A d \in Conn : managed'[d].cmds = managed[d].cmds
  OBVIOUS
<1>2. CommandsAnswered'
  <2>1. CommandsAnswered
    BY DEF Inv
  <2>2. ASSUME NEW d \in Conn
        PROVE  (/\ \A n \in DOMAIN managed[d].cmds : CommandOf(d, managed[d].cmds[n])
                /\ OneEach(managed[d].cmds))'
    BY <1>1, <2>1, <2>2 DEF CommandsAnswered, CommandOf, OneEach
  <2>. QED BY <2>2 DEF CommandsAnswered
<1>3. \A r \in Request : req[r].pc = "starting" => managed[req[r].c].actor = "starting" /\ req[r].c \in Conn
  BY DEF Inv, Purposes, PurposeOf, Attached
<1>4. \A r \in Request : req'[r] = req[r] /\ (req[r].pc = "starting" => managed'[req[r].c].actor = "starting")
  BY <1>3
<1>5. Purposes'
  <2>1. ASSUME NEW d \in Conn, NotSent(d) PROVE NotSent(d)'
    BY <2>1 DEF NotSent
  <2>. QED BY <1>4, <2>1, PurposesKept
<1>. QED BY <1>2, <1>5, Unmoved

LEMMA RequestMoves ==
  ASSUME NEW q \in Requested, NEW pc \in RequestPc
  PROVE  LET n == [q EXCEPT !.pc = pc] IN
         /\ n \in Requested /\ n.pc = pc /\ n.op = q.op /\ n.sid = q.sid /\ n.c = q.c
         /\ n.meta = q.meta /\ n.lock = q.lock
BY DEF Requested

LEMMA IdleTyped == Idle \in Requested
BY SessionAssumption DEF Idle, Requested, RequestPc

LEMMA ActorSendsStep == ASSUME Inv, NEW c \in Conn, ActorSends(c) PROVE Inv'
<1>t. Typed /\ managed[c] \in Managed /\ managed[c].cmds \in Seq(Command)
  BY ManagedParts DEF Inv
<1>. DEFINE m == [managed[c] EXCEPT !.actor = "driving", !.cmds = Tail(@)]
            cmd == managed[c].cmds[1]
<1>0. managed[c].cmds # << >> /\ Head(managed[c].cmds) = cmd
  BY <1>t, HeadTailProperties DEF ActorSends
<1>1. /\ managed[c].actor = "ready" /\ managed[c].cmds # << >> /\ cmd.kind = "query"
      /\ managed' = [managed EXCEPT ![c] = m]
      /\ req' = IF req[cmd.by].op = "new" THEN [req EXCEPT ![cmd.by].pc = "naming"] ELSE [req EXCEPT ![cmd.by] = Idle]
      /\ UNCHANGED << sessions, disconnecting, locks, row, late, overlap, begun, faults >>
  BY <1>t, <1>0 DEF ActorSends, Done
<1>2. /\ Tail(managed[c].cmds) \in Seq(Command) /\ 1 \in DOMAIN managed[c].cmds
      /\ OneEach(Tail(managed[c].cmds))
      /\ \A n \in DOMAIN Tail(managed[c].cmds) : \E k \in DOMAIN managed[c].cmds :
           Tail(managed[c].cmds)[n] = managed[c].cmds[k]
           /\ (managed[c].cmds[k].by # None => managed[c].cmds[k].by # cmd.by)
  BY <1>0, <1>t, FirstTaken DEF Inv, CommandsAnswered
<1>3. m \in Managed
  BY <1>t, <1>2 DEF Managed
<1>4. /\ m.actor = "driving" /\ m.cmds = Tail(managed[c].cmds) /\ m.id = managed[c].id /\ m.sdk = managed[c].sdk
      /\ m.inbox = managed[c].inbox /\ m.proc = managed[c].proc /\ m.status = managed[c].status
  BY <1>t DEF Managed
<1>. HIDE DEF m
<1>5. /\ managed' \in [Conn -> Managed] /\ managed'[c] = m
      /\ \A d \in Conn : d # c => managed'[d] = managed[d]
  BY <1>t, <1>1, <1>3, ChangeOne
<1>6. SameObjects
  BY <1>1, <1>4, <1>5 DEF Inv, IdsOwn, UnderNumber, Alive, SameObjects, Naming
<1>7. /\ CommandsAnswered' /\ cmd.by \in Request /\ req[cmd.by].c = c /\ req[cmd.by].pc = "sending"
  <2>1. \A q \in Request : q # cmd.by => req'[q] = req[q]
    BY <1>1, <1>t DEF Typed
  <2>2. /\ managed[c].cmds[1].kind # "disconnect" /\ OneEach(managed'[c].cmds)
        /\ \A d \in Conn : d # c => managed'[d].cmds = managed[d].cmds
    BY <1>1, <1>2, <1>4, <1>5
  <2>3. \A n \in DOMAIN managed'[c].cmds : \E k \in DOMAIN managed[c].cmds :
           /\ managed'[c].cmds[n] = managed[c].cmds[k]
           /\ managed[c].cmds[k].by # None => managed[c].cmds[k].by # managed[c].cmds[1].by
    <3>1. managed'[c].cmds = Tail(managed[c].cmds)
      BY <1>4, <1>5
    <3>. QED BY <1>2, <3>1 DEF cmd
  <2>4. 1 \in DOMAIN managed[c].cmds /\ managed[c].cmds[1].kind = "query"
    BY <1>1, <1>2
  <2>5. /\ CommandsAnswered' /\ managed[c].cmds[1].by \in Request
        /\ req[managed[c].cmds[1].by].c = c /\ req[managed[c].cmds[1].by].pc = "sending"
    BY <2>1, <2>2, <2>3, <2>4, CommandTaken
  <2>. QED BY <2>5
<1>. HIDE DEF cmd
<1>8. PICK r \in Request : /\ r = cmd.by /\ req[r].c = c /\ req[r].pc = "sending"
                           /\ \A q \in Request : q # r => req'[q] = req[q]
  BY <1>1, <1>7, <1>t DEF Typed
<1>9. req' \in [Request -> Requested]
  <2>1. CASE req' = [req EXCEPT ![r] = Idle]
    BY <2>1, <1>t, IdleTyped DEF Typed
  <2>2. CASE req' = [req EXCEPT ![r].pc = "naming"]
    <3>1. [req[r] EXCEPT !.pc = "naming"] \in Requested
      BY <1>t, RequestParts, RequestMoves DEF RequestPc
    <3>. QED BY <2>2, <3>1, <1>t DEF Typed
  <2>. QED BY <2>1, <2>2, <1>1, <1>8
<1>10. \/ req'[r] = Idle
       \/ /\ req[r].op = "new" /\ req'[r].pc = "naming" /\ req'[r].op = "new" /\ req'[r].sid = req[r].sid
          /\ req'[r].c = c
  BY <1>1, <1>8, <1>t DEF Typed, Requested
<1>11. Purposes'
  <2>1. (PurposeOf(r) /\ PurposeOf(r)') \/ req'[r] = Idle
    <3>1. PurposeOf(r)
      BY DEF Inv, Purposes
    <3>. QED BY <3>1, <1>4, <1>5, <1>8, <1>10 DEF PurposeOf, Attached
  <2>2. \A q \in Request : q # r => req'[q] = req[q] /\ (req[q].pc = "starting" => managed'[req[q].c].actor = "starting")
    BY <1>8, <1>1, <1>5 DEF Inv, Purposes, PurposeOf, Attached
  <2>3. ASSUME NEW q \in Request, q # r PROVE PurposeOf(q)' \/ (NotSent(req[q].c) /\ req[q].c \in Conn => NotSent(req[q].c)')
    <3>1. CASE req[q].c # c
      BY <1>5, <2>2, <2>3, <3>1 DEF NotSent
    <3>2. CASE req[q].c = c
      <4>1. req[r].op = "send" => managed[c].id \in Session
        BY <1>8 DEF Inv, Purposes, PurposeOf
      <4>2. req[q].op = "new" /\ req[q].pc \in {"starting", "sending", "failed"} => managed[c].id \notin Session
        BY <3>2, SessionAssumption DEF Inv, Purposes, PurposeOf
      <4>3. ~ (req[q].op = "new" /\ req[q].pc \in {"starting", "sending", "failed"})
        BY <1>8, <2>3, <3>2, <4>1, <4>2 DEF Inv, OneStarter, Made, Purposes, PurposeOf
      <4>4. req'[q] = req[q] /\ (req[q].pc = "starting" => managed'[req[q].c].actor = "starting") /\ PurposeOf(q)
        BY <2>2, <2>3 DEF Inv, Purposes
      <4>. QED BY <4>3, <4>4, <1>6 DEF PurposeOf, Attached, SameObjects
    <3>. QED BY <3>1, <3>2
  <2>. QED BY <2>1, <2>2, <2>3, <1>6, PurposesKept
<1>12. CalmRequests /\ Opening' \subseteq Opening /\ Freeing' \subseteq Freeing
  BY <1>8, <1>10 DEF CalmRequests, Opening, Freeing, Idle, Made
<1>13. NewsInOrder'
  BY <1>4, <1>5 DEF Inv, NewsInOrder
<1>14. Typed'
  BY <1>t, <1>1, <1>5, <1>9 DEF Typed
<1>. QED BY <1>1, <1>6, <1>7, <1>11, <1>12, <1>13, <1>14, Unmoved, Calm DEF NumbersLeft, RoomLeft

--------------------------------------------------------------------------------
(* Steps that change one object and the requests that are attached to it. *)

\* What a step may do to the object c.
ObjectMoves(c) ==
  /\ managed'[c].id = managed[c].id /\ managed'[c].sdk = managed[c].sdk
  /\ managed[c].actor # "none" /\ managed'[c].actor # "none"
  /\ managed[c].actor = "over" => managed'[c].actor = "over"
  /\ managed'[c].actor = "driving" => managed[c].actor = "driving"
  /\ managed'[c].actor = "starting" => managed[c].actor = "starting" /\ managed'[c].proc = managed[c].proc
  /\ managed'[c].proc \notin {"off", "over"} => managed[c].id # None
  /\ managed'[c].timer => managed[c].timer \/ managed[c].id # None
  /\ managed'[c].proc \in Naming => managed[c].proc \in Naming
  /\ managed'[c].proc = "creating" => managed[c].proc = "creating"
  /\ sessions[c] = c /\ sessions'[c] = c =>
       /\ managed[c].proc \in Naming => managed'[c].proc \in Naming
       /\ Alive(c)' => managed'[c].status = "running"
  /\ \/ managed'[c].inbox = managed[c].inbox
     \/ managed[c].inbox # << >> /\ managed'[c].inbox = Tail(managed[c].inbox)
     \/ \E m \in News : /\ managed'[c].inbox = Append(managed[c].inbox, m)
                        /\ m = "stop" \/ (m \in Settled /\ managed[c].sdk # None)
  /\ HeadStays(c)
  /\ \/ managed'[c].cmds = managed[c].cmds
     \/ \E cmd \in Command : /\ managed'[c].cmds = Append(managed[c].cmds, cmd)
                             /\ CommandOf(c, cmd)'
                             /\ cmd.by # None => req[cmd.by].pc \notin {"sending", "interrupting"}

\* What it may do to the request r.
RequestGoes(r) ==
  /\ req[r].pc \notin {"evicting", "sending", "interrupting"}
  /\ req[r].pc = "dropping" => managed[req[r].c].actor = "over"
  /\ req'[r].pc = "dropping" => req'[r].c \in Conn /\ sessions'[req'[r].c] # req'[r].c
  /\ Made(r)' => Made(r) /\ req'[r].c = req[r].c
  /\ req'[r].pc # "starting"
  /\ req'[r].pc = "capacity" => req'[r].op = "new"
  /\ req'[r].pc = "evicting" =>
       \/ req'[r].op = "delete"
       \/ /\ req[r].pc = "capacity"
          /\ req'[r].op = req[r].op /\ req'[r].sid = req[r].sid /\ req'[r].lock = req[r].lock
  /\ req'[r].sid \in {None, req[r].sid} \/ (req'[r].sid \in Session /\ Known(req'[r].sid))

LEMMA Moves ==
  ASSUME Inv, Typed',
         \A c \in Conn : managed'[c] = managed[c] \/ ObjectMoves(c),
         \A q \in Request : req'[q] = req[q] \/ (RequestGoes(q) /\ PurposeOf(q)'),
         \A q \in Request : req[q].pc = "starting" /\ req'[q] = req[q] =>
                              managed'[req[q].c].actor = managed[req[q].c].actor
  PROVE  SameObjects /\ NewsInOrder' /\ CommandsAnswered' /\ Purposes' /\ CalmRequests
<1>t. Typed
  BY DEF Inv
<1>1. SameObjects
  BY DEF Inv, IdsOwn, SameObjects, ObjectMoves, UnderNumber, Alive, Naming
<1>2. NewsInOrder'
  BY <1>1, NewsKept DEF ObjectMoves, HeadStays, Inv, NewsInOrder
<1>3. CalmRequests
  BY DEF CalmRequests, RequestGoes, Made
<1>4. ASSUME NEW q \in Request, req'[q] = req[q], req[q].pc = "starting"
      PROVE  managed'[req[q].c].actor = "starting"
  <2>1. req[q].c \in Conn /\ managed[req[q].c].actor = "starting"
    BY <1>4 DEF Inv, Purposes, PurposeOf, Attached
  <2>. QED BY <2>1, <1>4
<1>n. ASSUME NEW c \in Conn, NotSent(c) PROVE NotSent(c)'
  <2>1. CASE managed'[c] = managed[c]
    BY <1>n, <2>1 DEF NotSent
  <2>2. CASE ObjectMoves(c)
    <3>1. "stop" # "init" /\ "init" \notin Settled
      BY DEF Settled
    <3>2. \/ managed'[c].inbox = managed[c].inbox
          \/ managed[c].inbox # << >> /\ managed'[c].inbox = Tail(managed[c].inbox)
          \/ \E m \in News : managed'[c].inbox = Append(managed[c].inbox, m) /\ m # "init"
      BY <2>2, <3>1 DEF ObjectMoves
    <3>. QED BY <1>n, <2>2, <3>2, StillUnsent DEF ObjectMoves
  <2>. QED BY <2>1, <2>2
<1>5. Purposes'
  BY <1>1, <1>4, <1>n, PurposesKept
<1>6. ASSUME NEW d \in Conn, NEW n \in DOMAIN managed[d].cmds
      PROVE  /\ managed[d].cmds[n] \in Command /\ CommandOf(d, managed[d].cmds[n])
             /\ managed[d].cmds[n].by # None =>
                  LET r == managed[d].cmds[n].by IN
                  r \in Request /\ req[r].pc \in {"sending", "interrupting"} /\ req'[r] = req[r]
  <2>1. managed[d].cmds[n] \in Command
    BY <1>t, ManagedParts, ElementOfSeq, LenProperties
  <2>2. CommandOf(d, managed[d].cmds[n])
    BY DEF Inv, CommandsAnswered
  <2>3. ASSUME managed[d].cmds[n].by # None
        PROVE  /\ managed[d].cmds[n].by \in Request
               /\ req[managed[d].cmds[n].by].pc \in {"sending", "interrupting"}
    BY <2>1, <2>2, <2>3 DEF Command, CommandOf
  <2>. QED BY <2>1, <2>2, <2>3 DEF RequestGoes, Made
<1>7. \A d \in Conn : OneEach(managed[d].cmds)
  BY DEF Inv, CommandsAnswered
<1>8. CommandsAnswered'
  <2>. SUFFICES ASSUME NEW d \in Conn
                PROVE  /\ \A n \in DOMAIN managed'[d].cmds :
                              \/ \E m \in DOMAIN managed[d].cmds :
                                   /\ managed'[d].cmds[n] = managed[d].cmds[m]
                                   /\ managed[d].cmds[m].by # None =>
                                        LET r == managed[d].cmds[m].by IN
                                        req'[r].pc = req[r].pc /\ req'[r].c = req[r].c
                              \/ CommandOf(d, managed[d].cmds[n])'
                       /\ OneEach(managed'[d].cmds)
    BY CommandsKept
  <2>0. ASSUME NEW m \in DOMAIN managed[d].cmds, managed[d].cmds[m].by # None
        PROVE  LET r == managed[d].cmds[m].by IN req'[r].pc = req[r].pc /\ req'[r].c = req[r].c
    BY <2>0, <1>6
  <2>1. CASE managed'[d].cmds = managed[d].cmds
    <3>1. OneEach(managed'[d].cmds)
      BY <1>7, <2>1
    <3>. QED BY <3>1, <2>0, <2>1
  <2>2. ASSUME NEW cmd \in Command, managed'[d].cmds = Append(managed[d].cmds, cmd), CommandOf(d, cmd)',
               cmd.by # None => req[cmd.by].pc \notin {"sending", "interrupting"}
        PROVE  /\ \A n \in DOMAIN managed'[d].cmds :
                    \/ n \in DOMAIN managed[d].cmds /\ managed'[d].cmds[n] = managed[d].cmds[n]
                    \/ CommandOf(d, managed[d].cmds[n])'
               /\ OneEach(managed'[d].cmds)
    <3>1. \A n \in DOMAIN managed[d].cmds : cmd.by = None \/ managed[d].cmds[n].by # cmd.by
      BY <1>6, <2>2
    <3>2. managed[d].cmds \in Seq(Command) /\ OneEach(managed[d].cmds)
      BY <1>t, <1>7, ManagedParts
    <3>3. /\ OneEach(Append(managed[d].cmds, cmd))
          /\ \A n \in DOMAIN Append(managed[d].cmds, cmd) :
               \/ n \in DOMAIN managed[d].cmds /\ Append(managed[d].cmds, cmd)[n] = managed[d].cmds[n]
               \/ Append(managed[d].cmds, cmd)[n] = cmd
      BY <3>1, <3>2, OneAdded
    <3>. QED BY <3>3, <2>2
  <2>3. \/ managed'[d].cmds = managed[d].cmds
        \/ \E cmd \in Command : /\ managed'[d].cmds = Append(managed[d].cmds, cmd)
                                /\ CommandOf(d, cmd)'
                                /\ cmd.by # None => req[cmd.by].pc \notin {"sending", "interrupting"}
    BY DEF ObjectMoves
  <2>. QED BY <2>0, <2>1, <2>2, <2>3
<1>. QED BY <1>1, <1>2, <1>3, <1>5, <1>8

\* A step of one request that touches no object and no session.
LEMMA OnlyRequest ==
  ASSUME Inv, NEW r \in Request, NEW n \in Requested, req' = [req EXCEPT ![r] = n],
         n = Idle \/ PurposeOf(r)', RequestGoes(r),
         n.pc \in {"looking", "queued", "capacity"} => r \in Opening \/ begun' = begun + 1,
         n.pc = "evicting" => n.op = "delete",
         begun' \in {begun, begun + 1}, begun' <= MaxBegun,
         row' \in [Session -> {"absent"} \union Status],
         \A s \in Session : row'[s] # "absent" => row[s] # "absent",
         UNCHANGED << sessions, disconnecting, managed, locks, late, overlap, faults >>
  PROVE  Inv'
<1>t. Typed
  BY DEF Inv
<1>1. /\ req' \in [Request -> Requested] /\ req'[r] = n /\ \A q \in Request : q # r => req'[q] = req[q]
  BY <1>t DEF Typed
<1>2. Typed'
  BY <1>t, <1>1 DEF Typed
<1>3. n = Idle => PurposeOf(r)'
  BY <1>1, SessionAssumption DEF Idle, PurposeOf
<1>4. SameObjects /\ NewsInOrder' /\ CommandsAnswered' /\ Purposes' /\ CalmRequests
  BY <1>1, <1>2, <1>3, Moves
<1>5. Opening' \subseteq Opening \union {r} /\ (begun' = begun => Opening' \subseteq Opening)
  BY <1>t, <1>1 DEF Typed, Opening
<1>6. Freeing' \subseteq Freeing
  BY <1>1 DEF Freeing
<1>. QED BY <1>2, <1>4, <1>5, <1>6, Unmoved, Calm DEF NumbersLeft, RoomLeft

LEMMA DoneTyped == \A r \in Request : Done(r) = [req EXCEPT ![r] = Idle]
BY DEF Done

LEMMA FailureRecordedStep == ASSUME Inv, NEW r \in Request, FailureRecorded(r) PROVE Inv'
<1>t. Typed /\ begun' = begun /\ begun <= MaxBegun
  BY DEF Inv, Typed, FailureRecorded
<1>1. /\ row' \in [Session -> {"absent"} \union Status]
      /\ \A s \in Session : row'[s] # "absent" => row[s] # "absent"
  BY <1>t, Written DEF FailureRecorded, RecordFailure, Status, Settled
<1>2. req' = [req EXCEPT ![r] = Idle] /\ req'[r] = Idle /\ RequestGoes(r)
  BY <1>t DEF FailureRecorded, Done, At, RequestGoes, Idle, Typed, Made
<1>. QED BY <1>t, <1>1, <1>2, IdleTyped, OnlyRequest DEF FailureRecorded, Idle

LEMMA RepairStep == ASSUME Inv, NEW r \in Request, Repair(r) PROVE Inv'
<1>t. Typed /\ begun' = begun /\ begun <= MaxBegun
  BY DEF Inv, Typed, Repair
<1>1. /\ row' \in [Session -> {"absent"} \union Status]
      /\ \A s \in Session : row'[s] # "absent" => row[s] # "absent"
  BY <1>t, Written DEF Repair, Status, Settled
<1>2. req' = [req EXCEPT ![r] = Idle] /\ req'[r] = Idle /\ RequestGoes(r)
  BY <1>t DEF Repair, Done, At, RequestGoes, Idle, Typed, Made
<1>. QED BY <1>t, <1>1, <1>2, IdleTyped, OnlyRequest DEF Repair, Idle

LEMMA DeleteRowStep == ASSUME Inv, NEW r \in Request, DeleteRow(r) PROVE Inv'
<1>t. Typed /\ begun' = begun /\ begun <= MaxBegun
  BY DEF Inv, Typed, DeleteRow
<1>1. /\ row' \in [Session -> {"absent"} \union Status]
      /\ \A s \in Session : row'[s] # "absent" => row[s] # "absent"
  BY <1>t DEF DeleteRow, Typed
<1>2. req' = [req EXCEPT ![r] = Idle] /\ req'[r] = Idle /\ RequestGoes(r)
  BY <1>t DEF DeleteRow, Done, At, RequestGoes, Idle, Typed, Made
<1>. QED BY <1>t, <1>1, <1>2, IdleTyped, OnlyRequest DEF DeleteRow, Idle

LEMMA BeginsTyped ==
  ASSUME Inv, NEW r \in Request, NEW op \in {"send", "new", "interrupt", "delete"}, NEW s \in Session \union {None},
         NEW pc \in RequestPc, Begins(r, op, s, pc)
  PROVE  \E n \in Requested :
           /\ n.op = op /\ n.sid = s /\ n.pc = pc /\ n.lock = 0 /\ n.c = None
           /\ s # None => n.meta = row[s]
           /\ req' = [req EXCEPT ![r] = n] /\ req[r].pc = "idle" /\ req'[r] = n
           /\ begun' = begun + 1 /\ begun' <= MaxBegun
           /\ \A q \in Request : q # r => req'[q] = req[q]
           /\ req' \in [Request -> Requested]
<1>. DEFINE meta == IF s = None THEN None ELSE row[s]
            n == [Idle EXCEPT !.op = op, !.sid = s, !.pc = pc, !.meta = meta]
<1>t. Typed
  BY DEF Inv
<1>1. meta \in {None, "absent"} \union Status /\ (s # None => meta = row[s])
  BY <1>t DEF Typed
<1>. HIDE DEF meta
<1>2. /\ n \in Requested /\ n.op = op /\ n.sid = s /\ n.pc = pc /\ n.lock = 0 /\ n.c = None /\ n.meta = meta
  BY <1>1 DEF Requested, Idle
<1>3. req' = [req EXCEPT ![r] = n] /\ req[r].pc = "idle" /\ begun < MaxBegun /\ begun' = begun + 1
  BY DEF Begins, meta, At
<1>. HIDE DEF n
<1>4. req'[r] = n /\ begun' <= MaxBegun /\ (\A q \in Request : q # r => req'[q] = req[q])
      /\ req' \in [Request -> Requested]
  BY <1>2, <1>3, <1>t, SessionBounds DEF Typed
<1>. QED BY <1>1, <1>2, <1>3, <1>4

LEMMA SendArrivesStep == ASSUME Inv, NEW r \in Request, NEW s \in Session, SendArrives(r, s) PROVE Inv'
<1>t. Typed
  BY DEF Inv
<1>1. Begins(r, "send", s, "looking") /\ Known(s) /\ s # None
  BY SessionAssumption DEF SendArrives
<1>2. PICK n \in Requested : /\ req' = [req EXCEPT ![r] = n] /\ req'[r] = n /\ req[r].pc = "idle"
                             /\ n.op = "send" /\ n.sid = s /\ n.pc = "looking" /\ n.meta = row[s] /\ row[s] \in Status
                             /\ begun' = begun + 1 /\ begun' <= MaxBegun
  <2>1. row[s] \in Status
    BY <1>t, <1>1 DEF Typed, Known
  <2>. QED BY <1>1, <2>1, BeginsTyped DEF RequestPc
<1>3. PurposeOf(r)'
  BY <1>2 DEF PurposeOf
<1>4. RequestGoes(r)
  BY <1>1, <1>2 DEF RequestGoes, Made
<1>. QED BY <1>t, <1>2, <1>3, <1>4, OnlyRequest DEF SendArrives, Typed

LEMMA NewArrivesStep == ASSUME Inv, NEW r \in Request, NewArrives(r) PROVE Inv'
<1>t. Typed
  BY DEF Inv
<1>1. Begins(r, "new", None, "capacity")
  BY DEF NewArrives
<1>2. PICK n \in Requested : /\ req' = [req EXCEPT ![r] = n] /\ req'[r] = n /\ req[r].pc = "idle"
                             /\ n.op = "new" /\ n.sid = None /\ n.pc = "capacity"
                             /\ begun' = begun + 1 /\ begun' <= MaxBegun
  BY <1>1, BeginsTyped DEF RequestPc
<1>3. PurposeOf(r)'
  BY <1>2 DEF PurposeOf
<1>4. RequestGoes(r)
  BY <1>1, <1>2 DEF RequestGoes, Made
<1>. QED BY <1>t, <1>2, <1>3, <1>4, OnlyRequest DEF NewArrives, Typed

LEMMA InterruptArrivesStep == ASSUME Inv, NEW r \in Request, NEW s \in Session, InterruptArrives(r, s) PROVE Inv'
<1>t. Typed
  BY DEF Inv
<1>1. Begins(r, "interrupt", s, "stopping") /\ Known(s) /\ s # None
  BY SessionAssumption DEF InterruptArrives
<1>2. PICK n \in Requested : /\ req' = [req EXCEPT ![r] = n] /\ req'[r] = n /\ req[r].pc = "idle"
                             /\ n.op = "interrupt" /\ n.sid = s /\ n.pc = "stopping"
                             /\ begun' = begun + 1 /\ begun' <= MaxBegun
  BY <1>1, BeginsTyped DEF RequestPc
<1>3. PurposeOf(r)'
  BY <1>2 DEF PurposeOf
<1>4. RequestGoes(r)
  BY <1>1, <1>2 DEF RequestGoes, Made
<1>. QED BY <1>t, <1>2, <1>3, <1>4, OnlyRequest DEF InterruptArrives, Typed

\* A step of one object that touches no request and no session.
LEMMA OnlyObject ==
  ASSUME Inv, NEW c \in Conn, NEW m \in Managed, managed' = [managed EXCEPT ![c] = m],
         ObjectMoves(c), managed'[c].actor = managed[c].actor \/ managed[c].actor # "starting",
         row' \in [Session -> {"absent"} \union Status],
         RowsMet \/ \A s \in Session : row'[s] # "absent" => row[s] # "absent",
         late' \subseteq Session, faults' \in Nat,
         UNCHANGED << sessions, disconnecting, req, locks, overlap, begun >>
  PROVE  Inv'
<1>t. Typed
  BY DEF Inv
<1>1. /\ managed' \in [Conn -> Managed] /\ managed'[c] = m
      /\ \A d \in Conn : d # c => managed'[d] = managed[d]
  BY <1>t, ChangeOne
<1>2. Typed'
  BY <1>t, <1>1 DEF Typed
<1>3. \A q \in Request : req[q].pc = "starting" => managed[req[q].c].actor = "starting" /\ req[q].c \in Conn
  BY DEF Inv, Purposes, PurposeOf, Attached
<1>4. SameObjects /\ NewsInOrder' /\ CommandsAnswered' /\ Purposes' /\ CalmRequests
  BY <1>1, <1>2, <1>3, Moves
<1>. QED BY <1>2, <1>4, Unmoved, Calm DEF NumbersLeft, RoomLeft

\* An object that stays live, with its names and its commands.
LEMMA StaysLive ==
  ASSUME Inv, NEW c \in Conn,
         managed[c].actor # "none", managed'[c].actor = managed[c].actor,
         managed'[c].id = managed[c].id, managed'[c].sdk = managed[c].sdk, managed'[c].cmds = managed[c].cmds,
         managed'[c].timer => managed[c].timer \/ managed[c].id # None,
         \/ managed'[c].proc = managed[c].proc
         \/ managed'[c].proc = "waiting" /\ managed[c].proc = "finalizing"
         \/ managed'[c].proc = "finalizing" /\ managed[c].proc = "waiting",
         managed'[c].status = managed[c].status \/ (managed[c].proc \notin Naming /\ managed[c].sdk # None),
         \/ managed'[c].inbox = managed[c].inbox
         \/ managed[c].inbox # << >> /\ managed'[c].inbox = Tail(managed[c].inbox),
         HeadStays(c)
  PROVE  ObjectMoves(c)
<1>1. managed'[c].proc \notin {"off", "over"} => managed[c].id # None
  BY DEF Inv, IdsOwn
<1>2. managed[c].actor = "starting" => managed'[c].proc = managed[c].proc
  BY DEF Inv, IdsOwn
<1>3. sessions[c] = c => /\ managed[c].proc \in Naming => managed'[c].proc \in Naming
                         /\ Alive(c)' => managed'[c].status = "running"
  <2>1. sessions[c] = c /\ managed[c].sdk # None => managed[c].proc \in Naming
    BY DEF Inv, UnderNumber, Naming
  <2>2. sessions[c] = c /\ Alive(c) => managed[c].status = "running"
    BY DEF Inv, UnderNumber
  <2>3. Alive(c)' => Alive(c)
    BY DEF Alive
  <2>. QED BY <2>1, <2>2, <2>3 DEF Naming
<1>. QED BY <1>1, <1>2, <1>3 DEF ObjectMoves, Naming

LEMMA AskUserStep == ASSUME Inv, NEW c \in Conn, AskUser(c) PROVE Inv'
<1>t. Typed /\ managed[c] \in Managed
  BY ManagedParts DEF Inv
<1>. DEFINE m == [managed[c] EXCEPT !.asking = TRUE]
<1>1. m \in Managed /\ managed' = [managed EXCEPT ![c] = m]
  BY <1>t DEF AskUser, Managed
<1>2. /\ m.actor = managed[c].actor /\ m.id = managed[c].id /\ m.sdk = managed[c].sdk /\ m.cmds = managed[c].cmds
      /\ m.proc = managed[c].proc /\ m.status = managed[c].status /\ m.inbox = managed[c].inbox
  BY <1>t DEF Managed
<1>. HIDE DEF m
<1>3. managed'[c] = m
  BY <1>t, <1>1, ChangeOne
<1>4. ObjectMoves(c) /\ managed'[c].actor = managed[c].actor
  BY <1>2, <1>3, StaysLive DEF AskUser, HeadStays
<1>. QED BY <1>1, <1>4, <1>t, OnlyObject DEF AskUser, Typed

LEMMA AnswerUserStep == ASSUME Inv, NEW c \in Conn, AnswerUser(c) PROVE Inv'
<1>t. Typed /\ managed[c] \in Managed
  BY ManagedParts DEF Inv
<1>. DEFINE m == [managed[c] EXCEPT !.asking = FALSE]
<1>1. m \in Managed /\ managed' = [managed EXCEPT ![c] = m]
  BY <1>t DEF AnswerUser, Managed
<1>2. /\ m.actor = managed[c].actor /\ m.id = managed[c].id /\ m.sdk = managed[c].sdk /\ m.cmds = managed[c].cmds
      /\ m.proc = managed[c].proc /\ m.status = managed[c].status /\ m.inbox = managed[c].inbox
      /\ m.timer = managed[c].timer
  BY <1>t DEF Managed
<1>. HIDE DEF m
<1>3. managed[c].actor # "none"
  <2>1. PICK i \in Id : sessions[i] = c
    BY <1>t DEF AnswerUser, Range, Typed
  <2>. QED BY <2>1, SessionAssumption DEF Inv, IdsOwn
<1>4. managed'[c] = m
  BY <1>t, <1>1, ChangeOne
<1>5. ObjectMoves(c) /\ managed'[c].actor = managed[c].actor
  BY <1>2, <1>3, <1>4, StaysLive DEF HeadStays
<1>. QED BY <1>1, <1>5, <1>t, OnlyObject DEF AnswerUser, Typed

LEMMA FirstMessageStep == ASSUME Inv, NEW c \in Conn, FirstMessage(c) PROVE Inv'
<1>t. Typed /\ managed[c] \in Managed
  BY ManagedParts DEF Inv
<1>. DEFINE m == [managed[c] EXCEPT !.inbox = << "init" >>]
<1>1. m \in Managed /\ managed' = [managed EXCEPT ![c] = m] /\ << "init" >> \in Seq(News)
  <2>1. << "init" >> \in Seq(News)
    BY DEF News
  <2>. QED BY <1>t, <2>1 DEF FirstMessage, Managed
<1>2. /\ m.actor = managed[c].actor /\ m.id = managed[c].id /\ m.sdk = managed[c].sdk /\ m.cmds = managed[c].cmds
      /\ m.proc = managed[c].proc /\ m.status = managed[c].status /\ m.inbox = << "init" >>
  BY <1>t DEF Managed
<1>. HIDE DEF m
<1>3. /\ managed' \in [Conn -> Managed] /\ managed'[c] = m
      /\ \A d \in Conn : d # c => managed'[d] = managed[d]
  BY <1>t, <1>1, ChangeOne
<1>4. SameObjects
  BY <1>2, <1>3 DEF FirstMessage, Inv, IdsOwn, UnderNumber, Alive, SameObjects, Naming
<1>5. Typed'
  BY <1>t, <1>3 DEF Typed, FirstMessage
<1>6. CommandsAnswered' /\ Purposes' /\ CalmRequests /\ Opening' = Opening /\ Freeing' = Freeing
  <2>1. ~ NotSent(c) /\ req' = req
    BY DEF FirstMessage, NotSent
  <2>. QED BY <1>2, <1>3, <1>4, <1>5, <2>1, OnlyState
<1>7. NewsInOrder'
  BY <1>2, <1>3 DEF Inv, NewsInOrder, FirstMessage, Settled
<1>. QED BY <1>4, <1>5, <1>6, <1>7, Unmoved, Calm DEF FirstMessage, NumbersLeft, RoomLeft

LEMMA TurnEndsStep == ASSUME Inv, NEW c \in Conn, TurnEnds(c) PROVE Inv'
<1>t. Typed /\ managed[c] \in Managed
  BY ManagedParts DEF Inv
<1>. PICK e \in BOOLEAN : managed' = [managed EXCEPT ![c].actor = "ready", ![c].inbox = Append(@, ResultStatus(c, e))]
  BY DEF TurnEnds
<1>. DEFINE k == ResultStatus(c, e)
            m == [managed[c] EXCEPT !.actor = "ready", !.inbox = Append(@, k)]
<1>0. k \in Settled /\ k \in News
  BY DEF ResultStatus, Settled, News
<1>. HIDE DEF k
<1>1. m \in Managed /\ managed' = [managed EXCEPT ![c] = m] /\ Append(managed[c].inbox, k) \in Seq(News)
  <2>1. Append(managed[c].inbox, k) \in Seq(News)
    BY <1>0, <1>t, ManagedParts, AppendProperties
  <2>. QED BY <1>t, <2>1 DEF Managed, k
<1>2. /\ m.actor = "ready" /\ m.id = managed[c].id /\ m.sdk = managed[c].sdk /\ m.cmds = managed[c].cmds
      /\ m.proc = managed[c].proc /\ m.status = managed[c].status /\ m.inbox = Append(managed[c].inbox, k)
  BY <1>t DEF Managed
<1>. HIDE DEF m
<1>3. managed'[c] = m
  BY <1>t, <1>1, ChangeOne
<1>4. ObjectMoves(c)
  BY <1>0, <1>2, <1>3 DEF ObjectMoves, HeadStays, TurnEnds, Inv, IdsOwn, UnderNumber, Alive
<1>. QED BY <1>1, <1>4, <1>t, OnlyObject DEF TurnEnds, Typed

LEMMA ActorInterruptedStep == ASSUME Inv, NEW c \in Conn, ActorInterrupted(c) PROVE Inv'
<1>t. Typed /\ managed[c] \in Managed /\ managed[c].cmds \in Seq(Command)
  BY ManagedParts DEF Inv
<1>. PICK k \in DOMAIN managed[c].cmds :
       /\ managed[c].cmds[k].kind = "interrupt" /\ managed[c].actor \in {"ready", "driving"}
       /\ managed' = [managed EXCEPT ![c].cmds = RemoveAt(@, k)]
       /\ req' = [req EXCEPT ![managed[c].cmds[k].by] = Idle]
       /\ UNCHANGED << sessions, disconnecting, locks, row, late, overlap, begun, faults >>
  BY DEF ActorInterrupted, Done
<1>. DEFINE m == [managed[c] EXCEPT !.cmds = RemoveAt(@, k)]
            by == managed[c].cmds[k].by
<1>1. /\ RemoveAt(managed[c].cmds, k) \in Seq(Command) /\ OneEach(RemoveAt(managed[c].cmds, k))
      /\ \A n \in DOMAIN RemoveAt(managed[c].cmds, k) : \E i \in DOMAIN managed[c].cmds :
           /\ RemoveAt(managed[c].cmds, k)[n] = managed[c].cmds[i]
           /\ managed[c].cmds[i].by # None => managed[c].cmds[i].by # by
  BY <1>t, OneRemoved DEF Inv, CommandsAnswered
<1>2. m \in Managed /\ managed' = [managed EXCEPT ![c] = m]
  BY <1>t, <1>1 DEF Managed
<1>3. /\ m.actor = managed[c].actor /\ m.id = managed[c].id /\ m.sdk = managed[c].sdk
      /\ m.cmds = RemoveAt(managed[c].cmds, k)
      /\ m.inbox = managed[c].inbox /\ m.proc = managed[c].proc /\ m.status = managed[c].status
  BY <1>t DEF Managed
<1>. HIDE DEF m
<1>4. /\ managed' \in [Conn -> Managed] /\ managed'[c] = m
      /\ \A d \in Conn : d # c => managed'[d] = managed[d]
  BY <1>t, <1>2, ChangeOne
<1>5. SameObjects
  BY <1>3, <1>4 DEF Inv, IdsOwn, UnderNumber, Alive, SameObjects, Naming
<1>6. CommandsAnswered' /\ by \in Request /\ req[by].c = c /\ req[by].pc = "interrupting"
  <2>1. \A q \in Request : q # managed[c].cmds[k].by => req'[q] = req[q]
    BY <1>t DEF Typed
  <2>2. managed'[c].cmds = RemoveAt(managed[c].cmds, k)
    BY <1>3, <1>4
  <2>3. /\ OneEach(managed'[c].cmds)
        /\ \A n \in DOMAIN managed'[c].cmds : \E i \in DOMAIN managed[c].cmds :
             /\ managed'[c].cmds[n] = managed[c].cmds[i]
             /\ managed[c].cmds[i].by # None => managed[c].cmds[i].by # managed[c].cmds[k].by
    BY <1>1, <2>2
  <2>. QED BY <2>1, <2>3, <1>4, CommandTaken
<1>. HIDE DEF by
<1>7. /\ req' \in [Request -> Requested] /\ req'[by] = Idle
      /\ \A q \in Request : q # by => req'[q] = req[q]
  BY <1>6, <1>t, IdleTyped DEF Typed, by
<1>8. Typed'
  BY <1>t, <1>4, <1>7 DEF Typed
<1>9. Purposes'
  <2>1. \A q \in Request : q # by => req'[q] = req[q] /\ (req[q].pc = "starting" => managed'[req[q].c].actor = "starting")
    BY <1>7, <1>3, <1>4 DEF Inv, Purposes, PurposeOf, Attached
  <2>2. ASSUME NEW d \in Conn, NotSent(d) PROVE NotSent(d)'
    BY <2>2, <1>3, <1>4 DEF NotSent
  <2>. QED BY <2>1, <2>2, <1>7, <1>5, PurposesKept
<1>10. CalmRequests /\ Opening' \subseteq Opening /\ Freeing' \subseteq Freeing
  BY <1>6, <1>7 DEF CalmRequests, Opening, Freeing, Idle, Made
<1>11. NewsInOrder'
  BY <1>3, <1>4 DEF Inv, NewsInOrder
<1>. QED BY <1>5, <1>6, <1>8, <1>9, <1>10, <1>11, Unmoved, Calm DEF NumbersLeft, RoomLeft

LEMMA OverParts ==
  ASSUME NEW m \in Managed, NEW status \in Status
  PROVE  LET o == Over(m, status) IN
         /\ o \in Managed /\ o.actor = "over" /\ o.cmds = << >> /\ o.id = m.id /\ o.sdk = m.sdk /\ o.proc = m.proc
         /\ o.inbox = Append(m.inbox, "stop") /\ o.status = status
<1>1. Append(m.inbox, "stop") \in Seq(News) /\ << >> \in Seq(Command)
  BY AppendProperties DEF Managed, News
<1>. QED BY <1>1 DEF Over, Managed

\* Those who are refused.
LEMMA RefusedTyped ==
  ASSUME Typed, NEW c
  PROVE  /\ Refused(c) \in [Request -> Requested]
         /\ \A q \in Request : req[q].pc = "starting" => Refused(c)[q] = req[q]
<1>1. ASSUME NEW q \in Request
      PROVE  [req[q] EXCEPT !.pc = "failed"] \in Requested /\ [req[q] EXCEPT !.pc = "unheard"] \in Requested
  BY RequestParts, RequestMoves DEF RequestPc
<1>2. \A q \in Request : Refused(c)[q] \in {[req[q] EXCEPT !.pc = "failed"], [req[q] EXCEPT !.pc = "unheard"], req[q]}
  BY DEF Refused
<1>3. \A q \in Request : Refused(c)[q] \in Requested
  BY <1>1, <1>2, RequestParts
<1>. QED BY <1>3 DEF Refused

\* An actor that was up ends, and its requests are told.
LEMMA Ends ==
  ASSUME Inv, NEW c \in Conn, managed[c].actor \in {"ready", "driving"}, NEW status \in Status,
         managed' = [managed EXCEPT ![c] = Over(managed[c], status)], req' = Refused(c)
  PROVE  /\ managed' \in [Conn -> Managed] /\ req' \in [Request -> Requested] /\ managed'[c].actor = "over"
         /\ Typed' => /\ SameObjects /\ NewsInOrder' /\ CommandsAnswered' /\ Purposes' /\ CalmRequests
                      /\ Opening' \subseteq Opening /\ Freeing' \subseteq Freeing
<1>t. Typed /\ managed[c] \in Managed
  BY ManagedParts DEF Inv
<1>. DEFINE m == Over(managed[c], status)
<1>1. /\ m \in Managed /\ m.actor = "over" /\ m.cmds = << >> /\ m.id = managed[c].id /\ m.sdk = managed[c].sdk
      /\ m.proc = managed[c].proc /\ m.inbox = Append(managed[c].inbox, "stop")
  BY <1>t, OverParts
<1>. HIDE DEF m
<1>2. managed' = [managed EXCEPT ![c] = m]
  BY DEF m
<1>3. managed' \in [Conn -> Managed] /\ managed'[c] = m /\ \A d \in Conn : d # c => managed'[d] = managed[d]
  BY <1>t, <1>1, <1>2, ChangeOne
<1>4. req' \in [Request -> Requested] /\ \A q \in Request : req'[q] = Refused(c)[q]
  BY <1>t, RefusedTyped
<1>5. \A q \in Request : req[q].pc = "starting" => managed[req[q].c].actor = "starting"
  BY DEF Inv, Purposes, PurposeOf
<1>6. \A q \in Request : req'[q] = Refused(c)[q] /\ (req[q].pc = "starting" => req[q].c # c)
  BY <1>4, <1>5
<1>7. ASSUME Typed'
      PROVE  /\ SameObjects /\ NewsInOrder' /\ CommandsAnswered' /\ Purposes' /\ CalmRequests
             /\ Opening' \subseteq Opening /\ Freeing' \subseteq Freeing
  BY <1>1, <1>3, <1>6, <1>7, ActorEnds DEF Alive
<1>. QED BY <1>1, <1>3, <1>4, <1>7

LEMMA ActorLeavesStep == ASSUME Inv, NEW c \in Conn, ActorLeaves(c) PROVE Inv'
<1>t. Typed /\ managed[c].status \in Status
  BY ManagedParts DEF Inv
<1>1. /\ managed[c].actor \in {"ready", "driving"} /\ req' = Refused(c)
      /\ managed' = [managed EXCEPT ![c] = Over(managed[c], managed[c].status)]
  BY <1>t DEF ActorLeaves, Typed
<1>2. Typed'
  BY <1>t, <1>1, Ends DEF Typed, ActorLeaves
<1>3. /\ SameObjects /\ NewsInOrder' /\ CommandsAnswered' /\ Purposes' /\ CalmRequests
      /\ Opening' \subseteq Opening /\ Freeing' \subseteq Freeing
  BY <1>t, <1>1, <1>2, Ends
<1>. QED BY <1>2, <1>3, Unmoved, Calm DEF ActorLeaves, NumbersLeft, RoomLeft

LEMMA ActorCrashesStep == ASSUME Inv, NEW c \in Conn, ActorCrashes(c) PROVE Inv'
<1>t. Typed /\ "error" \in Status
  BY DEF Inv, Status, Settled
<1>1. /\ managed[c].actor \in {"ready", "driving"} /\ req' = Refused(c)
      /\ managed' = [managed EXCEPT ![c] = Over(managed[c], "error")]
  BY <1>t DEF ActorCrashes, Typed
<1>2. Typed'
  <2>1. faults' \in Nat
    BY <1>t DEF ActorCrashes, Fault, Typed
  <2>2. managed' \in [Conn -> Managed] /\ req' \in [Request -> Requested]
    BY <1>t, <1>1, Ends
  <2>. QED BY <1>t, <2>1, <2>2 DEF Typed, ActorCrashes
<1>3. /\ SameObjects /\ NewsInOrder' /\ CommandsAnswered' /\ Purposes' /\ CalmRequests
      /\ Opening' \subseteq Opening /\ Freeing' \subseteq Freeing
  BY <1>t, <1>1, <1>2, Ends
<1>. QED BY <1>2, <1>3, Unmoved, Calm DEF ActorCrashes, NumbersLeft, RoomLeft

LEMMA PersistActorErrorStep == ASSUME Inv, NEW s \in Session, PersistActorError(s) PROVE Inv'
<1>t. Typed
  BY DEF Inv
<1>1. /\ row' \in [Session -> {"absent"} \union Status]
      /\ \A t \in Session : row'[t] # "absent" => row[t] # "absent"
  BY <1>t, Written DEF PersistActorError, Status, Settled
<1>2. Typed'
  BY <1>t, <1>1 DEF Typed, PersistActorError
<1>3. managed' = managed /\ req' = req
  BY DEF PersistActorError
<1>4. SameObjects /\ NewsInOrder' /\ CommandsAnswered' /\ Purposes' /\ CalmRequests
  BY <1>2, <1>3, Moves
<1>. QED BY <1>1, <1>2, <1>3, <1>4, Unmoved, Calm DEF PersistActorError, NumbersLeft, RoomLeft

LEMMA DisconnectTimesOutStep == ASSUME Inv, NEW e \in disconnecting, DisconnectTimesOut(e) PROVE Inv'
<1>t. Typed /\ e.c \in Conn /\ e \in Evicting /\ "interrupted" \in Status
  BY DEF Inv, Typed, Evicting, Status, Settled
<1>. DEFINE f == [e EXCEPT !.step = "drain"]
<1>0. f \in Evicting /\ f.id = e.id /\ f.c = e.c /\ f.by = e.by /\ f.step = "drain"
  BY <1>t DEF Evicting
<1>1. /\ managed[e.c].actor \in {"ready", "driving"} /\ req' = Refused(e.c)
      /\ managed' = [managed EXCEPT ![e.c] = Over(managed[e.c], "interrupted")]
      /\ disconnecting' = (disconnecting \ {e}) \union {f}
  BY <1>t DEF DisconnectTimesOut, Typed, Step
<1>. HIDE DEF f
<1>2. Typed' /\ managed'[e.c].actor = "over"
  <2>1. faults' \in Nat
    BY <1>t DEF DisconnectTimesOut, Fault, Typed
  <2>2. /\ managed' \in [Conn -> Managed] /\ req' \in [Request -> Requested] /\ managed'[e.c].actor = "over"
    BY <1>t, <1>1, Ends
  <2>. QED BY <1>t, <1>0, <1>1, <2>1, <2>2 DEF Typed, DisconnectTimesOut
<1>3. /\ SameObjects /\ NewsInOrder' /\ CommandsAnswered' /\ Purposes' /\ CalmRequests
      /\ Opening' \subseteq Opening /\ Freeing' \subseteq Freeing
  BY <1>t, <1>1, <1>2, Ends
<1>4. EvictionsGoOn
  BY <1>0, <1>1, <1>2, <1>3 DEF EvictionsGoOn, Inv, EvictionsMean, SameObjects, Typed, Evicting
<1>. QED BY <1>2, <1>3, <1>4, Unmoved, Calm DEF DisconnectTimesOut, NumbersLeft, RoomLeft

LEMMA StartFailsStep == ASSUME Inv, NEW r \in Request, StartFails(r) PROVE Inv'
<1>t. Typed /\ PurposeOf(r) /\ req[r] \in Requested
  BY RequestParts DEF Inv, Purposes
<1>. PICK c \in Conn : c = req[r].c
  BY DEF StartFails, At, Inv, Purposes, PurposeOf, Attached
<1>. DEFINE m == [managed[c] EXCEPT !.actor = "over", !.cmds = << >>]
<1>m. managed[c] \in Managed /\ managed[c].id \in Id /\ managed[c].actor = "starting" /\ req[r].pc = "starting"
  <2>1. managed[c].actor = "starting" /\ req[r].pc = "starting"
    BY DEF StartFails, At
  <2>. QED BY <2>1, <1>t, ManagedParts DEF Inv, IdsOwn, Alive
<1>1. /\ managed' = [managed EXCEPT ![c] = m] /\ sessions' = [sessions EXCEPT ![managed[c].id] = None]
      /\ req' = [Refused(c) EXCEPT ![r] = Idle]
      /\ UNCHANGED << disconnecting, locks, row, late, overlap, begun >>
  BY <1>t DEF StartFails, Typed
<1>2. /\ m \in Managed /\ m.actor = "over" /\ m.cmds = << >> /\ m.id = managed[c].id /\ m.sdk = managed[c].sdk
      /\ m.proc = managed[c].proc /\ m.inbox = managed[c].inbox
  <2>1. << >> \in Seq(Command)
    OBVIOUS
  <2>. QED BY <1>m, <2>1 DEF Managed
<1>. HIDE DEF m
<1>3. managed' \in [Conn -> Managed] /\ managed'[c] = m /\ \A d \in Conn : d # c => managed'[d] = managed[d]
  BY <1>t, <1>1, <1>2, ChangeOne
<1>4. req' \in [Request -> Requested] /\ req'[r] = Idle /\ \A q \in Request : q # r => req'[q] = Refused(c)[q]
  BY <1>t, <1>1, RefusedTyped, IdleTyped
<1>5. Typed'
  <2>1. faults' \in Nat
    BY <1>t DEF StartFails, Fault, Typed
  <2>. QED BY <1>t, <1>1, <1>3, <1>4, <2>1 DEF Typed
<1>6. \A q \in Request : \/ req'[q] = Refused(c)[q] /\ (req[q].pc = "starting" => req[q].c # c)
                         \/ req'[q] = Idle /\ req[q].pc = "starting" /\ req[q].c = c
  <2>1. \A q \in Request : q # r /\ req[q].pc = "starting" => req[q].c # c
    BY <1>m DEF Inv, OneStarter
  <2>. QED BY <1>m, <1>4, <2>1
<1>7. /\ SameObjects /\ NewsInOrder' /\ CommandsAnswered' /\ Purposes' /\ CalmRequests
      /\ Opening' \subseteq Opening /\ Freeing' \subseteq Freeing
  BY <1>m, <1>2, <1>3, <1>5, <1>6, ActorEnds DEF Alive
<1>8. FewerSessions
  <2>1. \A i \in Id : sessions'[i] # sessions[i] => i = managed[c].id /\ sessions'[i] = None
    BY <1>1, <1>t DEF Typed
  <2>2. ASSUME NEW d \in Conn, d = sessions[managed[c].id], Alive(d)'
        PROVE  managed[c].id \in overlap
    <3>1. d # c
      BY <2>2, <1>2, <1>3 DEF Alive
    <3>2. managed[d].id = managed[c].id /\ managed[d].actor # "none"
      BY <1>m, <2>2, SessionAssumption DEF Inv, IdsOwn
    <3>3. CASE managed[c].id \in Conn
      BY <3>1, <3>2, <3>3 DEF Inv, IdsOwn
    <3>4. CASE managed[c].id \in Session
      <4>1. req[r].op = "send" /\ req[r].sid = managed[c].id
        BY <1>t, <1>m, <3>4, SessionAssumption DEF PurposeOf
      <4>2. Holds(r, managed[c].id)
        BY <4>1, <1>m DEF Holds
      <4>. QED BY <4>2, <1>m, <3>1, <3>4, <2>2, SessionAssumption DEF Inv, LockedOut
    <3>. QED BY <3>3, <3>4, <1>m DEF Id
  <2>. QED BY <2>1, <2>2 DEF FewerSessions
<1>. QED BY <1>1, <1>5, <1>7, <1>8, Unmoved, Calm DEF NumbersLeft, RoomLeft

\* Messages other than the first.
LEMMA ProcessInboxStep == ASSUME Inv, NEW c \in Conn, ProcessInbox(c), Head(managed[c].inbox) # "init" PROVE Inv'
<1>t. Typed /\ managed[c] \in Managed /\ managed[c].inbox \in Seq(News) /\ managed[c].inbox # << >>
      /\ managed[c].proc = "waiting"
  BY ManagedParts DEF Inv, ProcessInbox
<1>0. Tail(managed[c].inbox) \in Seq(News) /\ 1 \in DOMAIN managed[c].inbox /\ Head(managed[c].inbox) = managed[c].inbox[1]
  BY <1>t, HeadTailProperties, LenProperties, EmptySeq
<1>1. managed[c].actor \notin {"none", "starting"}
  BY <1>t DEF Inv, IdsOwn
<1>2. CASE /\ Head(managed[c].inbox) = "stop"
           /\ managed' = [managed EXCEPT ![c].proc = "over", ![c].inbox = Tail(@)]
  <2>. DEFINE m == [managed[c] EXCEPT !.proc = "over", !.inbox = Tail(@)]
  <2>1. m \in Managed /\ managed' = [managed EXCEPT ![c] = m]
    BY <1>t, <1>0, <1>2 DEF Managed, ProcState
  <2>2. /\ m.actor = managed[c].actor /\ m.id = managed[c].id /\ m.sdk = managed[c].sdk /\ m.cmds = managed[c].cmds
        /\ m.proc = "over" /\ m.status = managed[c].status /\ m.inbox = Tail(managed[c].inbox)
        /\ m.timer = managed[c].timer
    BY <1>t DEF Managed
  <2>. HIDE DEF m
  <2>3. managed'[c] = m
    BY <1>t, <2>1, ChangeOne
  <2>4. ObjectMoves(c)
    BY <1>t, <1>1, <2>2, <2>3 DEF ObjectMoves, HeadStays, Inv, UnderNumber, Alive, Naming
  <2>. QED BY <1>t, <1>1, <2>1, <2>4, OnlyObject DEF ProcessInbox, Typed
<1>3. CASE /\ Head(managed[c].inbox) \in Settled
           /\ managed' = [managed EXCEPT ![c].proc = "finalizing", ![c].status = Head(managed[c].inbox),
                                         ![c].asking = FALSE]
  <2>. DEFINE k == Head(managed[c].inbox)
  <2>0. k \in Settled /\ k \in Status /\ managed[c].sdk # None
    BY <1>0, <1>3 DEF Inv, NewsInOrder, Status
  <2>. HIDE DEF k
  <2>. DEFINE m == [managed[c] EXCEPT !.proc = "finalizing", !.status = k, !.asking = FALSE]
  <2>1. m \in Managed /\ managed' = [managed EXCEPT ![c] = m]
    BY <1>t, <1>3, <2>0 DEF Managed, ProcState, k
  <2>2. /\ m.actor = managed[c].actor /\ m.id = managed[c].id /\ m.sdk = managed[c].sdk /\ m.cmds = managed[c].cmds
        /\ m.proc = "finalizing" /\ m.inbox = managed[c].inbox /\ m.timer = managed[c].timer
    BY <1>t DEF Managed
  <2>. HIDE DEF m
  <2>3. managed'[c] = m
    BY <1>t, <2>1, ChangeOne
  <2>4. ObjectMoves(c)
    BY <1>t, <1>0, <1>1, <1>3, <2>0, <2>2, <2>3, StaysLive DEF Naming, HeadStays
  <2>. QED BY <1>t, <1>1, <2>1, <2>2, <2>3, <2>4, OnlyObject DEF ProcessInbox, Typed
<1>. QED BY <1>2, <1>3 DEF ProcessInbox

LEMMA CreateRowStep == ASSUME Inv, NEW c \in Conn, CreateRow(c) PROVE Inv'
<1>t. Typed /\ managed[c] \in Managed
  BY ManagedParts DEF Inv
<1>. DEFINE m == [managed[c] EXCEPT !.proc = "naming"]
<1>1. m \in Managed /\ managed' = [managed EXCEPT ![c] = m]
  BY <1>t DEF CreateRow, Managed, ProcState
<1>2. /\ m.actor = managed[c].actor /\ m.id = managed[c].id /\ m.sdk = managed[c].sdk /\ m.cmds = managed[c].cmds
      /\ m.proc = "naming" /\ m.status = managed[c].status /\ m.inbox = managed[c].inbox
  BY <1>t DEF Managed
<1>. HIDE DEF m
<1>3. managed'[c] = m /\ \A d \in Conn : d # c => managed'[d] = managed[d]
  BY <1>t, <1>1, ChangeOne
<1>4. ObjectMoves(c) /\ managed'[c].actor = managed[c].actor
  BY <1>t, <1>2, <1>3 DEF CreateRow, ObjectMoves, HeadStays, Inv, IdsOwn, UnderNumber, Alive, Naming
<1>5. managed[c].sdk \in Session /\ managed[c].proc = "creating"
  BY <1>t, ManagedParts DEF CreateRow, Inv, IdsOwn
<1>6. row' \in [Session -> {"absent"} \union Status]
  BY <1>t, <1>5 DEF CreateRow, Typed, Status
<1>7. RowsMet
  <2>1. \A s \in Session : row'[s] # "absent" => row[s] # "absent" \/ s = managed[c].sdk
    BY <1>t, <1>5 DEF CreateRow, Typed
  <2>2. ASSUME NEW d \in Conn, managed'[d].proc = "creating"
        PROVE  row'[managed[d].sdk] = "absent"
    <3>1. d # c /\ managed[d].proc = "creating"
      BY <2>2, <1>2, <1>3
    <3>2. row[managed[d].sdk] = "absent" /\ managed[d].sdk # managed[c].sdk /\ managed[d].sdk \in Session
      BY <1>t, <1>5, <3>1, ManagedParts DEF Inv, Fresh, IdsOwn
    <3>. QED BY <2>1, <3>2
  <2>. QED BY <2>1, <2>2, <1>5 DEF RowsMet, Inv, Fresh, Met
<1>. QED BY <1>t, <1>1, <1>4, <1>6, <1>7, OnlyObject DEF CreateRow, Typed

LEMMA FinalizeStep == ASSUME Inv, NEW c \in Conn, Finalize(c) PROVE Inv'
<1>t. Typed /\ managed[c] \in Managed /\ managed[c].proc = "finalizing" /\ managed[c].inbox \in Seq(News)
  BY ManagedParts DEF Inv, Finalize
<1>. DEFINE id == managed[c].id
            m == [managed[c] EXCEPT !.proc = "waiting", !.inbox = Tail(@), !.interrupted = FALSE]
<1>0. /\ Tail(managed[c].inbox) \in Seq(News) /\ managed[c].inbox # << >>
      /\ Head(managed[c].inbox) \in Status
  BY <1>t, HeadTailProperties DEF Inv, NewsInOrder, Status
<1>1. /\ id \in Id /\ id # None /\ managed[c].actor \notin {"none", "starting"} /\ sessions[id] \in Conn \union {None}
  <2>1. id \in Id
    BY <1>t, ManagedParts DEF Inv, IdsOwn
  <2>. QED BY <1>t, <2>1, SessionAssumption DEF Inv, IdsOwn, Typed, Id
<1>2. /\ m \in Managed /\ m.actor = managed[c].actor /\ m.id = managed[c].id /\ m.sdk = managed[c].sdk
      /\ m.cmds = managed[c].cmds /\ m.proc = "waiting" /\ m.status = managed[c].status
      /\ m.inbox = Tail(managed[c].inbox)
  <2>1. m \in Managed
    BY <1>t, <1>0 DEF Managed, ProcState
  <2>. QED BY <1>t, <2>1 DEF Managed
<1>. DEFINE M == [managed EXCEPT ![c] = m]
<1>3. managed' = M \/ \E d \in Conn : d = sessions[id] /\ managed' = [M EXCEPT ![d].timer = TRUE]
  BY <1>t, <1>1 DEF Finalize, Typed
<1>. HIDE DEF m
<1>4. M \in [Conn -> Managed] /\ M[c] = m /\ \A d \in Conn : d # c => M[d] = managed[d]
  BY <1>t, <1>2 DEF Typed
<1>. HIDE DEF M
<1>5. /\ managed' \in [Conn -> Managed]
      /\ \A d \in Conn : /\ managed'[d].actor = M[d].actor /\ managed'[d].id = M[d].id /\ managed'[d].sdk = M[d].sdk
                         /\ managed'[d].cmds = M[d].cmds /\ managed'[d].proc = M[d].proc
                         /\ managed'[d].status = M[d].status /\ managed'[d].inbox = M[d].inbox
                         /\ managed'[d] = M[d] \/ d = sessions[id]
  <2>1. CASE managed' = M
    BY <1>4, <2>1
  <2>2. ASSUME NEW d \in Conn, d = sessions[id], managed' = [M EXCEPT ![d].timer = TRUE]
        PROVE  /\ managed' \in [Conn -> Managed]
               /\ managed'[d].actor = M[d].actor /\ managed'[d].id = M[d].id /\ managed'[d].sdk = M[d].sdk
               /\ managed'[d].cmds = M[d].cmds /\ managed'[d].proc = M[d].proc
               /\ managed'[d].status = M[d].status /\ managed'[d].inbox = M[d].inbox
               /\ \A b \in Conn : b # d => managed'[b] = M[b]
    <3>. DEFINE k == [M[d] EXCEPT !.timer = TRUE]
    <3>1. /\ k \in Managed /\ k.actor = M[d].actor /\ k.id = M[d].id /\ k.sdk = M[d].sdk
          /\ k.cmds = M[d].cmds /\ k.proc = M[d].proc /\ k.status = M[d].status /\ k.inbox = M[d].inbox
      <4>1. M[d] \in Managed
        BY <1>4
      <4>. HIDE DEF M
      <4>. QED BY <4>1 DEF Managed
    <3>2. managed' = [M EXCEPT ![d] = k]
      BY <2>2
    <3>. HIDE DEF k
    <3>. QED BY <1>4, <3>1, <3>2
  <2>. QED BY <1>3, <2>1, <2>2
<1>6. row' \in [Session -> {"absent"} \union Status] /\ \A s \in Session : row'[s] # "absent" => row[s] # "absent"
  BY <1>t, <1>0, Written DEF Finalize, Typed
<1>7. Typed'
  BY <1>t, <1>5, <1>6 DEF Typed, Finalize
<1>8. ASSUME NEW d \in Conn PROVE managed'[d] = managed[d] \/ ObjectMoves(d)
  <2>1. CASE d = c
    <3>1. HeadStays(c)
      BY <1>2, <1>4, <1>5 DEF HeadStays
    <3>. QED BY <1>t, <1>0, <1>1, <1>2, <1>4, <1>5, <2>1, <3>1, StaysLive
  <2>2. CASE d # c /\ d = sessions[id]
    <3>1. managed[d].actor # "none" /\ managed[d].id = id
      BY <1>1, <2>2, SessionAssumption DEF Inv, IdsOwn
    <3>2. M[d] = managed[d]
      BY <1>4, <2>2
    <3>3. HeadStays(d)
      BY <1>5, <3>2 DEF HeadStays
    <3>. QED BY <1>1, <1>5, <3>1, <3>2, <3>3, StaysLive
  <2>. QED BY <1>4, <1>5, <2>1, <2>2
<1>9. \A q \in Request : req[q].pc = "starting" => req[q].c \in Conn /\ managed'[req[q].c].actor = managed[req[q].c].actor
  BY <1>2, <1>4, <1>5 DEF Inv, Purposes, PurposeOf, Attached
<1>10. req' = req
  BY DEF Finalize
<1>11. SameObjects /\ NewsInOrder' /\ CommandsAnswered' /\ Purposes' /\ CalmRequests
  BY <1>7, <1>8, <1>9, <1>10, Moves
<1>. QED BY <1>6, <1>7, <1>10, <1>11, Unmoved, Calm DEF Finalize, NumbersLeft, RoomLeft

--------------------------------------------------------------------------------
(* Evictions. *)

LEMMA EnqueueParts ==
  ASSUME NEW m \in Managed, NEW kind \in {"query", "interrupt", "disconnect"}, NEW by \in Request \union {None}
  PROVE  LET e == Enqueue(m, kind, by)
             cmd == [kind |-> kind, by |-> by] IN
         /\ e \in Managed /\ e.actor = m.actor /\ e.id = m.id /\ e.sdk = m.sdk /\ e.proc = m.proc
         /\ e.status = m.status /\ e.inbox = m.inbox /\ e.timer = m.timer
         /\ cmd \in Command /\ cmd.kind = kind /\ cmd.by = by
         /\ m.actor = "over" => e = m
         /\ m.actor # "over" => e.cmds = Append(m.cmds, cmd)
<1>. DEFINE cmd == [kind |-> kind, by |-> by]
            e == Enqueue(m, kind, by)
            q == [m EXCEPT !.cmds = Append(@, cmd)]
<1>1. cmd \in Command /\ cmd.kind = kind /\ cmd.by = by
  BY DEF Command
<1>. HIDE DEF cmd
<1>2. Append(m.cmds, cmd) \in Seq(Command)
  BY <1>1, AppendProperties DEF Managed
<1>3. /\ q \in Managed /\ q.actor = m.actor /\ q.id = m.id /\ q.sdk = m.sdk /\ q.proc = m.proc
      /\ q.status = m.status /\ q.inbox = m.inbox /\ q.timer = m.timer /\ q.cmds = Append(m.cmds, cmd)
  BY <1>2 DEF Managed
<1>4. e = IF m.actor = "over" THEN m ELSE q
  BY DEF Enqueue, cmd
<1>. HIDE DEF e, q
<1>5. /\ e \in Managed /\ e.actor = m.actor /\ e.id = m.id /\ e.sdk = m.sdk /\ e.proc = m.proc
      /\ e.status = m.status /\ e.inbox = m.inbox /\ e.timer = m.timer
      /\ m.actor = "over" => e = m
      /\ m.actor # "over" => e.cmds = Append(m.cmds, cmd)
  BY <1>3, <1>4
<1>. QED BY <1>1, <1>5 DEF e, cmd

\* What has a command more, or nothing new, keeps its names and its state.
LEMMA HasMore ==
  ASSUME Inv, NEW c \in Conn,
         managed[c].actor # "none", managed'[c].actor = managed[c].actor,
         managed'[c].id = managed[c].id, managed'[c].sdk = managed[c].sdk,
         managed'[c].proc = managed[c].proc, managed'[c].inbox = managed[c].inbox,
         managed'[c].timer => managed[c].timer \/ managed[c].id # None,
         managed'[c].status = managed[c].status \/ managed[c].id # c \/ managed'[c].status = "running"
           \/ managed[c].actor = "over",
         \/ managed'[c].cmds = managed[c].cmds
         \/ \E cmd \in Command : /\ managed'[c].cmds = Append(managed[c].cmds, cmd)
                                 /\ CommandOf(c, cmd)'
                                 /\ cmd.by # None => req[cmd.by].pc \notin {"sending", "interrupting"}
  PROVE  ObjectMoves(c)
<1>1. managed'[c].proc \notin {"off", "over"} => managed[c].id # None
  BY DEF Inv, IdsOwn
<1>2. sessions[c] = c => /\ managed[c].proc \in Naming => managed'[c].proc \in Naming
                         /\ Alive(c)' => managed'[c].status = "running"
  <2>1. sessions[c] = c => managed[c].id = c
    BY SessionAssumption DEF Inv, IdsOwn, Id
  <2>2. sessions[c] = c /\ Alive(c) => managed[c].status = "running"
    BY DEF Inv, UnderNumber
  <2>. QED BY <2>1, <2>2 DEF Alive
<1>3. HeadStays(c)
  BY DEF HeadStays
<1>. QED BY <1>1, <1>2, <1>3 DEF ObjectMoves

LEMMA EvictionSteps ==
  ASSUME Inv, SameObjects, NEW e \in disconnecting, NEW step \in {"begin", "disconnect", "drain", "persist"},
         Step(e, step), step \in {"drain", "persist"} => managed'[e.c].actor = "over"
  PROVE  EvictionsGoOn /\ disconnecting' \subseteq Evicting
<1>t. Typed /\ e \in Evicting
  BY DEF Inv, Typed
<1>. DEFINE f == [e EXCEPT !.step = step]
<1>1. f \in Evicting /\ f.id = e.id /\ f.c = e.c /\ f.by = e.by /\ f.step = step
  BY <1>t DEF Evicting
<1>2. disconnecting' = (disconnecting \ {e}) \union {f}
  BY DEF Step
<1>. HIDE DEF f
<1>. QED BY <1>t, <1>1, <1>2 DEF EvictionsGoOn, Inv, EvictionsMean, SameObjects, Typed, Evicting

LEMMA HangUpStep == ASSUME Inv, NEW e \in disconnecting, HangUp(e) PROVE Inv'
<1>. PICK c \in Conn : c = e.c
  BY DEF Inv, Typed, Evicting
<1>t. Typed /\ managed[c] \in Managed /\ managed[c].actor # "none"
  BY ManagedParts DEF Inv, EvictionsMean
<1>. DEFINE m == Enqueue(managed[c], "disconnect", None)
            cmd == [kind |-> "disconnect", by |-> None]
<1>1. /\ m \in Managed /\ m.actor = managed[c].actor /\ m.id = managed[c].id /\ m.sdk = managed[c].sdk
      /\ m.proc = managed[c].proc /\ m.status = managed[c].status /\ m.inbox = managed[c].inbox
      /\ m.timer = managed[c].timer
      /\ cmd \in Command /\ cmd.kind = "disconnect" /\ cmd.by = None
      /\ m.cmds \in {managed[c].cmds, Append(managed[c].cmds, cmd)}
  BY <1>t, EnqueueParts
<1>2. managed' = [managed EXCEPT ![c] = m] /\ Step(e, "disconnect")
  BY <1>t DEF HangUp, Typed
<1>. HIDE DEF m, cmd
<1>3. managed' \in [Conn -> Managed] /\ managed'[c] = m /\ \A d \in Conn : d # c => managed'[d] = managed[d]
  BY <1>t, <1>1, <1>2, ChangeOne
<1>4. ObjectMoves(c)
  <2>1. CommandOf(c, cmd)'
    BY <1>1 DEF CommandOf
  <2>. QED BY <1>t, <1>1, <1>3, <2>1, HasMore
<1>5. SameObjects => EvictionsGoOn /\ disconnecting' \subseteq Evicting
  BY <1>2, EvictionSteps
<1>6. Typed' /\ SameObjects
  <2>1. disconnecting' \subseteq Evicting
    <3>1. [e EXCEPT !.step = "disconnect"] \in Evicting
      BY <1>t DEF Typed, Evicting
    <3>. QED BY <1>2, <1>t, <3>1 DEF Step, Typed
  <2>2. Typed'
    BY <1>t, <1>3, <2>1 DEF Typed, HangUp
  <2>. QED BY <2>2, <1>1, <1>3, <1>4, Moves DEF HangUp
<1>7. NewsInOrder' /\ CommandsAnswered' /\ Purposes' /\ CalmRequests
  <2>1. \A q \in Request : req[q].pc = "starting" => req[q].c \in Conn /\ managed'[req[q].c].actor = managed[req[q].c].actor
    BY <1>1, <1>3 DEF Inv, Purposes, PurposeOf, Attached
  <2>. QED BY <2>1, <1>3, <1>4, <1>6, Moves DEF HangUp
<1>. QED BY <1>5, <1>6, <1>7, Unmoved, Calm DEF HangUp, NumbersLeft, RoomLeft

LEMMA DisconnectedStep == ASSUME Inv, NEW e \in disconnecting, Disconnected(e) PROVE Inv'
<1>. PICK c \in Conn : c = e.c
  BY DEF Inv, Typed, Evicting
<1>t. Typed /\ managed[c] \in Managed /\ managed[c].actor = "over"
  BY ManagedParts DEF Inv, Disconnected
<1>. DEFINE m == [managed[c] EXCEPT !.status = "closed", !.inbox = Append(@, "stop")]
<1>1. /\ m \in Managed /\ m.actor = managed[c].actor /\ m.id = managed[c].id /\ m.sdk = managed[c].sdk
      /\ m.proc = managed[c].proc /\ m.inbox = Append(managed[c].inbox, "stop") /\ m.cmds = managed[c].cmds
      /\ m.timer = managed[c].timer
  <2>1. Append(managed[c].inbox, "stop") \in Seq(News)
    BY <1>t, ManagedParts, AppendProperties DEF News
  <2>. QED BY <1>t, <2>1 DEF Managed, Status
<1>2. managed' = [managed EXCEPT ![c] = m] /\ Step(e, "drain")
  BY <1>t DEF Disconnected, Typed
<1>. HIDE DEF m
<1>3. managed' \in [Conn -> Managed] /\ managed'[c] = m /\ \A d \in Conn : d # c => managed'[d] = managed[d]
  BY <1>t, <1>1, <1>2, ChangeOne
<1>4. ObjectMoves(c)
  <2>1. "stop" \in News
    BY DEF News
  <2>. QED BY <1>t, <1>1, <1>3, <2>1 DEF ObjectMoves, HeadStays, Alive, Inv, IdsOwn
<1>5. SameObjects => EvictionsGoOn /\ disconnecting' \subseteq Evicting
  BY <1>t, <1>1, <1>2, <1>3, EvictionSteps
<1>6. Typed'
  <2>1. disconnecting' \subseteq Evicting
    <3>1. [e EXCEPT !.step = "drain"] \in Evicting
      BY <1>t DEF Typed, Evicting
    <3>. QED BY <1>2, <1>t, <3>1 DEF Step, Typed
  <2>. QED BY <1>t, <1>3, <2>1 DEF Typed, Disconnected
<1>7. SameObjects /\ NewsInOrder' /\ CommandsAnswered' /\ Purposes' /\ CalmRequests
  <2>1. \A q \in Request : req[q].pc = "starting" => req[q].c \in Conn /\ managed'[req[q].c].actor = managed[req[q].c].actor
    BY <1>1, <1>3 DEF Inv, Purposes, PurposeOf, Attached
  <2>. QED BY <2>1, <1>3, <1>4, <1>6, Moves DEF Disconnected
<1>. QED BY <1>5, <1>6, <1>7, Unmoved, Calm DEF Disconnected, NumbersLeft, RoomLeft

\* What becomes of the status of a session that is drained.
Drained0(c) == IF managed[c].sdk # None /\ managed[c].status = "running" THEN "interrupted" ELSE managed[c].status

\* A drained object: only its status may change, and its actor is over.
LEMMA DrainedParts ==
  ASSUME Inv, NEW c \in Conn, managed[c].actor = "over"
  PROVE  LET m == [managed[c] EXCEPT !.status = Drained0(c)] IN
         /\ m \in Managed /\ m.actor = "over" /\ m.id = managed[c].id /\ m.sdk = managed[c].sdk
         /\ m.proc = managed[c].proc /\ m.inbox = managed[c].inbox /\ m.cmds = managed[c].cmds
         /\ m.timer = managed[c].timer
<1>1. managed[c] \in Managed /\ Drained0(c) \in Status
  BY ManagedParts DEF Inv, Drained0, Status, Settled
<1>. QED BY <1>1 DEF Managed

LEMMA DrainedPersists ==
  ASSUME Inv, NEW e \in disconnecting, Drained(e), Step(e, "persist"),
         managed' = [managed EXCEPT ![e.c].status = Drained0(e.c)],
         UNCHANGED << sessions, locks, req >>
  PROVE  Inv'
<1>. PICK c \in Conn : c = e.c
  BY DEF Inv, Typed, Evicting
<1>t. Typed /\ managed[c] \in Managed /\ managed[c].actor = "over"
  BY ManagedParts DEF Inv, EvictionsMean, Drained
<1>. DEFINE m == [managed[c] EXCEPT !.status = Drained0(c)]
<1>1. /\ m \in Managed /\ m.actor = "over" /\ m.id = managed[c].id /\ m.sdk = managed[c].sdk
      /\ m.proc = managed[c].proc /\ m.inbox = managed[c].inbox /\ m.cmds = managed[c].cmds
      /\ m.timer = managed[c].timer
  BY <1>t, DrainedParts
<1>2. managed' = [managed EXCEPT ![c] = m]
  BY <1>t DEF Typed
<1>. HIDE DEF m
<1>3. managed' \in [Conn -> Managed] /\ managed'[c] = m /\ \A d \in Conn : d # c => managed'[d] = managed[d]
  BY <1>t, <1>1, <1>2, ChangeOne
<1>4. ObjectMoves(c)
  BY <1>t, <1>1, <1>3, HasMore
<1>5. SameObjects => EvictionsGoOn /\ disconnecting' \subseteq Evicting
  BY <1>t, <1>1, <1>2, <1>3, EvictionSteps
<1>6. Typed'
  <2>1. disconnecting' \subseteq Evicting
    <3>1. [e EXCEPT !.step = "persist"] \in Evicting
      BY <1>t DEF Typed, Evicting
    <3>. QED BY <1>t, <3>1 DEF Step, Typed
  <2>. QED BY <1>t, <1>3, <2>1 DEF Typed, Drained
<1>7. SameObjects /\ NewsInOrder' /\ CommandsAnswered' /\ Purposes' /\ CalmRequests
  <2>1. \A q \in Request : req[q].pc = "starting" => req[q].c \in Conn /\ managed'[req[q].c].actor = managed[req[q].c].actor
    BY <1>t, <1>1, <1>3 DEF Inv, Purposes, PurposeOf, Attached
  <2>. QED BY <2>1, <1>3, <1>4, <1>6, Moves
<1>. QED BY <1>5, <1>6, <1>7, Unmoved, Calm DEF Drained, NumbersLeft, RoomLeft

\* Flags that no name, no command and no message depend on.
SameButFlags(m, n) ==
  /\ m.actor = n.actor /\ m.id = n.id /\ m.sdk = n.sdk /\ m.proc = n.proc
  /\ m.status = n.status /\ m.inbox = n.inbox /\ m.cmds = n.cmds
  /\ m.timer => n.timer

LEMMA EvictBegins ==
  ASSUME Inv, NEW c \in Conn, sessions[managed[c].id] = c, managed[c].id \in Id,
         NEW by \in Request \union {None}, NEW M \in [Conn -> Managed],
         \A d \in Conn : M[d] = managed[d] \/ (SameButFlags(M[d], managed[d]) /\ managed[d].actor # "none"),
         Evict(M, c, by),
         by # None => req[by].pc # "evicting" /\ req'[by].pc = "evicting"
  PROVE  /\ managed' \in [Conn -> Managed] /\ disconnecting' \subseteq Evicting
         /\ \A d \in Conn : managed'[d].actor = managed[d].actor /\ (managed'[d] = managed[d] \/ ObjectMoves(d))
         /\ SameObjects => EvictionsGoOn
         /\ \E f \in disconnecting' : f.id = managed[c].id
<1>t. Typed /\ M[c] \in Managed /\ M[c].timer \in BOOLEAN
  BY DEF Inv, Managed
<1>n. managed[c].actor # "none" /\ managed[c].id # None
  BY SessionAssumption DEF Inv, IdsOwn, Id
<1>s. \A d \in Conn : SameButFlags(M[d], managed[d])
  BY DEF SameButFlags
<1>c. /\ M[c].actor = managed[c].actor /\ M[c].id = managed[c].id /\ M[c].sdk = managed[c].sdk
      /\ M[c].proc = managed[c].proc /\ M[c].status = managed[c].status /\ M[c].inbox = managed[c].inbox
      /\ M[c].cmds = managed[c].cmds
  BY <1>s DEF SameButFlags
<1>. DEFINE step == IF M[c].timer THEN "begin" ELSE "disconnect"
            f == [id |-> managed[c].id, c |-> c, by |-> by, step |-> step]
<1>1. step \in {"begin", "disconnect"}
  OBVIOUS
<1>2. disconnecting' = disconnecting \union {f}
  BY DEF Evict
<1>. HIDE DEF step
<1>3. f \in Evicting /\ f.id = managed[c].id /\ f.c = c /\ f.by = by /\ f.step \notin {"drain", "persist"}
  BY <1>1 DEF Evicting
<1>. HIDE DEF f
<1>4. PICK m \in Managed : /\ managed' = [M EXCEPT ![c] = m]
                           /\ m.actor = managed[c].actor /\ m.id = managed[c].id /\ m.sdk = managed[c].sdk
                           /\ m.proc = managed[c].proc /\ m.status = managed[c].status /\ m.inbox = managed[c].inbox
                           /\ \/ m.cmds = managed[c].cmds
                              \/ \E cmd \in Command : /\ m.cmds = Append(managed[c].cmds, cmd)
                                                      /\ cmd.kind = "disconnect" /\ cmd.by = None
  <2>1. CASE M[c].timer
    <3>. DEFINE n == [M[c] EXCEPT !.timer = FALSE]
    <3>1. /\ n \in Managed /\ n.actor = M[c].actor /\ n.id = M[c].id /\ n.sdk = M[c].sdk
          /\ n.proc = M[c].proc /\ n.status = M[c].status /\ n.inbox = M[c].inbox /\ n.cmds = M[c].cmds
      BY <1>t DEF Managed
    <3>2. managed' = [M EXCEPT ![c] = n]
      BY <2>1 DEF Evict
    <3>. HIDE DEF n
    <3>. QED BY <1>c, <3>1, <3>2
  <2>2. CASE ~ M[c].timer
    <3>. DEFINE n == Enqueue(M[c], "disconnect", None)
                cmd == [kind |-> "disconnect", by |-> None]
    <3>1. /\ n \in Managed /\ n.actor = M[c].actor /\ n.id = M[c].id /\ n.sdk = M[c].sdk
          /\ n.proc = M[c].proc /\ n.status = M[c].status /\ n.inbox = M[c].inbox
          /\ cmd \in Command /\ cmd.kind = "disconnect" /\ cmd.by = None
          /\ n.cmds = M[c].cmds \/ n.cmds = Append(M[c].cmds, cmd)
      BY <1>t, EnqueueParts
    <3>2. managed' = [M EXCEPT ![c] = n]
      BY <2>2 DEF Evict
    <3>. HIDE DEF n, cmd
    <3>. QED BY <1>c, <3>1, <3>2
  <2>. QED BY <2>1, <2>2
<1>5. managed' \in [Conn -> Managed] /\ managed'[c] = m /\ \A d \in Conn : d # c => managed'[d] = M[d]
  BY <1>4
<1>6. ASSUME NEW d \in Conn
      PROVE  managed'[d].actor = managed[d].actor /\ (managed'[d] = managed[d] \/ ObjectMoves(d))
  <2>1. CASE d = c
    <3>1. \A cmd \in Command : cmd.kind = "disconnect" /\ cmd.by = None => CommandOf(c, cmd)'
      BY DEF CommandOf
    <3>2. managed'[c].actor = managed[c].actor
      BY <1>4, <1>5
    <3>3. ObjectMoves(c)
      BY <1>n, <1>4, <1>5, <3>1, HasMore
    <3>. QED BY <2>1, <3>2, <3>3
  <2>2. CASE d # c
    <3>1. managed'[d] = M[d]
      BY <1>5, <2>2
    <3>2. CASE M[d] # managed[d]
      BY <1>s, <3>1, <3>2, HasMore DEF SameButFlags
    <3>. QED BY <3>1, <3>2
  <2>. QED BY <2>1, <2>2
<1>7. ASSUME SameObjects PROVE EvictionsGoOn
  <2>1. Begins0(f)
    BY <1>3 DEF Begins0
  <2>2. \A e \in disconnecting : e.by # None => e.by # by
    BY DEF Inv, EvictionsMean
  <2>3. \A e \in disconnecting : e.step \in {"drain", "persist"} => managed'[e.c].actor = "over"
    BY <1>7, <1>t DEF Inv, EvictionsMean, SameObjects, Typed, Evicting
  <2>. QED BY <1>2, <1>3, <2>1, <2>2, <2>3 DEF EvictionsGoOn, Inv, EvictionsMean
<1>8. disconnecting' \subseteq Evicting
  BY <1>2, <1>3, <1>t DEF Typed
<1>9. \E g \in disconnecting' : g.id = managed[c].id
  BY <1>2, <1>3
<1>. QED BY <1>5, <1>6, <1>7, <1>8, <1>9

LEMMA ActiveParts ==
  ASSUME Inv, NEW c \in Active
  PROVE  c \in Conn /\ managed[c].id \in Id /\ sessions[managed[c].id] = c /\ managed[c].actor # "none"
BY SessionAssumption DEF Active, Inv, IdsOwn

LEMMA PatrolStep == ASSUME Inv, NEW c \in Conn, Patrol(c) PROVE Inv'
<1>t. Typed
  BY DEF Inv
<1>1. c \in Conn /\ managed[c].id \in Id /\ sessions[managed[c].id] = c
  BY ActiveParts DEF Patrol
<1>2. /\ managed' \in [Conn -> Managed] /\ disconnecting' \subseteq Evicting
      /\ \A d \in Conn : managed'[d].actor = managed[d].actor /\ (managed'[d] = managed[d] \/ ObjectMoves(d))
      /\ SameObjects => EvictionsGoOn
  BY <1>t, <1>1, EvictBegins DEF Patrol, Typed
<1>3. Typed'
  <2>1. faults' \in Nat
    BY <1>t DEF Patrol, Fault, Typed
  <2>. QED BY <1>t, <1>2, <2>1 DEF Typed, Patrol
<1>4. req' = req /\ UNCHANGED << sessions, row, locks, overlap, begun >>
  BY DEF Patrol
<1>5. SameObjects /\ NewsInOrder' /\ CommandsAnswered' /\ Purposes' /\ CalmRequests
  <2>1. \A q \in Request : req[q].pc = "starting" => req[q].c \in Conn
    BY DEF Inv, Purposes, PurposeOf, Attached
  <2>. QED BY <2>1, <1>2, <1>3, <1>4, Moves
<1>. QED BY <1>2, <1>3, <1>4, <1>5, Unmoved, Calm DEF NumbersLeft, RoomLeft

LEMMA FlagsOff ==
  ASSUME NEW M \in [Conn -> Managed], NEW d \in Conn
  PROVE  /\ [M EXCEPT ![d].timer = FALSE] \in [Conn -> Managed]
         /\ [M EXCEPT ![d].asking = FALSE] \in [Conn -> Managed]
         /\ \A b \in Conn : /\ SameButFlags([M EXCEPT ![d].timer = FALSE][b], M[b])
                            /\ SameButFlags([M EXCEPT ![d].asking = FALSE][b], M[b])
                            /\ b # d => /\ [M EXCEPT ![d].timer = FALSE][b] = M[b]
                                        /\ [M EXCEPT ![d].asking = FALSE][b] = M[b]
<1>. DEFINE t == [M[d] EXCEPT !.timer = FALSE]
            a == [M[d] EXCEPT !.asking = FALSE]
<1>1. /\ t \in Managed /\ SameButFlags(t, M[d]) /\ a \in Managed /\ SameButFlags(a, M[d])
  <2>1. M[d] \in Managed
    OBVIOUS
  <2>. QED BY <2>1 DEF Managed, SameButFlags
<1>2. [M EXCEPT ![d].timer = FALSE] = [M EXCEPT ![d] = t] /\ [M EXCEPT ![d].asking = FALSE] = [M EXCEPT ![d] = a]
  OBVIOUS
<1>. HIDE DEF t, a
<1>3. \A b \in Conn : SameButFlags(M[b], M[b])
  BY DEF SameButFlags
<1>. QED BY <1>1, <1>2, <1>3

\* Flags that are taken back make no difference.
LEMMA FlagMoves ==
  ASSUME Inv, NEW d \in Conn, managed[d].actor # "none", SameButFlags(managed'[d], managed[d])
  PROVE  ObjectMoves(d) /\ managed'[d].actor = managed[d].actor
BY HasMore DEF SameButFlags

LEMMA TimerFiresStep == ASSUME Inv, NEW c \in Conn, TimerFires(c) PROVE Inv'
<1>t. Typed
  BY DEF Inv
<1>. DEFINE d == sessions[managed[c].id]
            M == [managed EXCEPT ![c].timer = FALSE]
            N == [M EXCEPT ![d].timer = FALSE]
<1>1. /\ managed[c].id \in Id /\ managed[c].actor # "none" /\ managed[c].timer
  <2>1. managed[c].timer
    BY DEF TimerFires
  <2>2. managed[c].id \in Id
    BY <1>t, <2>1, ManagedParts DEF Inv, IdsOwn
  <2>3. managed[c].actor # "none"
    BY <2>1 DEF Inv, InOrder, Blank
  <2>. QED BY <2>1, <2>2, <2>3
<1>2. d \in Conn \union {None} /\ (d # None => managed[d].id = managed[c].id /\ managed[d].actor # "none")
  BY <1>t, <1>1 DEF Typed, Inv, IdsOwn
<1>3. /\ M \in [Conn -> Managed]
      /\ \A b \in Conn : SameButFlags(M[b], managed[b]) /\ (b # c => M[b] = managed[b])
  BY <1>t, FlagsOff DEF Typed
<1>4. \/ managed' = M /\ disconnecting' = disconnecting
      \/ d \in Conn /\ Evict(N, d, None)
  <2>. HIDE DEF M
  <2>. QED BY <1>2 DEF TimerFires, M
<1>. HIDE DEF M, d
<1>5. /\ managed' \in [Conn -> Managed] /\ disconnecting' \subseteq Evicting
      /\ \A b \in Conn : managed'[b].actor = managed[b].actor /\ (managed'[b] = managed[b] \/ ObjectMoves(b))
      /\ SameObjects => EvictionsGoOn
  <2>1. CASE managed' = M /\ disconnecting' = disconnecting
    <3>1. \A b \in Conn : managed'[b] = managed[b] \/ (ObjectMoves(b) /\ managed'[b].actor = managed[b].actor)
      BY <1>1, <1>3, <2>1, FlagMoves
    <3>. QED BY <1>t, <1>3, <2>1, <3>1, Unmoved DEF Typed
  <2>2. CASE d \in Conn /\ Evict(N, d, None)
    <3>1. /\ N \in [Conn -> Managed]
          /\ \A b \in Conn : SameButFlags(N[b], M[b]) /\ (b # d => N[b] = M[b])
      BY <2>2, <1>3, FlagsOff
    <3>. HIDE DEF N
    <3>2. \A b \in Conn : N[b] = managed[b] \/ (SameButFlags(N[b], managed[b]) /\ managed[b].actor # "none")
      <4>1. \A b \in Conn : SameButFlags(N[b], managed[b])
        BY <1>3, <3>1 DEF SameButFlags
      <4>. QED BY <1>1, <1>2, <1>3, <2>2, <3>1, <4>1, SessionAssumption
    <3>3. sessions[managed[d].id] = d /\ managed[d].id \in Id
      BY <1>1, <1>2, <2>2, SessionAssumption DEF d
    <3>. QED BY <2>2, <3>1, <3>2, <3>3, EvictBegins
  <2>. QED BY <1>4, <2>1, <2>2
<1>6. req' = req /\ UNCHANGED << sessions, row, locks, overlap, begun >> /\ late' = late /\ faults' = faults
  BY DEF TimerFires
<1>7. Typed'
  BY <1>t, <1>5, <1>6 DEF Typed
<1>8. SameObjects /\ NewsInOrder' /\ CommandsAnswered' /\ Purposes' /\ CalmRequests
  <2>1. \A q \in Request : req[q].pc = "starting" => req[q].c \in Conn
    BY DEF Inv, Purposes, PurposeOf, Attached
  <2>. QED BY <2>1, <1>5, <1>6, <1>7, Moves
<1>. QED BY <1>5, <1>6, <1>7, <1>8, Unmoved, Calm DEF NumbersLeft, RoomLeft

LEMMA DeleteArrivesStep == ASSUME Inv, NEW r \in Request, NEW s \in Session, DeleteArrives(r, s) PROVE Inv'
<1>t. Typed /\ s # None /\ s \in Id /\ Known(s)
  BY SessionAssumption DEF Inv, Id, DeleteArrives
<1>. DEFINE d == sessions[s]
            M == [managed EXCEPT ![d].asking = FALSE]
<1>1. d \in Conn \union {None} /\ (d # None => managed[d].id = s /\ managed[d].actor # "none")
  BY <1>t DEF Typed, Inv, IdsOwn
<1>2. d \in Conn => /\ M \in [Conn -> Managed]
                    /\ \A b \in Conn : SameButFlags(M[b], managed[b]) /\ (b # d => M[b] = managed[b])
  BY <1>t, FlagsOff DEF Typed
<1>3. PICK pc \in {"evicting", "deleting"} :
        /\ Begins(r, "delete", s, pc)
        /\ \/ pc = "evicting" /\ d \in Conn /\ Evict(M, d, r)
           \/ pc = "deleting" /\ disconnecting' = disconnecting /\ (managed' = managed \/ (d \in Conn /\ managed' = M))
  <2>. HIDE DEF M
  <2>. QED BY <1>1 DEF DeleteArrives, Usable, M
<1>. HIDE DEF M
<1>4. PICK n \in Requested : /\ n.op = "delete" /\ n.sid = s /\ n.pc = pc
                             /\ req[r].pc = "idle" /\ req'[r] = n
                             /\ begun' = begun + 1 /\ begun' <= MaxBegun
                             /\ \A q \in Request : q # r => req'[q] = req[q]
                             /\ req' \in [Request -> Requested]
  BY <1>3, BeginsTyped DEF RequestPc
<1>. HIDE DEF d
<1>5. /\ managed' \in [Conn -> Managed] /\ disconnecting' \subseteq Evicting
      /\ \A b \in Conn : managed'[b].actor = managed[b].actor /\ (managed'[b] = managed[b] \/ ObjectMoves(b))
      /\ SameObjects => EvictionsGoOn
  <2>1. CASE disconnecting' = disconnecting /\ managed' = managed
    BY <1>t, <2>1, Unmoved DEF Typed
  <2>2. CASE disconnecting' = disconnecting /\ d \in Conn /\ managed' = M
    <3>1. \A b \in Conn : managed'[b] = managed[b] \/ (ObjectMoves(b) /\ managed'[b].actor = managed[b].actor)
      BY <1>1, <1>2, <2>2, FlagMoves, SessionAssumption
    <3>. QED BY <1>t, <1>2, <2>2, <3>1, Unmoved DEF Typed
  <2>3. CASE pc = "evicting" /\ d \in Conn /\ Evict(M, d, r)
    <3>1. \A b \in Conn : M[b] = managed[b] \/ (SameButFlags(M[b], managed[b]) /\ managed[b].actor # "none")
      BY <1>1, <1>2, <2>3, SessionAssumption
    <3>2. sessions[managed[d].id] = d /\ managed[d].id \in Id
      BY <1>t, <1>1, <2>3, SessionAssumption DEF d
    <3>3. req[r].pc # "evicting" /\ req'[r].pc = "evicting"
      BY <1>4, <2>3
    <3>. QED BY <1>2, <2>3, <3>1, <3>2, <3>3, EvictBegins
  <2>. QED BY <1>3, <2>1, <2>2, <2>3
<1>6. UNCHANGED << sessions, row, locks, overlap >> /\ late' = late /\ faults' = faults
  BY DEF DeleteArrives
<1>7. Typed'
  BY <1>t, <1>4, <1>5, <1>6 DEF Typed
<1>8. SameObjects /\ NewsInOrder' /\ CommandsAnswered' /\ Purposes' /\ CalmRequests
  <2>1. \A q \in Request : req[q].pc = "starting" => req[q].c \in Conn
    BY DEF Inv, Purposes, PurposeOf, Attached
  <2>2. RequestGoes(r)
    BY <1>t, <1>3, <1>4 DEF RequestGoes, Made
  <2>3. PurposeOf(r)'
    BY <1>3, <1>4 DEF PurposeOf
  <2>. QED BY <2>1, <2>2, <2>3, <1>4, <1>5, <1>7, Moves
<1>9. Opening' \subseteq Opening /\ Freeing' \subseteq Freeing
  BY <1>3, <1>4 DEF Opening, Freeing
<1>. QED BY <1>4, <1>5, <1>6, <1>7, <1>8, <1>9, Unmoved, Calm DEF NumbersLeft, RoomLeft

LEMMA Refuses == ASSUME Inv, NEW r \in Request, At(r, "capacity"), req' = Done(r),
                        UNCHANGED << sessions, disconnecting, managed, locks, row, late, overlap, begun, faults >>
                 PROVE  Inv'
<1>t. Typed /\ begun' = begun /\ begun <= MaxBegun /\ row' \in [Session -> {"absent"} \union Status]
  BY DEF Inv, Typed
<1>2. req' = [req EXCEPT ![r] = Idle] /\ req'[r] = Idle /\ RequestGoes(r)
  BY <1>t DEF Done, At, RequestGoes, Idle, Typed, Made
<1>. QED BY <1>t, <1>2, IdleTyped, OnlyRequest DEF Idle

LEMMA MakesRoom ==
  ASSUME Inv, NEW r \in Request, NEW c \in Active, At(r, "capacity"), Evict(managed, c, r),
         req' = [req EXCEPT ![r].pc = "evicting"],
         UNCHANGED << sessions, locks, row, late, overlap, begun, faults >>
  PROVE  Inv'
<1>t. Typed /\ req[r] \in Requested
  BY RequestParts DEF Inv
<1>. DEFINE n == [req[r] EXCEPT !.pc = "evicting"]
<1>1. /\ n \in Requested /\ n.pc = "evicting" /\ n.op = req[r].op /\ n.sid = req[r].sid
      /\ n.c = req[r].c /\ n.meta = req[r].meta /\ n.lock = req[r].lock
  BY ZenonT(50), <1>t, RequestMoves DEF RequestPc
<1>2. req' = [req EXCEPT ![r] = n]
  BY <1>t DEF Typed
<1>. HIDE DEF n
<1>3. req' \in [Request -> Requested] /\ req'[r] = n /\ \A q \in Request : q # r => req'[q] = req[q]
  BY <1>t, <1>1, <1>2 DEF Typed
<1>4. c \in Conn /\ managed[c].id \in Id /\ sessions[managed[c].id] = c
  BY ActiveParts
<1>5. req[r].pc = "capacity"
  BY DEF At
<1>6. /\ managed' \in [Conn -> Managed] /\ disconnecting' \subseteq Evicting
      /\ \A d \in Conn : managed'[d].actor = managed[d].actor /\ (managed'[d] = managed[d] \/ ObjectMoves(d))
      /\ SameObjects => EvictionsGoOn
      /\ \E f \in disconnecting' : f.id = managed[c].id
  <2>1. req[r].pc # "evicting" /\ req'[r].pc = "evicting" /\ managed \in [Conn -> Managed]
    BY <1>t, <1>1, <1>3, <1>5 DEF Typed
  <2>. QED BY <2>1, <1>4, EvictBegins
<1>7. Typed'
  BY <1>t, <1>3, <1>6 DEF Typed
<1>8. SameObjects /\ NewsInOrder' /\ CommandsAnswered' /\ Purposes' /\ CalmRequests
  <2>1. \A q \in Request : req[q].pc = "starting" => req[q].c \in Conn
    BY DEF Inv, Purposes, PurposeOf, Attached
  <2>2. RequestGoes(r)
    BY <1>1, <1>3, <1>5 DEF RequestGoes, Made
  <2>3. PurposeOf(r)'
    BY <1>1, <1>3, <1>5 DEF PurposeOf, Inv, Purposes
  <2>. QED BY <2>1, <2>2, <2>3, <1>3, <1>6, <1>7, Moves
<1>9. Opening' \subseteq Opening /\ Freeing' \subseteq Freeing \union {r}
  BY <1>1, <1>3, <1>5 DEF Opening, Freeing
<1>. QED BY <1>6, <1>7, <1>8, <1>9, Unmoved, Calm DEF NumbersLeft, RoomLeft

--------------------------------------------------------------------------------
(* Requests that reach an object. *)

LEMMA ObjectAndRequest ==
  ASSUME Inv, NEW c \in Conn, NEW m \in Managed, managed' = [managed EXCEPT ![c] = m],
         NEW r \in Request, NEW n \in Requested, req' = [req EXCEPT ![r] = n],
         ObjectMoves(c) \/ managed'[c] = managed[c], RequestGoes(r), PurposeOf(r)' \/ n = Idle,
         n.pc \notin {"looking", "queued", "capacity", "evicting"},
         \/ managed'[c].actor = managed[c].actor \/ managed[c].actor # "starting"
         \/ req[r].pc = "starting" /\ req[r].c = c,
         row' \in [Session -> {"absent"} \union Status],
         \A s \in Session : row'[s] # "absent" => row[s] # "absent",
         sessions' \in [Id -> Conn \union {None}], FewerSessions,
         UNCHANGED << disconnecting, locks, late, overlap, begun, faults >>
  PROVE  Inv'
<1>t. Typed
  BY DEF Inv
<1>1. /\ managed' \in [Conn -> Managed] /\ managed'[c] = m
      /\ \A d \in Conn : d # c => managed'[d] = managed[d]
  BY <1>t, ChangeOne
<1>2. req' \in [Request -> Requested] /\ req'[r] = n /\ \A q \in Request : q # r => req'[q] = req[q]
  BY <1>t DEF Typed
<1>3. Typed'
  BY <1>t, <1>1, <1>2 DEF Typed
<1>4. n = Idle => PurposeOf(r)'
  BY <1>2, SessionAssumption DEF Idle, PurposeOf
<1>5. \A q \in Request : req[q].pc = "starting" /\ req'[q] = req[q] =>
        managed'[req[q].c].actor = managed[req[q].c].actor
  <2>. SUFFICES ASSUME NEW q \in Request, req[q].pc = "starting", req'[q] = req[q]
                PROVE  managed'[req[q].c].actor = managed[req[q].c].actor
    OBVIOUS
  <2>1. req[q].c \in Conn /\ managed[req[q].c].actor = "starting"
    BY DEF Inv, Purposes, PurposeOf, Attached
  <2>2. q = r \/ q # r
    OBVIOUS
  <2>3. req[r].pc = "starting" => req'[r].pc # "starting"
    BY DEF RequestGoes, Made
  <2>4. req[r].pc = "starting" /\ req[q].c = req[r].c => q = r
    BY DEF Inv, OneStarter
  <2>. QED BY <1>1, <2>1, <2>3, <2>4
<1>6. SameObjects /\ NewsInOrder' /\ CommandsAnswered' /\ Purposes' /\ CalmRequests
  BY <1>1, <1>2, <1>3, <1>4, <1>5, Moves
<1>7. Opening' \subseteq Opening /\ Freeing' \subseteq Freeing
  BY <1>2 DEF Opening, Freeing
<1>. QED BY <1>3, <1>6, <1>7, Unmoved, Calm DEF NumbersLeft, RoomLeft

LEMMA Attaches ==
  ASSUME Inv, NEW r \in Request, NEW c \in Conn, NEW k \in Managed, SameButFlags(k, managed[c]),
         managed' = [managed EXCEPT ![c] = k], managed[c].actor # "none", managed[c].id = req[r].sid,
         req[r].op = "send", req[r].pc \in {"looking", "queued"},
         \/ req' = Done(r)
         \/ req' = [req EXCEPT ![r].pc = "marking", ![r].c = c],
         UNCHANGED << sessions, disconnecting, locks, row, late, overlap, begun, faults >>
  PROVE  Inv'
<1>t. Typed /\ req[r] \in Requested
  BY RequestParts DEF Inv
<1>. PICK q \in Requested : q = req[r]
  BY <1>t
<1>. DEFINE m == [q EXCEPT !.pc = "marking", !.c = c]
<1>q. /\ m \in Requested /\ m.pc = "marking" /\ m.op = q.op /\ m.sid = q.sid /\ m.c = c
      /\ m.meta = q.meta
  BY DEF Requested, RequestPc
<1>1. /\ m \in Requested /\ m.pc = "marking" /\ m.op = req[r].op /\ m.sid = req[r].sid /\ m.c = c
      /\ m.meta = req[r].meta
  <2>. HIDE DEF m
  <2>. QED BY <1>q
<1>2. PICK n \in {Idle, m} : req' = [req EXCEPT ![r] = n]
  BY <1>t DEF Typed, Done
<1>. HIDE DEF m
<1>3. n \in Requested /\ req'[r] = n
  BY <1>t, <1>1, <1>2, IdleTyped DEF Typed
<1>4. managed'[c] = k
  BY <1>t, ChangeOne
<1>5. ObjectMoves(c) /\ managed'[c].actor = managed[c].actor
  BY <1>4, FlagMoves
<1>6. RequestGoes(r)
  BY <1>1, <1>2, <1>3 DEF RequestGoes, Idle, Made
<1>7. PurposeOf(r)' \/ n = Idle
  <2>1. PurposeOf(r)
    BY DEF Inv, Purposes
  <2>. QED BY <2>1, <1>1, <1>2, <1>3, <1>4, <1>5 DEF PurposeOf, Attached, ObjectMoves
<1>8. n.pc \notin {"looking", "queued", "capacity", "evicting"}
  BY <1>1, <1>2 DEF Idle
<1>9. row' \in [Session -> {"absent"} \union Status] /\ sessions' \in [Id -> Conn \union {None}] /\ FewerSessions
  BY <1>t, Unmoved DEF Typed
<1>. QED BY <1>2, <1>3, <1>5, <1>6, <1>7, <1>8, <1>9, ObjectAndRequest

\* The session is there, and nobody is removing it.
LEMMA FastPath ==
  ASSUME Inv, NEW r \in Request, req[r].pc \in {"looking", "queued"}, Usable(req[r].sid),
         Attach(r, sessions[req[r].sid], managed),
         UNCHANGED << sessions, disconnecting, locks, row, late, overlap, begun, faults >>
  PROVE  Inv'
<1>t. Typed /\ req[r].op = "send" /\ req[r].sid \in Session /\ req[r].sid \in Id
  BY DEF Inv, Purposes, PurposeOf, Id
<1>1. PICK c \in Conn : c = sessions[req[r].sid] /\ managed[c].id = req[r].sid /\ managed[c].actor # "none"
  BY <1>t DEF Usable, Typed, Inv, IdsOwn
<1>. DEFINE M == [managed EXCEPT ![c].timer = FALSE]
            k == M[c]
<1>2. M \in [Conn -> Managed] /\ SameButFlags(M[c], managed[c]) /\ \A b \in Conn : b # c => M[b] = managed[b]
  BY <1>t, FlagsOff DEF Typed
<1>3. managed' = M
  BY <1>1 DEF Attach
<1>. HIDE DEF M
<1>4. managed' = [managed EXCEPT ![c] = k] /\ k \in Managed
  BY <1>t, <1>2, <1>3 DEF Typed
<1>. QED BY <1>t, <1>1, <1>2, <1>4, Attaches DEF Attach

LEMMA Queues ==
  ASSUME Inv, NEW r \in Request, req[r].pc = "looking",
         req' = [req EXCEPT ![r].pc = "queued", ![r].lock = locks[req[r].sid]],
         UNCHANGED << sessions, disconnecting, managed, locks, row, late, overlap, begun, faults >>
  PROVE  Inv'
<1>t. Typed /\ req[r] \in Requested /\ PurposeOf(r) /\ req[r].sid \in Session
  BY RequestParts DEF Inv, Purposes, PurposeOf
<1>. PICK q \in Requested : q = req[r]
  BY <1>t
<1>. PICK l \in Nat : l = locks[req[r].sid]
  BY <1>t DEF Typed
<1>. DEFINE n == [q EXCEPT !.pc = "queued", !.lock = l]
<1>1. /\ n \in Requested /\ n.pc = "queued" /\ n.op = q.op /\ n.sid = q.sid /\ n.c = q.c
      /\ n.meta = q.meta
  BY DEF Requested, RequestPc
<1>2. req' = [req EXCEPT ![r] = n]
  BY <1>t DEF Typed
<1>. HIDE DEF n
<1>3. req'[r] = n
  BY <1>t, <1>2 DEF Typed
<1>4. PurposeOf(r)'
  BY <1>t, <1>1, <1>3 DEF PurposeOf
<1>5. RequestGoes(r) /\ r \in Opening
  BY <1>1, <1>3 DEF RequestGoes, Opening, Made
<1>6. row' \in [Session -> {"absent"} \union Status] /\ begun' \in {begun, begun + 1} /\ begun' <= MaxBegun
  BY <1>t DEF Typed
<1>. QED BY <1>1, <1>2, <1>4, <1>5, <1>6, OnlyRequest

LEMMA MarkRunningStep == ASSUME Inv, NEW r \in Request, MarkRunning(r) PROVE Inv'
<1>t. Typed /\ req[r] \in Requested /\ PurposeOf(r) /\ req[r].pc = "marking"
  BY RequestParts DEF Inv, Purposes, MarkRunning, At
<1>1. PICK c \in Conn : c = req[r].c /\ managed[c].actor # "none" /\ managed[c] \in Managed
  BY <1>t, ManagedParts DEF PurposeOf, Attached
<1>. DEFINE over == managed[c].actor = "over"
            status == IF over THEN "error" ELSE "running"
            pc == IF over THEN "failing" ELSE "sending"
            k == [managed[c] EXCEPT !.status = status]
            m == Enqueue(k, "query", r)
            cmd == [kind |-> "query", by |-> r]
<1>2. status \in Status /\ pc \in RequestPc /\ (~ over => status = "running" /\ pc = "sending")
      /\ pc \in {"failing", "sending"}
  BY DEF Status, Settled, RequestPc
<1>3. /\ Write(req[r].sid, "running")
      /\ managed' = [managed EXCEPT ![c] = m]
      /\ req' = [req EXCEPT ![r].pc = pc]
      /\ UNCHANGED << sessions, disconnecting, locks, late, overlap, begun, faults >>
  BY <1>t, <1>1 DEF MarkRunning, Typed
<1>. HIDE DEF over, status, pc
<1>4. /\ k \in Managed /\ k.actor = managed[c].actor /\ k.id = managed[c].id /\ k.sdk = managed[c].sdk
      /\ k.proc = managed[c].proc /\ k.status = status /\ k.inbox = managed[c].inbox /\ k.timer = managed[c].timer
      /\ k.cmds = managed[c].cmds
  BY <1>1, <1>2 DEF Managed
<1>. HIDE DEF k
<1>5. /\ m \in Managed /\ m.actor = k.actor /\ m.id = k.id /\ m.sdk = k.sdk
      /\ m.proc = k.proc /\ m.status = k.status /\ m.inbox = k.inbox /\ m.timer = k.timer
      /\ cmd \in Command /\ cmd.kind = "query" /\ cmd.by = r
      /\ k.actor = "over" => m = k
      /\ k.actor # "over" => m.cmds = Append(k.cmds, cmd)
  BY <1>4, EnqueueParts
<1>. HIDE DEF m, cmd
<1>6. managed'[c] = m
  BY <1>t, <1>3, <1>5, ChangeOne
<1>. DEFINE n == [req[r] EXCEPT !.pc = pc]
<1>7. /\ n \in Requested /\ n.pc = pc /\ n.op = req[r].op /\ n.sid = req[r].sid /\ n.c = c /\ n.meta = req[r].meta
  BY <1>t, <1>1, <1>2, RequestMoves
<1>8. req' = [req EXCEPT ![r] = n]
  BY <1>t, <1>3 DEF Typed
<1>. HIDE DEF n
<1>9. req'[r] = n
  BY <1>t, <1>8 DEF Typed
<1>10. ObjectMoves(c)
  <2>1. CASE managed[c].actor = "over"
    BY <1>1, <1>4, <1>5, <1>6, <2>1, HasMore
  <2>2. CASE managed[c].actor # "over"
    <3>1. status = "running" /\ pc = "sending"
      BY <1>2, <2>2 DEF over
    <3>2. CommandOf(c, cmd)'
      BY <1>5, <1>7, <1>9, <3>1, SessionAssumption DEF CommandOf
    <3>3. req[cmd.by].pc \notin {"sending", "interrupting"}
      BY <1>t, <1>5
    <3>. QED BY ZenonT(50), <1>1, <1>4, <1>5, <1>6, <2>2, <3>1, <3>2, <3>3, HasMore
  <2>. QED BY <2>1, <2>2
<1>11. RequestGoes(r) /\ n.pc \notin {"looking", "queued", "capacity", "evicting"}
  <2>1. n.op = "send"
    BY <1>7, <1>t DEF MarkRunning, At, Inv, Purposes, PurposeOf
  <2>. QED BY <1>t, <1>2, <1>7, <1>9, <2>1 DEF RequestGoes, Made
<1>12. PurposeOf(r)'
  BY <1>t, <1>1, <1>2, <1>4, <1>5, <1>6, <1>7, <1>9 DEF PurposeOf, Attached
<1>13. /\ row' \in [Session -> {"absent"} \union Status] /\ \A s \in Session : row'[s] # "absent" => row[s] # "absent"
       /\ sessions' \in [Id -> Conn \union {None}] /\ FewerSessions
  BY <1>t, <1>3, Written, Unmoved DEF Typed, Status
<1>14. managed'[c].actor = managed[c].actor
  BY <1>4, <1>5, <1>6
<1>. QED BY ZenonT(50), <1>3, <1>5, <1>7, <1>8, <1>10, <1>11, <1>12, <1>13, <1>14, ObjectAndRequest

\* A session that one number stands for, and an error drops.
LEMMA Drops ==
  ASSUME Inv, NEW c \in Conn, managed[c].id = c, sessions' = [sessions EXCEPT ![c] = None],
         ~ Alive(c)' \/ \E r \in Request : req'[r].pc = "dropping" /\ req'[r].c = c
  PROVE  FewerSessions /\ sessions' \in [Id -> Conn \union {None}]
<1>1. sessions \in [Id -> Conn \union {None}] /\ c \in Id /\ None \notin Conn
  BY SessionAssumption DEF Inv, Typed, Id
<1>2. ASSUME NEW d \in Conn, d = sessions[c] PROVE d = c
  <2>1. managed[d].id = c
    BY <1>1, <1>2 DEF Inv, IdsOwn
  <2>. QED BY <2>1 DEF Inv, IdsOwn
<1>3. \A i \in Id : sessions'[i] # sessions[i] => i = c /\ sessions'[i] = None
  BY <1>1
<1>. QED BY <1>1, <1>2, <1>3 DEF FewerSessions

LEMMA SendFailsStep == ASSUME Inv, NEW r \in Request, SendFails(r) PROVE Inv'
<1>t. Typed /\ req[r] \in Requested /\ PurposeOf(r) /\ req[r].pc = "failed"
  BY RequestParts DEF Inv, Purposes, SendFails, At
<1>1. PICK c \in Conn : c = req[r].c /\ managed[c].actor = "over" /\ managed[c] \in Managed
  BY <1>t, ManagedParts DEF PurposeOf, Attached
<1>r. row' \in [Session -> {"absent"} \union Status] /\ \A s \in Session : row'[s] # "absent" => row[s] # "absent"
  BY <1>t DEF SendFails, Typed
<1>u. UNCHANGED << disconnecting, locks, late, overlap, begun, faults >>
  BY DEF SendFails
<1>2. CASE req[r].op = "send"
  <2>. DEFINE m == [managed[c] EXCEPT !.status = "error"]
              n == [req[r] EXCEPT !.pc = "failing"]
  <2>1. managed' = [managed EXCEPT ![c] = m] /\ req' = [req EXCEPT ![r] = n] /\ sessions' = sessions
    BY <1>t, <1>1, <1>2 DEF SendFails, Typed
  <2>new. /\ m \in Managed /\ m.actor = "over" /\ m.id = managed[c].id /\ m.sdk = managed[c].sdk
          /\ m.proc = managed[c].proc /\ m.inbox = managed[c].inbox /\ m.cmds = managed[c].cmds
          /\ m.timer = managed[c].timer
    BY <1>1 DEF Managed, Status, Settled
  <2>asks. /\ n \in Requested /\ n.pc = "failing" /\ n.op = "send" /\ n.sid = req[r].sid /\ n.c = c
           /\ n.meta = req[r].meta
    BY ZenonT(50), <1>t, <1>1, <1>2, RequestMoves DEF RequestPc
  <2>. HIDE DEF m, n
  <2>changed. managed'[c] = m /\ req'[r] = n
    BY <1>t, <2>1, <2>new, ChangeOne DEF Typed
  <2>moves. ObjectMoves(c)
    BY <1>1, <2>new, <2>changed, HasMore
  <2>goes. RequestGoes(r) /\ PurposeOf(r)'
    BY <1>t, <1>2, <2>asks, <2>changed DEF RequestGoes, PurposeOf, Made
  <2>registry. sessions' \in [Id -> Conn \union {None}] /\ FewerSessions
    BY <1>t, <2>1, Unmoved DEF Typed
  <2>. QED BY <1>1, <1>r, <1>u, <2>1, <2>new, <2>asks, <2>changed, <2>moves, <2>goes, <2>registry, ObjectAndRequest
<1>3. CASE req[r].op # "send"
  <2>. DEFINE m == [managed[c] EXCEPT !.status = "closed", !.proc = "over"]
  <2>1. managed' = [managed EXCEPT ![c] = m] /\ req' = [req EXCEPT ![r] = Idle]
        /\ sessions' = [sessions EXCEPT ![c] = None]
    BY <1>t, <1>1, <1>3 DEF SendFails, Typed, Done
  <2>2. /\ m \in Managed /\ m.actor = "over" /\ m.id = managed[c].id /\ m.sdk = managed[c].sdk
        /\ m.proc = "over" /\ m.inbox = managed[c].inbox /\ m.cmds = managed[c].cmds
        /\ m.timer = managed[c].timer
    BY <1>1 DEF Managed, Status, ProcState
  <2>. HIDE DEF m
  <2>3. managed'[c] = m /\ req'[r] = Idle
    BY <1>t, <2>1, <2>2, ChangeOne DEF Typed
  <2>4. managed[c].id = c
    BY <1>t, <1>1, <1>3 DEF PurposeOf
  <2>5. FewerSessions /\ sessions' \in [Id -> Conn \union {None}]
    BY <2>1, <2>2, <2>3, <2>4, Drops DEF Alive
  <2>6. sessions'[c] # c
    BY <1>t, <2>1, SessionAssumption DEF Typed, Id
  <2>7. ObjectMoves(c)
    BY <1>1, <2>2, <2>3, <2>6 DEF ObjectMoves, HeadStays, Naming
  <2>8. RequestGoes(r)
    BY <1>t, <2>3 DEF RequestGoes, Idle, Made
  <2>. QED BY <1>1, <1>r, <1>u, <2>1, <2>2, <2>3, <2>5, <2>7, <2>8, IdleTyped, ObjectAndRequest DEF Idle
<1>. QED BY <1>2, <1>3

LEMMA NamingFailsStep == ASSUME Inv, NEW r \in Request, NamingFails(r) PROVE Inv'
<1>t. Typed /\ req[r] \in Requested /\ PurposeOf(r) /\ req[r].pc = "naming"
  BY RequestParts DEF Inv, Purposes, NamingFails, At
<1>1. PICK c \in Conn : c = req[r].c /\ managed[c].actor # "none" /\ managed[c] \in Managed /\ managed[c].id = c
  BY <1>t, ManagedParts DEF PurposeOf, Attached
<1>. DEFINE k == [managed[c] EXCEPT !.asking = FALSE]
            m == Enqueue(k, "disconnect", None)
            cmd == [kind |-> "disconnect", by |-> None]
            n == [req[r] EXCEPT !.pc = "dropping"]
<1>2. /\ managed' = [managed EXCEPT ![c] = m] /\ req' = [req EXCEPT ![r] = n]
      /\ sessions' = [sessions EXCEPT ![c] = None]
  BY <1>t, <1>1 DEF NamingFails, Typed
<1>3. /\ k \in Managed /\ k.actor = managed[c].actor /\ k.id = managed[c].id /\ k.sdk = managed[c].sdk
      /\ k.proc = managed[c].proc /\ k.status = managed[c].status /\ k.inbox = managed[c].inbox
      /\ k.timer = managed[c].timer /\ k.cmds = managed[c].cmds
  BY <1>1 DEF Managed
<1>. HIDE DEF k
<1>4. /\ m \in Managed /\ m.actor = k.actor /\ m.id = k.id /\ m.sdk = k.sdk
      /\ m.proc = k.proc /\ m.status = k.status /\ m.inbox = k.inbox /\ m.timer = k.timer
      /\ cmd \in Command /\ cmd.kind = "disconnect" /\ cmd.by = None
      /\ m.cmds = k.cmds \/ m.cmds = Append(k.cmds, cmd)
  BY <1>3, EnqueueParts
<1>5. /\ n \in Requested /\ n.pc = "dropping" /\ n.op = req[r].op /\ n.sid = req[r].sid /\ n.c = c
      /\ n.meta = req[r].meta
  BY ZenonT(50), <1>t, <1>1, RequestMoves DEF RequestPc
<1>. HIDE DEF m, cmd, n
<1>6. managed'[c] = m /\ req'[r] = n
  BY <1>t, <1>2, <1>4, ChangeOne DEF Typed
<1>7. ObjectMoves(c)
  <2>1. CommandOf(c, cmd)'
    BY <1>4 DEF CommandOf
  <2>. QED BY <1>1, <1>3, <1>4, <1>6, <2>1, HasMore
<1>8. FewerSessions /\ sessions' \in [Id -> Conn \union {None}]
  BY <1>1, <1>2, <1>5, <1>6, Drops
<1>9. sessions'[c] # c
  BY <1>t, <1>2, SessionAssumption DEF Typed, Id
<1>10. RequestGoes(r)
  <2>1. Made(r)
    BY DEF NamingFails, At, Inv, Purposes, PurposeOf, Made
  <2>. QED BY <1>t, <1>1, <1>5, <1>6, <1>9, <2>1 DEF RequestGoes
<1>11. PurposeOf(r)'
  BY <1>t, <1>1, <1>3, <1>4, <1>5, <1>6 DEF PurposeOf, Attached
<1>12. row' \in [Session -> {"absent"} \union Status] /\ \A s \in Session : row'[s] # "absent" => row[s] # "absent"
  BY <1>t DEF NamingFails, Typed
<1>13. UNCHANGED << disconnecting, locks, late, overlap, begun, faults >> /\ managed'[c].actor = managed[c].actor
  BY <1>3, <1>4, <1>6 DEF NamingFails
<1>. QED BY <1>2, <1>4, <1>5, <1>7, <1>8, <1>10, <1>11, <1>12, <1>13, ObjectAndRequest

LEMMA DroppedStep == ASSUME Inv, NEW r \in Request, Dropped(r) PROVE Inv'
<1>t. Typed /\ req[r] \in Requested /\ PurposeOf(r) /\ req[r].pc = "dropping"
  BY RequestParts DEF Inv, Purposes, Dropped, At
<1>1. PICK c \in Conn : c = req[r].c /\ managed[c].actor = "over" /\ managed[c] \in Managed /\ sessions[c] # c
  BY <1>t, ManagedParts DEF Dropped, PurposeOf, Attached, Inv, UnderNumber
<1>. DEFINE m == [managed[c] EXCEPT !.status = "closed", !.proc = "over"]
<1>2. managed' = [managed EXCEPT ![c] = m] /\ req' = [req EXCEPT ![r] = Idle] /\ sessions' = sessions
  BY <1>t, <1>1 DEF Dropped, Typed, Done
<1>3. /\ m \in Managed /\ m.actor = "over" /\ m.id = managed[c].id /\ m.sdk = managed[c].sdk
      /\ m.proc = "over" /\ m.inbox = managed[c].inbox /\ m.cmds = managed[c].cmds
      /\ m.timer = managed[c].timer
  BY <1>1 DEF Managed, Status, ProcState
<1>. HIDE DEF m
<1>4. managed'[c] = m /\ req'[r] = Idle
  BY <1>t, <1>2, <1>3, ChangeOne DEF Typed
<1>5. ObjectMoves(c)
  BY <1>1, <1>3, <1>4 DEF ObjectMoves, HeadStays, Naming
<1>6. RequestGoes(r)
  BY <1>t, <1>1, <1>4 DEF RequestGoes, Idle, Made
<1>7. row' \in [Session -> {"absent"} \union Status] /\ \A s \in Session : row'[s] # "absent" => row[s] # "absent"
  BY <1>t DEF Dropped, Typed
<1>8. /\ UNCHANGED << disconnecting, locks, late, overlap, begun, faults >> /\ managed'[c].actor = managed[c].actor
      /\ sessions' \in [Id -> Conn \union {None}] /\ FewerSessions
  BY <1>t, <1>1, <1>2, <1>3, <1>4, Unmoved DEF Dropped, Typed
<1>. QED BY <1>2, <1>3, <1>5, <1>6, <1>7, <1>8, IdleTyped, ObjectAndRequest DEF Idle

LEMMA InterruptUnheardStep == ASSUME Inv, NEW r \in Request, InterruptUnheard(r) PROVE Inv'
<1>t. Typed /\ req[r] \in Requested /\ PurposeOf(r) /\ req[r].pc = "unheard"
  BY RequestParts DEF Inv, Purposes, InterruptUnheard, At
<1>1. PICK c \in Conn : c = req[r].c /\ managed[c].actor = "over" /\ managed[c] \in Managed
  BY <1>t, ManagedParts DEF PurposeOf, Attached
<1>. DEFINE m == [managed[c] EXCEPT !.status = "error"]
<1>2. managed' = [managed EXCEPT ![c] = m] /\ req' = [req EXCEPT ![r] = Idle] /\ sessions' = sessions
  BY <1>t, <1>1 DEF InterruptUnheard, Typed, Done
<1>3. /\ m \in Managed /\ m.actor = "over" /\ m.id = managed[c].id /\ m.sdk = managed[c].sdk
      /\ m.proc = managed[c].proc /\ m.inbox = managed[c].inbox /\ m.cmds = managed[c].cmds
      /\ m.timer = managed[c].timer
  BY <1>1 DEF Managed, Status, Settled
<1>. HIDE DEF m
<1>4. managed'[c] = m /\ req'[r] = Idle
  BY <1>t, <1>2, <1>3, ChangeOne DEF Typed
<1>5. ObjectMoves(c)
  BY <1>1, <1>3, <1>4, HasMore
<1>6. RequestGoes(r)
  BY <1>t, <1>4 DEF RequestGoes, Idle, Made
<1>7. row' \in [Session -> {"absent"} \union Status] /\ \A s \in Session : row'[s] # "absent" => row[s] # "absent"
  BY <1>t DEF InterruptUnheard, Typed
<1>8. /\ UNCHANGED << disconnecting, locks, late, overlap, begun, faults >> /\ managed'[c].actor = managed[c].actor
      /\ sessions' \in [Id -> Conn \union {None}] /\ FewerSessions
  BY <1>t, <1>1, <1>2, <1>3, <1>4, Unmoved DEF InterruptUnheard, Typed
<1>. QED BY <1>2, <1>3, <1>5, <1>6, <1>7, <1>8, IdleTyped, ObjectAndRequest DEF Idle

LEMMA InterruptStep == ASSUME Inv, NEW r \in Request, Interrupt(r) PROVE Inv'
<1>t. Typed /\ req[r] \in Requested /\ PurposeOf(r) /\ req[r].pc = "stopping"
  BY RequestParts DEF Inv, Purposes, Interrupt, At
<1>s. req[r].sid \in Session /\ req[r].sid \in Id /\ begun <= MaxBegun
  BY <1>t DEF PurposeOf, Id, Typed
<1>r. /\ row' \in [Session -> {"absent"} \union Status] /\ \A s \in Session : row'[s] # "absent" => row[s] # "absent"
      /\ sessions' \in [Id -> Conn \union {None}] /\ FewerSessions
      /\ UNCHANGED << sessions, disconnecting, locks, row, late, overlap, begun, faults >>
  BY <1>t, Unmoved DEF Interrupt, Typed
<1>1. CASE /\ managed' = managed
           /\ req' = [req EXCEPT ![r].pc = "repairing"] \/ req' = Done(r)
  <2>. DEFINE m == [req[r] EXCEPT !.pc = "repairing"]
  <2>1. /\ m \in Requested /\ m.pc = "repairing" /\ m.op = req[r].op /\ m.sid = req[r].sid
        /\ m.meta = req[r].meta
    BY <1>t, RequestMoves DEF RequestPc
  <2>2. PICK n \in {Idle, m} : req' = [req EXCEPT ![r] = n]
    BY <1>1, <1>t DEF Typed, Done
  <2>. HIDE DEF m
  <2>3. n \in Requested /\ req'[r] = n
    BY <1>t, <2>1, <2>2, IdleTyped DEF Typed
  <2>4. n = Idle \/ PurposeOf(r)'
    BY <1>t, <2>1, <2>2, <2>3 DEF PurposeOf
  <2>5. RequestGoes(r) /\ n.pc \notin {"looking", "queued", "capacity", "evicting"}
    BY <1>t, <2>1, <2>2, <2>3 DEF RequestGoes, Idle, Made
  <2>6. begun' \in {begun, begun + 1} /\ begun' <= MaxBegun
    BY <1>s, <1>r
  <2>. QED BY <1>1, <1>r, <2>2, <2>3, <2>4, <2>5, <2>6, OnlyRequest
<1>2. ASSUME ~ (/\ managed' = managed
                /\ req' = [req EXCEPT ![r].pc = "repairing"] \/ req' = Done(r))
      PROVE  Inv'
  <2>. DEFINE c == sessions[req[r].sid]
              stop == [managed[c] EXCEPT !.interrupted = TRUE, !.asking = FALSE]
              failed == [stop EXCEPT !.status = "error"]
              queued == Enqueue(stop, "interrupt", r)
              cmd == [kind |-> "interrupt", by |-> r]
  <2>0. c \in Conn /\ managed[c].actor # "none" /\ managed[c] \in Managed
    <3>1. c # None
      BY <1>2 DEF Interrupt
    <3>2. c \in Conn
      BY <1>t, <1>s, <3>1 DEF Typed
    <3>. QED BY <1>t, <1>s, <3>1, <3>2, ManagedParts DEF Inv, IdsOwn
  <2>1. \/ managed[c].actor = "over" /\ managed' = [managed EXCEPT ![c] = failed] /\ req' = Done(r)
        \/ managed' = [managed EXCEPT ![c] = stop] /\ req' = Done(r)
        \/ /\ managed[c].actor # "over" /\ managed' = [managed EXCEPT ![c] = queued]
           /\ req' = [req EXCEPT ![r].pc = "interrupting", ![r].c = c]
    <3>. HIDE DEF failed, stop, queued
    <3>. QED BY <1>2, <2>0 DEF Interrupt, failed, stop, queued
  <2>2. /\ stop \in Managed /\ stop.actor = managed[c].actor /\ stop.id = managed[c].id /\ stop.sdk = managed[c].sdk
        /\ stop.proc = managed[c].proc /\ stop.status = managed[c].status /\ stop.inbox = managed[c].inbox
        /\ stop.timer = managed[c].timer /\ stop.cmds = managed[c].cmds
    <3>. HIDE DEF c
    <3>. QED BY <2>0 DEF Managed
  <2>. HIDE DEF stop
  <2>3. /\ failed \in Managed /\ failed.actor = stop.actor /\ failed.id = stop.id /\ failed.sdk = stop.sdk
        /\ failed.proc = stop.proc /\ failed.inbox = stop.inbox
        /\ failed.timer = stop.timer /\ failed.cmds = stop.cmds
    BY <2>2 DEF Managed, Status, Settled
  <2>4. /\ queued \in Managed /\ queued.actor = stop.actor /\ queued.id = stop.id /\ queued.sdk = stop.sdk
        /\ queued.proc = stop.proc /\ queued.status = stop.status /\ queued.inbox = stop.inbox
        /\ queued.timer = stop.timer /\ cmd \in Command /\ cmd.kind = "interrupt" /\ cmd.by = r
        /\ stop.actor # "over" => queued.cmds = Append(stop.cmds, cmd)
    <3>. HIDE DEF failed, c
    <3>1. PICK p \in Managed : p = stop
      BY <2>2
    <3>2. /\ Enqueue(p, "interrupt", r) \in Managed
          /\ Enqueue(p, "interrupt", r).actor = p.actor /\ Enqueue(p, "interrupt", r).id = p.id
          /\ Enqueue(p, "interrupt", r).sdk = p.sdk /\ Enqueue(p, "interrupt", r).proc = p.proc
          /\ Enqueue(p, "interrupt", r).status = p.status /\ Enqueue(p, "interrupt", r).inbox = p.inbox
          /\ Enqueue(p, "interrupt", r).timer = p.timer
          /\ cmd \in Command /\ cmd.kind = "interrupt" /\ cmd.by = r
          /\ p.actor # "over" => Enqueue(p, "interrupt", r).cmds = Append(p.cmds, cmd)
      BY EnqueueParts
    <3>. QED BY <3>1, <3>2
  <2>. HIDE DEF failed, queued, cmd, c
  <2>5. CASE req' = Done(r) /\ \/ managed[c].actor = "over" /\ managed' = [managed EXCEPT ![c] = failed]
                               \/ managed' = [managed EXCEPT ![c] = stop]
    <3>1. PICK m \in {failed, stop} : managed' = [managed EXCEPT ![c] = m] /\ (m = failed => managed[c].actor = "over" \/ m = stop)
      BY <2>5
    <3>2. req' = [req EXCEPT ![r] = Idle] /\ req'[r] = Idle /\ m \in Managed
      BY <1>t, <2>2, <2>3, <2>5 DEF Done, Typed
    <3>3. managed'[c] = m
      BY <1>t, <2>0, <3>1, <3>2, ChangeOne
    <3>4. ObjectMoves(c)
      BY <2>0, <2>2, <2>3, <3>1, <3>3, HasMore
    <3>5. RequestGoes(r)
      BY <1>t, <3>2 DEF RequestGoes, Idle, Made
    <3>6. managed'[c].actor = managed[c].actor
      BY <2>2, <2>3, <3>1, <3>3
    <3>. QED BY <1>r, <2>0, <3>1, <3>2, <3>4, <3>5, <3>6, IdleTyped, ObjectAndRequest DEF Idle
  <2>6. CASE /\ managed[c].actor # "over" /\ managed' = [managed EXCEPT ![c] = queued]
             /\ req' = [req EXCEPT ![r].pc = "interrupting", ![r].c = c]
    <3>. PICK q \in Requested : q = req[r]
      BY <1>t
    <3>. PICK d \in Conn : d = c
      BY <2>0
    <3>. DEFINE n == [q EXCEPT !.pc = "interrupting", !.c = d]
    <3>q. /\ n \in Requested /\ n.pc = "interrupting" /\ n.op = q.op /\ n.sid = q.sid /\ n.c = d /\ n.meta = q.meta
      BY DEF Requested, RequestPc
    <3>1. req' = [req EXCEPT ![r] = n]
      BY <1>t, <2>6 DEF Typed
    <3>. HIDE DEF n
    <3>2. req'[r] = n /\ managed'[c] = queued
      BY <1>t, <2>0, <2>4, <2>6, <3>1, ChangeOne DEF Typed
    <3>3. ObjectMoves(d)
      <4>1. CommandOf(d, cmd)'
        BY <2>4, <3>q, <3>2, SessionAssumption DEF CommandOf
      <4>2. req[cmd.by].pc \notin {"sending", "interrupting"}
        BY <1>t, <2>4
      <4>3. /\ managed[d].actor # "none" /\ managed'[d].actor = managed[d].actor
            /\ managed'[d].id = managed[d].id /\ managed'[d].sdk = managed[d].sdk
            /\ managed'[d].proc = managed[d].proc /\ managed'[d].inbox = managed[d].inbox
            /\ managed'[d].timer = managed[d].timer /\ managed'[d].status = managed[d].status
            /\ managed'[d].cmds = Append(managed[d].cmds, cmd)
        BY <2>0, <2>2, <2>4, <2>6, <3>2
      <4>. QED BY <2>4, <4>1, <4>2, <4>3, HasMore
    <3>4. RequestGoes(r)
      BY <1>t, <3>q, <3>2 DEF RequestGoes, Made
    <3>5. PurposeOf(r)'
      BY <1>t, <2>0, <2>2, <2>4, <3>q, <3>2 DEF PurposeOf, Attached
    <3>6. managed'[d].actor = managed[d].actor /\ managed' = [managed EXCEPT ![d] = queued]
      BY <2>2, <2>4, <2>6, <3>2
    <3>. QED BY <1>r, <2>4, <3>q, <3>1, <3>3, <3>4, <3>5, <3>6, ObjectAndRequest
  <2>. QED BY <2>1, <2>5, <2>6
<1>. QED BY <1>1, <1>2

LEMMA StartedStep == ASSUME Inv, NEW r \in Request, Started(r) PROVE Inv'
<1>t. Typed /\ PurposeOf(r) /\ req[r].pc = "starting"
  BY DEF Inv, Purposes, Started, At
<1>. PICK q \in Requested : q = req[r]
  BY <1>t, RequestParts
<1>1. PICK c \in Conn : c = req[r].c /\ managed[c].actor = "starting" /\ managed[c] \in Managed
  BY <1>t, ManagedParts DEF PurposeOf, Attached
<1>. DEFINE k == [managed[c] EXCEPT !.actor = "ready", !.proc = "waiting"]
            up == [managed EXCEPT ![c].actor = "ready", ![c].proc = "waiting"]
<1>2. /\ k \in Managed /\ k.actor = "ready" /\ k.id = managed[c].id /\ k.sdk = managed[c].sdk
      /\ k.proc = "waiting" /\ k.status = managed[c].status /\ k.inbox = managed[c].inbox
      /\ k.timer = managed[c].timer /\ k.cmds = managed[c].cmds
  BY <1>1 DEF Managed, ProcState
<1>3. up = [managed EXCEPT ![c] = k]
  BY <1>t DEF Typed
<1>. HIDE DEF k
<1>4. up \in [Conn -> Managed] /\ up[c] = k /\ \A d \in Conn : d # c => up[d] = managed[d]
  BY <1>t, <1>2, <1>3 DEF Typed
<1>5. /\ row' \in [Session -> {"absent"} \union Status] /\ \A s \in Session : row'[s] # "absent" => row[s] # "absent"
      /\ sessions' \in [Id -> Conn \union {None}] /\ FewerSessions
      /\ UNCHANGED << disconnecting, locks, late, overlap, begun, faults >>
  BY <1>t, Unmoved DEF Started, Typed
<1>6. /\ managed[c].proc = "off" /\ managed[c].id # None
      /\ sessions[c] = c => managed[c].status = "running"
  BY <1>1 DEF Inv, IdsOwn, UnderNumber, Alive
<1>7. CASE req[r].op = "send"
  <2>. DEFINE m == [k EXCEPT !.timer = FALSE]
              g == [q EXCEPT !.pc = "marking", !.c = c]
  <2>1. managed' = [managed EXCEPT ![c] = m]
    <3>1. managed' = [up EXCEPT ![c].timer = FALSE]
      <4>. HIDE DEF up
      <4>. QED BY <1>1, <1>7 DEF Started, Attach, up
    <3>. HIDE DEF up
    <3>. QED BY <1>3, <1>4, <1>t, <3>1 DEF Typed
  <2>2. m \in Managed /\ SameButFlags(m, k)
    BY <1>2 DEF Managed, SameButFlags
  <2>3. /\ g \in Requested /\ g.pc = "marking" /\ g.op = q.op /\ g.sid = q.sid /\ g.c = c /\ g.meta = q.meta
    BY DEF Requested, RequestPc
  <2>4. req' = [req EXCEPT ![r] = Idle] \/ req' = [req EXCEPT ![r] = g]
    <3>1. req' = Done(r) \/ req' = [req EXCEPT ![r].pc = "marking", ![r].c = c]
      BY <1>1, <1>7 DEF Started, Attach
    <3>. QED BY <1>t, <3>1 DEF Done, Typed
  <2>. HIDE DEF m, g
  <2>5. PICK n \in {Idle, g} : req' = [req EXCEPT ![r] = n] /\ n \in Requested
    BY <2>3, <2>4, IdleTyped
  <2>6. req'[r] = n /\ managed'[c] = m
    BY <1>t, <2>1, <2>2, <2>5, ChangeOne DEF Typed
  <2>7. ObjectMoves(c)
    BY <1>1, <1>2, <1>6, <2>2, <2>6 DEF SameButFlags, ObjectMoves, HeadStays, Naming
  <2>8. RequestGoes(r) /\ n.pc \notin {"looking", "queued", "capacity", "evicting"}
    BY <1>t, <2>3, <2>5, <2>6 DEF RequestGoes, Idle, Made
  <2>9. PurposeOf(r)' \/ n = Idle
    BY <1>t, <1>1, <1>2, <1>7, <2>2, <2>3, <2>5, <2>6 DEF PurposeOf, Attached, SameButFlags
  <2>. QED BY <1>t, <1>1, <1>5, <2>1, <2>2, <2>5, <2>7, <2>8, <2>9, ObjectAndRequest
<1>8. CASE req[r].op # "send"
  <2>. DEFINE m == Enqueue(k, "query", r)
              cmd == [kind |-> "query", by |-> r]
              n == [q EXCEPT !.pc = "sending"]
  <2>1. managed' = [managed EXCEPT ![c] = m] /\ req' = [req EXCEPT ![r] = n]
    <3>1. managed' = [up EXCEPT ![c] = Enqueue(up[c], "query", r)] /\ req' = [req EXCEPT ![r].pc = "sending"]
      <4>. HIDE DEF up
      <4>. QED BY <1>1, <1>4, <1>8 DEF Started, up
    <3>. HIDE DEF up
    <3>. QED BY <1>3, <1>4, <1>t, <3>1 DEF Typed
  <2>2. /\ m \in Managed /\ m.actor = k.actor /\ m.id = k.id /\ m.sdk = k.sdk
        /\ m.proc = k.proc /\ m.status = k.status /\ m.inbox = k.inbox /\ m.timer = k.timer
        /\ cmd \in Command /\ cmd.kind = "query" /\ cmd.by = r
        /\ k.actor # "over" => m.cmds = Append(k.cmds, cmd)
    BY <1>2, EnqueueParts
  <2>3. n \in Requested /\ n.pc = "sending" /\ n.op = q.op /\ n.sid = q.sid /\ n.c = q.c /\ n.meta = q.meta
    BY DEF Requested, RequestPc
  <2>. HIDE DEF m, cmd, n
  <2>4. req'[r] = n /\ managed'[c] = m
    BY <1>t, <2>1, <2>2, ChangeOne DEF Typed
  <2>5. ObjectMoves(c)
    <3>1. CommandOf(c, cmd)' /\ req[cmd.by].pc \notin {"sending", "interrupting"}
      BY <1>t, <1>1, <2>2, <2>3, <2>4, SessionAssumption DEF CommandOf
    <3>2. m.cmds = Append(managed[c].cmds, cmd)
      BY <1>2, <2>2
    <3>. QED BY <1>1, <1>2, <1>6, <2>2, <2>4, <3>1, <3>2 DEF ObjectMoves, HeadStays, Naming
  <2>6. RequestGoes(r)
    BY <1>t, <2>3, <2>4 DEF RequestGoes, Made
  <2>7. PurposeOf(r)'
    <3>1. NotSent(c)'
      <4>1. PurposeOf(r)
        BY DEF Inv, Purposes
      <4>2. NotSent(c)
        BY <4>1, <1>t, <1>1, <1>2, <1>8 DEF PurposeOf
      <4>. QED BY <4>2, <1>2, <2>2, <2>4 DEF NotSent
    <3>. QED BY <1>t, <1>1, <1>2, <2>2, <2>3, <2>4, <3>1 DEF PurposeOf, Attached
  <2>. QED BY <1>t, <1>1, <1>5, <2>1, <2>2, <2>3, <2>5, <2>6, <2>7, ObjectAndRequest
<1>. QED BY <1>7, <1>8

--------------------------------------------------------------------------------
(* A new session gets its id. *)

LEMMA InitTaken == ASSUME Inv, NEW c \in Conn, ProcessInbox(c), Head(managed[c].inbox) = "init" PROVE Inv'
<1>t. Typed /\ managed[c] \in Managed /\ managed[c].inbox \in Seq(News) /\ managed[c].inbox # << >>
      /\ managed[c].proc = "waiting" /\ None \notin Session
  BY ManagedParts, SessionAssumption DEF Inv, ProcessInbox
<1>0. /\ Tail(managed[c].inbox) \in Seq(News) /\ 1 \in DOMAIN managed[c].inbox /\ managed[c].inbox[1] = "init"
      /\ \A n \in DOMAIN Tail(managed[c].inbox) :
           /\ n \in Nat /\ n > 0 /\ n + 1 \in DOMAIN managed[c].inbox
           /\ Tail(managed[c].inbox)[n] = managed[c].inbox[n + 1]
  <2>1. \A n \in 1 .. (Len(managed[c].inbox) - 1) : n \in Nat /\ n > 0 /\ n + 1 \in 1 .. Len(managed[c].inbox)
    BY <1>t, LenProperties
  <2>. QED BY <1>t, <2>1, HeadTailProperties, LenProperties, EmptySeq
<1>. PICK s \in Session : /\ row[s] = "absent" /\ s \notin Stored /\ \A d \in Conn : managed[d].sdk # s
                          /\ managed' = [managed EXCEPT ![c].proc = "creating", ![c].sdk = s, ![c].inbox = Tail(@)]
  BY DEF ProcessInbox, Settled
<1>u. UNCHANGED << sessions, disconnecting, locks, row, late, req, overlap, begun, faults >>
  BY DEF ProcessInbox
<1>. DEFINE m == [managed[c] EXCEPT !.proc = "creating", !.sdk = s, !.inbox = Tail(@)]
<1>1. m \in Managed /\ managed' = [managed EXCEPT ![c] = m]
  BY <1>t, <1>0 DEF Managed, ProcState
<1>2. /\ m.actor = managed[c].actor /\ m.id = managed[c].id /\ m.sdk = s /\ m.cmds = managed[c].cmds
      /\ m.proc = "creating" /\ m.inbox = Tail(managed[c].inbox) /\ m.status = managed[c].status
      /\ m.timer = managed[c].timer
  BY <1>t DEF Managed
<1>. HIDE DEF m
<1>3. managed' \in [Conn -> Managed] /\ managed'[c] = m /\ \A d \in Conn : d # c => managed'[d] = managed[d]
  BY <1>t, <1>1, ChangeOne
<1>4. /\ managed[c].sdk = None /\ managed[c].id \notin Session /\ managed[c].id # None
      /\ managed[c].actor \notin {"none", "starting"}
  BY <1>t, <1>0 DEF Inv, NewsInOrder, IdsOwn
<1>5. \A d \in Conn : /\ managed'[d].actor = managed[d].actor /\ managed'[d].id = managed[d].id
                      /\ managed'[d].status = managed[d].status /\ managed'[d].cmds = managed[d].cmds
                      /\ managed'[d].timer = managed[d].timer
  BY <1>2, <1>3
<1>6. Typed'
  BY <1>t, <1>u, <1>3 DEF Typed
<1>7. InOrder'
  BY <1>3, <1>4, <1>5 DEF Inv, InOrder
<1>8. EnoughNumbers'
  <2>1. Used' = Used /\ Opening' = Opening
    BY <1>u, <1>5 DEF Used, Opening
  <2>. QED BY <2>1, <1>u DEF Inv, EnoughNumbers
<1>9. IdsOwn'
  <2>1. ASSUME NEW d \in Conn
        PROVE  /\ managed'[d].id \in Conn => managed'[d].id = d
               /\ managed'[d].id \in Session => managed'[d].sdk = managed'[d].id
               /\ Alive(d)' \/ managed'[d].timer \/ managed'[d].proc \notin {"off", "over"} => managed'[d].id # None
               /\ managed'[d].actor \in {"none", "starting"} => managed'[d].proc = "off"
               /\ managed'[d].actor = "starting" /\ managed'[d].id \in Conn => managed'[d].sdk = None
               /\ managed'[d].proc \in {"creating", "naming"} => managed'[d].sdk # None /\ managed'[d].id \notin Session
    <3>1. CASE d = c
      BY <1>t, <1>2, <1>3, <1>4, <3>1 DEF Inv, IdsOwn
    <3>2. CASE d # c
      BY <1>3, <3>2 DEF Inv, IdsOwn, Alive
    <3>. QED BY <3>1, <3>2
  <2>2. \A i \in Id : sessions'[i] # None => managed'[sessions'[i]].id = i /\ managed'[sessions'[i]].actor # "none"
    BY <1>t, <1>u, <1>5 DEF Inv, IdsOwn, Typed
  <2>. QED BY <2>1, <2>2 DEF IdsOwn
<1>10. NewsInOrder'
  <2>1. ASSUME NEW n \in DOMAIN managed'[c].inbox
        PROVE  managed'[c].inbox[n] # "init" /\ managed'[c].sdk # None
    BY <1>t, <1>0, <1>2, <1>3 DEF Inv, NewsInOrder
  <2>2. managed'[c].proc # "finalizing"
    BY <1>2, <1>3
  <2>. QED BY <1>3, <2>1, <2>2 DEF Inv, NewsInOrder
<1>11. Fresh'
  <2>1. ASSUME NEW k \in Session, Met(k) PROVE Met(k)'
    BY <1>t, <1>3, <1>4, <2>1 DEF Met
  <2>2. \A r \in Request : req[r].sid \in Session \union {None}
    BY <1>t, RequestParts
  <2>3. \A r \in Request : req[r].sid # s
    BY <1>t DEF Inv, Fresh, Met
  <2>4. ASSUME NEW d \in Conn, managed'[d].proc \in {"creating", "naming"}
        PROVE  /\ managed'[d].proc = "creating" => row[managed'[d].sdk] = "absent"
               /\ \A e \in Conn : managed'[e].sdk = managed'[d].sdk => e = d
               /\ \A r \in Request : req[r].sid # managed'[d].sdk
    <3>1. CASE d = c
      BY <1>2, <1>3, <2>3, <3>1
    <3>2. CASE d # c
      BY <1>2, <1>3, <2>4, <3>2 DEF Inv, Fresh
    <3>. QED BY <3>1, <3>2
  <2>5. \A k \in Session : row[k] # "absent" => Met(k)'
    BY <2>1 DEF Inv, Fresh
  <2>6. \A r \in Request : req[r].sid # None => Met(req[r].sid)'
    <3>1. \A r \in Request : req[r].sid # None => Met(req[r].sid) /\ req[r].sid \in Session
      BY <2>2 DEF Inv, Fresh
    <3>2. \A k : Met(k) /\ k \in Session => k \in Stored \/ \E d \in Conn : managed'[d].sdk = k
      BY <2>1 DEF Met
    <3>. QED BY <3>1, <3>2, <1>u DEF Met
  <2>. QED BY <2>4, <2>5, <2>6, <1>u DEF Fresh
<1>12. UnderNumber'
  <2>1. \A d \in Conn : Alive(d)' => Alive(d)
    BY <1>5 DEF Alive
  <2>2. ASSUME NEW d \in Conn, sessions'[d] = d
        PROVE  /\ managed'[d].sdk # None => managed'[d].proc \in {"creating", "naming"}
               /\ Alive(d)' => managed'[d].status = "running"
    <3>1. CASE d = c
      BY <1>2, <1>3, <1>5, <1>u, <2>1, <2>2, <3>1 DEF Inv, UnderNumber
    <3>2. CASE d # c
      BY <1>3, <1>5, <1>u, <2>1, <2>2, <3>2 DEF Inv, UnderNumber
    <3>. QED BY <3>1, <3>2
  <2>. QED BY <1>u, <2>2 DEF Inv, UnderNumber
<1>13. Purposes'
  <2>1. ASSUME NEW d \in Conn, NotSent(d) PROVE NotSent(d)'
    <3>1. d # c
      BY <1>0, <2>1 DEF NotSent
    <3>. QED BY <1>3, <2>1, <3>1 DEF NotSent
  <2>2. ASSUME NEW r \in Request PROVE PurposeOf(r)'
    <3>1. PurposeOf(r)
      BY DEF Inv, Purposes
    <3>2. NotSent(req[r].c) /\ req[r].c \in Conn => NotSent(req[r].c)'
      BY <1>u, <2>1
    <3>3. Attached(r) => /\ Attached(r)' /\ managed'[req[r].c].actor = managed[req[r].c].actor
                         /\ managed'[req[r].c].id = managed[req[r].c].id
      BY <1>u, <1>5 DEF Attached
    <3>. QED BY <1>u, <3>1, <3>2, <3>3 DEF PurposeOf, Attached
  <2>. QED BY <2>2 DEF Purposes
<1>14. OneStarter'
  BY <1>u DEF Inv, OneStarter, Made
<1>15. CommandsAnswered'
  <2>1. ASSUME NEW d \in Conn
        PROVE  /\ \A n \in DOMAIN managed'[d].cmds : CommandOf(d, managed[d].cmds[n])'
               /\ OneEach(managed'[d].cmds)
    <3>1. /\ \A n \in DOMAIN managed[d].cmds : CommandOf(d, managed[d].cmds[n])
          /\ OneEach(managed[d].cmds)
      BY DEF Inv, CommandsAnswered
    <3>2. managed'[d].cmds = managed[d].cmds /\ req' = req
      BY <1>u, <1>5
    <3>. QED BY <3>1, <3>2 DEF CommandOf
  <2>. QED BY <2>1 DEF CommandsAnswered, OneEach
<1>16. EvictionsMean'
  <2>1. \A e \in disconnecting : e.c \in Conn /\ (e.id \in Session => managed'[e.c].sdk = e.id)
    BY <1>t, <1>3, <1>4 DEF Inv, EvictionsMean, Typed, Evicting
  <2>. QED BY ZenonT(50), <1>u, <1>5, <2>1 DEF Inv, EvictionsMean
<1>17. LockedOut'
  BY <1>u DEF Inv, LockedOut, Holds, Disconnecting
<1>18. RoomCounted'
  <2>1. Active' = Active /\ Freeing' = Freeing /\ Renamed' = Renamed
    BY ZenonT(50), <1>u, <1>5 DEF Active, Freeing, Renamed, Disconnecting
  <2>2. \A d \in Renamed : d \in Conn
    BY DEF Renamed
  <2>. QED BY <1>5, <2>1, <2>2 DEF Inv, RoomCounted
<1>19. OneActor'
  <2>1. ASSUME NEW d \in Conn, Alive(d)', sessions'[managed'[d].id] # d, d \notin Evicted'
        PROVE  managed'[d].id \in overlap' \/ \E r \in Request : At(r, "dropping")' /\ req'[r].c = d
    <3>1. Alive(d) /\ sessions[managed[d].id] # d /\ d \notin Evicted
      BY <1>u, <1>5, <2>1 DEF Alive, Evicted
    <3>2. managed[d].id \in overlap \/ \E r \in Request : At(r, "dropping") /\ req[r].c = d
      BY <3>1 DEF Inv, OneActor
    <3>3. managed'[d].id = managed[d].id /\ req' = req /\ overlap' = overlap
      BY <1>u, <1>5
    <3>. QED BY <3>2, <3>3 DEF At
  <2>. QED BY <2>1 DEF OneActor
<1>. QED BY <1>6, <1>7, <1>8, <1>9, <1>10, <1>11, <1>12, <1>13, <1>14, <1>15, <1>16, <1>17, <1>18, <1>19 DEF Inv

LEMMA SwapParts ==
  ASSUME Inv, NEW c \in Conn, SwapKey(c)
  PROVE  /\ managed[c].id = c /\ managed[c].sdk \in Session /\ managed[c].proc = "naming"
         /\ managed[c].actor \notin {"none", "starting"}
         /\ sessions[c] \in {None, c}
         /\ \A q \in Request : req'[q] = req[q] \/ (req'[q] = Idle /\ req[q].pc = "naming")
         /\ req' \in [Request -> Requested]
         /\ row' \in [Session -> {"absent"} \union Status]
         /\ \A t \in Session : row'[t] # "absent" <=> row[t] # "absent"
         /\ Opening' \subseteq Opening /\ Freeing' \subseteq Freeing
<1>t. Typed /\ managed[c] \in Managed /\ managed[c].proc = "naming"
  BY ManagedParts DEF Inv, SwapKey
<1>1. /\ managed[c].sdk # None /\ managed[c].id \notin Session /\ managed[c].id # None
      /\ managed[c].actor \notin {"none", "starting"}
  BY <1>t DEF Inv, IdsOwn
<1>2. managed[c].id = c /\ managed[c].sdk \in Session
  BY <1>t, <1>1 DEF Managed, Id, Inv, IdsOwn
<1>3. sessions[c] \in {None, c}
  <2>1. c \in Id /\ sessions[c] \in Conn \union {None}
    BY <1>t DEF Id, Typed
  <2>2. sessions[c] # None => managed[sessions[c]].id = c
    BY <2>1 DEF Inv, IdsOwn
  <2>. QED BY <2>1, <2>2 DEF Inv, IdsOwn
<1>4. \A q \in Request : req'[q] = req[q] \/ (req'[q] = Idle /\ req[q].pc = "naming")
  BY DEF SwapKey, At
<1>5. req' \in [Request -> Requested]
  <2>1. \A q \in Request : req[q] \in Requested
    BY <1>t DEF Typed
  <2>. QED BY <2>1, IdleTyped DEF SwapKey
<1>6. /\ row' \in [Session -> {"absent"} \union Status]
      /\ \A t \in Session : row'[t] # "absent" <=> row[t] # "absent"
  BY <1>t, <1>2 DEF SwapKey, Write, Typed, Status
<1>7. Opening' \subseteq Opening /\ Freeing' \subseteq Freeing
  BY <1>4 DEF Opening, Freeing, Idle
<1>. QED BY <1>t, <1>1, <1>2, <1>3, <1>4, <1>5, <1>6, <1>7

\* The session has left the registry already.
LEMMA SwapMissed == ASSUME Inv, NEW c \in Conn, SwapKey(c), sessions[c] = None PROVE Inv'
<1>t. Typed /\ managed[c] \in Managed /\ c # None
  BY ManagedParts, SessionAssumption DEF Inv
<1>. DEFINE m == [managed[c] EXCEPT !.proc = "waiting"]
<1>1. m \in Managed /\ managed' = [managed EXCEPT ![c] = m]
  BY <1>t, SwapParts DEF Managed, ProcState, SwapKey
<1>2. /\ m.actor = managed[c].actor /\ m.id = managed[c].id /\ m.sdk = managed[c].sdk /\ m.cmds = managed[c].cmds
      /\ m.proc = "waiting" /\ m.inbox = managed[c].inbox /\ m.status = managed[c].status
      /\ m.timer = managed[c].timer
  BY <1>t DEF Managed
<1>. HIDE DEF m
<1>3. managed' \in [Conn -> Managed] /\ managed'[c] = m /\ \A d \in Conn : d # c => managed'[d] = managed[d]
  BY <1>t, <1>1, ChangeOne
<1>u. UNCHANGED << sessions, overlap, disconnecting, locks, late, begun, faults >>
  BY SwapParts DEF SwapKey
<1>4. ObjectMoves(c)
  BY <1>t, <1>2, <1>3, SwapParts DEF ObjectMoves, HeadStays, Naming
<1>5. Typed'
  BY <1>t, <1>3, <1>u, SwapParts DEF Typed
<1>6. \A q \in Request : req'[q] = req[q] \/ (RequestGoes(q) /\ PurposeOf(q)')
  <2>. SUFFICES ASSUME NEW q \in Request, req'[q] = Idle, req[q].pc = "naming"
                PROVE  RequestGoes(q) /\ PurposeOf(q)'
    BY SwapParts
  <2>1. RequestGoes(q)
    BY DEF RequestGoes, Idle, Made
  <2>2. PurposeOf(q)'
    BY SessionAssumption DEF Idle, PurposeOf
  <2>. QED BY <2>1, <2>2
<1>7. \A q \in Request : req[q].pc = "starting" /\ req'[q] = req[q] => managed'[req[q].c].actor = managed[req[q].c].actor
  BY <1>2, <1>3 DEF Inv, Purposes, PurposeOf, Attached
<1>8. SameObjects /\ NewsInOrder' /\ CommandsAnswered' /\ Purposes' /\ CalmRequests
  BY <1>3, <1>4, <1>5, <1>6, <1>7, Moves
<1>9. FewerSessions /\ EvictionsGoOn /\ RowsMet
  BY <1>8, <1>u, SwapParts, Unmoved
<1>. QED BY <1>5, <1>8, <1>9, <1>u, SwapParts, Calm DEF NumbersLeft, RoomLeft

\* It is in the registry under its number, and will be under its id.
LEMMA SwapMade == ASSUME Inv, NEW c \in Conn, SwapKey(c), sessions[c] = c PROVE Inv'
<1>t. Typed /\ managed[c] \in Managed /\ None \notin Conn /\ Session \intersect Conn = {} /\ None \notin Session
  BY ManagedParts, SessionAssumption DEF Inv
<1>. DEFINE s == managed[c].sdk
            m == [managed[c] EXCEPT !.proc = "waiting", !.id = s]
<1>p. s \in Session /\ managed[c].id = c /\ managed[c].proc = "naming" /\ managed[c].actor \notin {"none", "starting"}
      /\ s # c /\ s \in Id /\ c \in Id
  BY <1>t, SwapParts DEF Id
<1>1. /\ m \in Managed /\ managed' = [managed EXCEPT ![c] = m]
      /\ sessions' = [sessions EXCEPT ![c] = None, ![s] = c]
      /\ overlap' = IF Disconnecting(c) THEN overlap \union {c} ELSE overlap
      /\ UNCHANGED << disconnecting, locks, late, begun, faults >>
  BY ZenonT(50), <1>t, <1>p DEF Managed, ProcState, SwapKey, Id
<1>2. /\ m.actor = managed[c].actor /\ m.id = s /\ m.sdk = s /\ m.cmds = managed[c].cmds
      /\ m.proc = "waiting" /\ m.inbox = managed[c].inbox /\ m.status = managed[c].status
      /\ m.timer = managed[c].timer
  BY <1>t DEF Managed
<1>f. (\A d \in Conn : managed[d].sdk = s => d = c) /\ (\A r \in Request : req[r].sid # s)
  BY <1>p DEF Inv, Fresh
<1>. HIDE DEF m, s
<1>3. managed' \in [Conn -> Managed] /\ managed'[c] = m /\ \A d \in Conn : d # c => managed'[d] = managed[d]
  BY <1>t, <1>1, ChangeOne
<1>4. /\ sessions' \in [Id -> Conn \union {None}] /\ sessions'[c] = None /\ sessions'[s] = c
      /\ \A i \in Id : i # c /\ i # s => sessions'[i] = sessions[i]
  BY <1>t, <1>p, <1>1 DEF Typed
<1>5. \A d \in Conn : /\ managed'[d].actor = managed[d].actor /\ managed'[d].sdk = managed[d].sdk
                      /\ managed'[d].inbox = managed[d].inbox
                      /\ managed'[d].status = managed[d].status /\ managed'[d].cmds = managed[d].cmds
                      /\ managed'[d].timer = managed[d].timer
  BY <1>2, <1>3 DEF s
<1>r. \A q \in Request : req'[q] = req[q] \/ (req'[q] = Idle /\ req[q].pc = "naming")
  BY SwapParts
<1>6. Typed'
  <2>1. overlap' \subseteq Id
    BY <1>t, <1>p, <1>1 DEF Typed
  <2>. QED BY <1>t, <1>1, <1>3, <1>4, <2>1, SwapParts DEF Typed
<1>7. InOrder'
  BY <1>3, <1>p, <1>5 DEF Inv, InOrder
<1>8. EnoughNumbers'
  <2>1. Used' = Used /\ Opening \subseteq Request /\ Opening' \subseteq Opening /\ Used \subseteq Conn
    BY <1>5, SwapParts DEF Used, Opening
  <2>2. Cardinality(Opening') <= Cardinality(Opening) /\ Opening' \subseteq Request
    BY <2>1, FiniteParts, FS_Subset
  <2>. QED BY <1>t, <2>1, <2>2, <1>1, FiniteParts DEF Inv, EnoughNumbers, Typed
<1>9. IdsOwn'
  <2>1. ASSUME NEW d \in Conn
        PROVE  /\ managed'[d].id \in Conn => managed'[d].id = d
               /\ managed'[d].id \in Session => managed'[d].sdk = managed'[d].id
               /\ Alive(d)' \/ managed'[d].timer \/ managed'[d].proc \notin {"off", "over"} => managed'[d].id # None
               /\ managed'[d].actor \in {"none", "starting"} => managed'[d].proc = "off"
               /\ managed'[d].actor = "starting" /\ managed'[d].id \in Conn => managed'[d].sdk = None
               /\ managed'[d].proc \in {"creating", "naming"} => managed'[d].sdk # None /\ managed'[d].id \notin Session
    <3>1. CASE d = c
      BY <1>t, <1>p, <1>2, <1>3, <3>1
    <3>2. CASE d # c
      BY <1>3, <3>2 DEF Inv, IdsOwn, Alive
    <3>. QED BY <3>1, <3>2
  <2>2. ASSUME NEW i \in Id, sessions'[i] # None
        PROVE  managed'[sessions'[i]].id = i /\ managed'[sessions'[i]].actor # "none"
    <3>1. CASE i = s
      BY <1>p, <1>2, <1>3, <1>4, <3>1
    <3>2. CASE i # s
      <4>1. i # c /\ sessions'[i] = sessions[i]
        BY <1>4, <2>2, <3>2
      <4>2. sessions[i] \in Conn /\ managed[sessions[i]].id = i /\ managed[sessions[i]].actor # "none"
        BY <1>t, <2>2, <4>1 DEF Inv, IdsOwn, Typed
      <4>. QED BY <1>p, <1>3, <4>1, <4>2
    <3>. QED BY <3>1, <3>2
  <2>. QED BY <2>1, <2>2 DEF IdsOwn
<1>10. NewsInOrder'
  <2>1. \A d \in Conn : managed'[d].proc = "finalizing" => managed[d].proc = "finalizing"
    BY <1>2, <1>3
  <2>. QED BY <1>5, <2>1 DEF Inv, NewsInOrder
<1>11. Fresh'
  <2>1. \A k : Met(k) => Met(k)'
    BY <1>5 DEF Met
  <2>2. \A k \in Session : row'[k] # "absent" => Met(k)'
    BY <2>1, SwapParts DEF Inv, Fresh
  <2>3. \A r \in Request : req'[r].sid \in {None, req[r].sid}
    BY <1>r DEF Idle
  <2>4. \A r \in Request : req'[r].sid # None => Met(req[r].sid)'
    <3>1. ASSUME NEW r \in Request, req'[r].sid # None PROVE Met(req[r].sid)'
      <4>1. Met(req[r].sid) /\ req'[r].sid = req[r].sid
        BY <2>3, <3>1 DEF Inv, Fresh
      <4>2. req[r].sid \in Stored \/ \E d \in Conn : managed'[d].sdk = req[r].sid
        BY <4>1, <1>5 DEF Met
      <4>. QED BY <4>1, <4>2 DEF Met
    <3>. QED BY <3>1
  <2>5. ASSUME NEW d \in Conn, managed'[d].proc \in {"creating", "naming"}
        PROVE  /\ managed'[d].proc = "creating" => row'[managed'[d].sdk] = "absent"
               /\ \A e \in Conn : managed'[e].sdk = managed'[d].sdk => e = d
               /\ \A r \in Request : req'[r].sid # managed'[d].sdk
    <3>1. d # c /\ managed'[d] = managed[d]
      BY <1>2, <1>3, <2>5
    <3>2. managed[d].sdk \in Session
      BY <1>t, <2>5, <3>1, ManagedParts DEF Inv, IdsOwn
    <3>. QED BY <1>t, <1>5, <2>3, <2>5, <3>1, <3>2, SwapParts DEF Inv, Fresh
  <2>. QED BY <2>2, <2>4, <2>5 DEF Fresh
<1>12. UnderNumber'
  <2>1. ASSUME NEW d \in Conn, sessions'[d] = d
        PROVE  /\ managed'[d].sdk # None => managed'[d].proc \in {"creating", "naming"}
               /\ Alive(d)' => managed'[d].status = "running"
    <3>1. d # c /\ sessions[d] = d /\ managed'[d] = managed[d]
      BY <1>t, <1>p, <1>3, <1>4, <2>1 DEF Id
    <3>. QED BY <3>1 DEF Inv, UnderNumber, Alive
  <2>2. ASSUME NEW r \in Request, req'[r].pc = "dropping" PROVE sessions'[req'[r].c] # req'[r].c
    <3>1. req'[r] = req[r] /\ req[r].c \in Conn /\ sessions[req[r].c] # req[r].c
      BY <1>r, <2>2 DEF Inv, UnderNumber, Purposes, PurposeOf, Attached, Idle
    <3>2. req[r].c # c
      BY <3>1
    <3>. QED BY <1>t, <1>p, <1>4, <3>1, <3>2 DEF Id
  <2>. QED BY <2>1, <2>2 DEF UnderNumber
<1>13. Purposes'
  <2>. SUFFICES ASSUME NEW r \in Request PROVE PurposeOf(r)'
    BY DEF Purposes
  <2>1. CASE req'[r] = Idle
    BY <2>1, SessionAssumption DEF Idle, PurposeOf
  <2>2. CASE req'[r] = req[r] /\ ~ (req[r].c = c /\ req[r].pc = "naming")
    <3>1. PurposeOf(r)
      BY DEF Inv, Purposes
    <3>2. CASE req[r].c = c
      <4>1. ~ NotSent(c)
        BY <1>t, <1>p DEF NotSent, s
      <4>2. /\ ~ (req[r].pc \in {"starting", "marking", "sending", "failed"} /\ req[r].op = "send")
            /\ ~ (req[r].pc \in {"starting", "sending", "failed", "naming"} /\ req[r].op = "new")
            /\ req[r].pc # "starting"
        BY <1>t, <1>p, <2>2, <3>1, <3>2, <4>1 DEF PurposeOf
      <4>. QED BY <1>5, <2>2, <3>1, <3>2, <4>2 DEF PurposeOf, Attached
    <3>3. CASE req[r].c # c
      <4>1. Attached(r) => Attached(r)' /\ managed'[req[r].c] = managed[req[r].c]
        BY <1>3, <2>2, <3>3 DEF Attached
      <4>2. NotSent(req[r].c) /\ req[r].c \in Conn => NotSent(req[r].c)'
        BY <1>3, <2>2, <3>3 DEF NotSent
      <4>. QED BY <2>2, <3>1, <4>1, <4>2 DEF PurposeOf, Attached
    <3>. QED BY <3>2, <3>3
  <2>. QED BY <2>1, <2>2 DEF SwapKey, At
<1>14. OneStarter'
  BY <1>r DEF Inv, OneStarter, Made, Idle
<1>15. CommandsAnswered'
  <2>1. ASSUME NEW d \in Conn
        PROVE  /\ \A n \in DOMAIN managed'[d].cmds : CommandOf(d, managed[d].cmds[n])'
               /\ OneEach(managed'[d].cmds)
    <3>1. /\ \A n \in DOMAIN managed[d].cmds : CommandOf(d, managed[d].cmds[n])
          /\ OneEach(managed[d].cmds)
      BY DEF Inv, CommandsAnswered
    <3>2. managed'[d].cmds = managed[d].cmds
      BY <1>5
    <3>3. ASSUME NEW n \in DOMAIN managed[d].cmds, managed[d].cmds[n].by # None
          PROVE  LET q == managed[d].cmds[n].by IN q \in Request
      <4>1. managed[d].cmds[n] \in Command
        BY <1>t, ManagedParts, ElementOfSeq, LenProperties
      <4>. QED BY <4>1, <3>3 DEF Command
    <3>4. ASSUME NEW n \in DOMAIN managed'[d].cmds PROVE CommandOf(d, managed[d].cmds[n])'
      <4>1. CommandOf(d, managed[d].cmds[n]) /\ n \in DOMAIN managed[d].cmds
        BY <3>1, <3>2, <3>4
      <4>2. \A q \in Request : req[q].pc \in {"sending", "interrupting"} => req'[q] = req[q]
        BY <1>r
      <4>. QED BY <3>2, <3>3, <4>1, <4>2 DEF CommandOf
    <3>. QED BY <3>1, <3>2, <3>4
  <2>. QED BY <2>1 DEF CommandsAnswered, OneEach
<1>16. EvictionsMean'
  <2>1. ASSUME NEW e \in disconnecting
        PROVE  /\ managed'[e.c].actor # "none"
               /\ e.id \in Conn => e.c = e.id
               /\ e.id \in Session => managed'[e.c].sdk = e.id
               /\ e.step \in {"drain", "persist"} => managed'[e.c].actor = "over"
               /\ e.by # None => req'[e.by].pc = "evicting"
               /\ sessions'[e.id] \in {None, e.c} \/ e.id \in overlap'
    <3>0. e.c \in Conn /\ e.id \in Id /\ e.by \in Request \union {None}
      BY <1>t DEF Typed, Evicting
    <3>1. sessions'[e.id] \in {None, e.c} \/ e.id \in overlap'
      <4>1. CASE e.id = c
        BY <1>4, <4>1
      <4>2. CASE e.id = s
        BY <1>p, <1>f, <1>4, <3>0, <4>2 DEF Inv, EvictionsMean
      <4>3. CASE e.id \notin {c, s}
        BY <1>1, <1>4, <3>0, <4>3 DEF Inv, EvictionsMean
      <4>. QED BY <4>1, <4>2, <4>3
    <3>2. e.by # None => req'[e.by].pc = "evicting"
      BY <1>r, <3>0 DEF Inv, EvictionsMean
    <3>. QED BY <1>5, <3>0, <3>1, <3>2 DEF Inv, EvictionsMean
  <2>. QED BY <1>1, <2>1 DEF Inv, EvictionsMean
<1>17. LockedOut'
  <2>1. \A k : \A r \in Request : Holds(r, k)' => Holds(r, k) /\ req'[r] = req[r]
    BY <1>r DEF Holds, Idle
  <2>2. ASSUME NEW k \in Session \ overlap', NEW r \in Request, Holds(r, k)'
        PROVE  /\ req'[r].lock = locks'[k]
               /\ req'[r].pc # "starting" => sessions'[k] = None /\ ~ Disconnecting(k)'
               /\ req'[r].pc = "starting" => /\ sessions'[k] \in {None, req'[r].c}
                                             /\ \A e \in disconnecting' : e.id = k => e.c = req'[r].c
    <3>1. Holds(r, k) /\ req'[r] = req[r] /\ k \in Session \ overlap
      BY <1>1, <2>1, <2>2
    <3>2. k # s /\ k # c /\ k \in Id
      BY <1>t, <1>p, <1>f, <3>1 DEF Holds, Id
    <3>3. sessions'[k] = sessions[k] /\ (Disconnecting(k)' <=> Disconnecting(k))
      BY <1>1, <1>4, <3>2 DEF Disconnecting
    <3>. QED BY <1>1, <3>1, <3>3 DEF Inv, LockedOut
  <2>3. \A k \in Session \ overlap' : \A r, q \in Request : Holds(r, k)' /\ Holds(q, k)' => r = q
    BY <1>1, <2>1 DEF Inv, LockedOut
  <2>. QED BY <2>2, <2>3 DEF LockedOut
<1>18. RoomCounted'
  <2>0. Active \subseteq Conn /\ Active' \subseteq Conn /\ Freeing \subseteq Request /\ Renamed \subseteq Conn
        /\ Renamed' \subseteq Conn /\ Freeing' \subseteq Freeing
    BY SwapParts DEF Active, Freeing, Renamed
  <2>1. \A i \in Id : Disconnecting(i)' <=> Disconnecting(i)
    BY <1>1 DEF Disconnecting
  <2>2. ASSUME NEW d \in Active', d # c PROVE d \in Active
    <3>1. PICK i \in Id : sessions'[i] = d /\ ~ Disconnecting(managed[d].id)'
      BY DEF Active
    <3>2. sessions[i] = d /\ managed'[d].id = managed[d].id
      BY <1>t, <1>3, <1>4, <2>0, <2>2, <3>1
    <3>3. managed[d].id \in Id
      BY <1>t, <2>0, <3>1, <3>2, <1>4 DEF Inv, IdsOwn
    <3>. QED BY <2>0, <2>1, <3>1, <3>2, <3>3 DEF Active, Disconnecting
  <2>3. \A d \in Renamed' : managed'[d].id # d /\ managed'[d].actor # "none"
    <3>1. ASSUME NEW d \in Renamed' PROVE managed'[d].id # d /\ managed'[d].actor # "none"
      <4>1. CASE d = c
        BY <1>p, <1>2, <1>3, <4>1
      <4>2. CASE d # c
        BY <1>1, <1>3, <1>5, <2>0, <4>2 DEF Inv, RoomCounted, Renamed
      <4>. QED BY <4>1, <4>2
    <3>. QED BY <3>1
  <2>4. Cardinality(Freeing') <= Cardinality(Freeing) /\ Freeing' \subseteq Request
    BY <2>0, FiniteParts, FS_Subset
  <2>5. Limit \in Nat
    BY SessionBounds
  <2>6. CASE Disconnecting(c)
    <3>1. c \notin Renamed /\ Renamed' = Renamed \union {c}
      BY <1>p, <1>1, <2>6 DEF Renamed, Inv, RoomCounted
    <3>2. Cardinality(Renamed') = Cardinality(Renamed) + 1
      BY <2>0, <3>1, FiniteParts, FS_AddElement
    <3>3. Active' \subseteq Active \union {c}
      BY <2>2
    <3>4. Cardinality(Active') <= Cardinality(Active) + 1
      <4>1. IsFiniteSet(Active \union {c}) /\ Cardinality(Active \union {c}) <= Cardinality(Active) + 1
            /\ Cardinality(Active \union {c}) \in Nat
        <5>1. IsFiniteSet(Active) /\ Cardinality(Active) \in Nat
          BY <2>0, FiniteParts
        <5>2. /\ IsFiniteSet(Active \union {c})
              /\ Cardinality(Active \union {c}) \in {Cardinality(Active), Cardinality(Active) + 1}
          BY <5>1, FS_AddElement
        <5>. QED BY <5>1, <5>2
      <4>2. Cardinality(Active') <= Cardinality(Active \union {c})
        BY <4>1, <3>3, FS_Subset
      <4>. QED BY <4>1, <4>2, <2>0, FiniteParts
    <3>. QED BY <2>0, <2>3, <2>4, <2>5, <3>2, <3>4, FiniteParts DEF Inv, RoomCounted
  <2>7. CASE ~ Disconnecting(c)
    <3>1. c \in Active /\ Renamed' = Renamed
      BY <1>p, <1>1, <2>7 DEF Active, Renamed
    <3>2. Active' \subseteq Active
      BY <2>2, <3>1
    <3>3. Cardinality(Active') <= Cardinality(Active)
      BY <2>0, <3>2, FiniteParts, FS_Subset
    <3>. QED BY <2>0, <2>3, <2>4, <2>5, <3>1, <3>3, FiniteParts DEF Inv, RoomCounted
  <2>. QED BY <2>6, <2>7
<1>19. OneActor'
  <2>1. ASSUME NEW d \in Conn, Alive(d)', sessions'[managed'[d].id] # d, d \notin Evicted'
        PROVE  managed'[d].id \in overlap' \/ \E r \in Request : At(r, "dropping")' /\ req'[r].c = d
    <3>1. d # c
      BY <1>2, <1>3, <1>4, <2>1
    <3>2. Alive(d) /\ d \notin Evicted /\ managed'[d] = managed[d]
      BY <1>1, <1>3, <1>5, <2>1, <3>1 DEF Alive, Evicted
    <3>3. managed[d].id \in Id /\ managed[d].id # c /\ managed[d].id # s
      BY <1>t, <1>p, <1>f, <3>1, <3>2, ManagedParts DEF Inv, IdsOwn
    <3>4. sessions[managed[d].id] # d
      BY <1>4, <2>1, <3>2, <3>3
    <3>5. managed[d].id \in overlap \/ \E r \in Request : At(r, "dropping") /\ req[r].c = d
      BY <3>2, <3>4 DEF Inv, OneActor
    <3>6. \A r \in Request : At(r, "dropping") => req'[r] = req[r]
      BY <1>r DEF At
    <3>. QED BY <1>1, <3>2, <3>5, <3>6 DEF At
  <2>. QED BY <2>1 DEF OneActor
<1>. QED BY <1>6, <1>7, <1>8, <1>9, <1>10, <1>11, <1>12, <1>13, <1>14, <1>15, <1>16, <1>17, <1>18, <1>19 DEF Inv

LEMMA SwapKeyStep == ASSUME Inv, NEW c \in Conn, SwapKey(c) PROVE Inv'
BY SwapParts, SwapMissed, SwapMade

--------------------------------------------------------------------------------
(* A request enters the connect lock of its id. *)

LEMMA LetIn ==
  ASSUME Inv, NEW r \in Request, req[r].pc \in {"looking", "queued"}, NEW n \in Nat,
         ~ Usable(req[r].sid), ~ Locked(req[r].sid, n), Inside(r, n),
         UNCHANGED << sessions, disconnecting, locks, row, late, begun, faults >>
  PROVE  Inv'
<1>t. Typed /\ PurposeOf(r) /\ None \notin Conn /\ Session \intersect Conn = {} /\ None \notin Session
  BY SessionAssumption DEF Inv, Purposes
<1>. PICK q \in Requested : q = req[r]
  BY <1>t, RequestParts
<1>. DEFINE g == [q EXCEPT !.pc = "capacity", !.lock = n]
            s == q.sid
<1>1. /\ g \in Requested /\ g.pc = "capacity" /\ g.lock = n /\ g.op = q.op /\ g.sid = s
      /\ g.c = q.c /\ g.meta = q.meta
  BY DEF Requested, RequestPc
<1>2. q.op = "send" /\ s \in Session
  BY <1>t DEF PurposeOf
<1>. HIDE DEF g
<1>3. req' = [req EXCEPT ![r] = g]
  BY <1>t DEF Inside, Typed, g
<1>4. req' \in [Request -> Requested] /\ req'[r] = g /\ \A p \in Request : p # r => req'[p] = req[p]
  BY <1>t, <1>1, <1>3 DEF Typed
<1>u. UNCHANGED << sessions, disconnecting, managed, locks, row, late, begun, faults >>
  BY DEF Inside
<1>o. /\ overlap \subseteq overlap' /\ overlap' \subseteq overlap \union {s}
      /\ s \notin overlap' => ~ Disconnecting(s) /\ n = locks[s]
  BY DEF Inside
<1>. HIDE DEF s
<1>6. Typed'
  <2>1. overlap' \subseteq Id
    BY <1>t, <1>2, <1>o DEF Typed, Id
  <2>. QED BY <1>t, <1>4, <1>u, <2>1 DEF Typed
<1>8. Opening' \subseteq Opening /\ Freeing' \subseteq Freeing /\ Opening \subseteq Request /\ Freeing \subseteq Request
  <2>1. req'[r].pc # "evicting" /\ r \in Opening
    BY <1>1, <1>4 DEF Opening
  <2>. QED BY <1>4, <2>1 DEF Opening, Freeing
<1>9. Cardinality(Opening') <= Cardinality(Opening) /\ Cardinality(Freeing') <= Cardinality(Freeing)
      /\ Opening' \subseteq Request /\ Freeing' \subseteq Request
  BY <1>8, FiniteParts, FS_Subset
<1>10. InOrder' /\ IdsOwn' /\ NewsInOrder'
  BY <1>u DEF Inv, InOrder, IdsOwn, NewsInOrder, Alive
<1>11. EnoughNumbers'
  <2>1. Used' = Used /\ Used \subseteq Conn
    BY <1>u DEF Used
  <2>. QED BY <1>t, <1>u, <1>8, <1>9, <2>1, FiniteParts DEF Inv, EnoughNumbers, Typed
<1>12. Fresh'
  <2>1. \A p \in Request : req'[p].sid = req[p].sid
    BY <1>1, <1>4 DEF s
  <2>2. \A k : Met(k)' <=> Met(k)
    BY <1>u DEF Met
  <2>3. \A p \in Request : req[p].sid # None => Met(req[p].sid)'
    <3>1. \A p \in Request : req[p].sid # None => req[p].sid \in Stored \/ \E d \in Conn : managed[d].sdk = req[p].sid
      BY DEF Inv, Fresh, Met
    <3>. QED BY <1>u, <2>1, <3>1 DEF Met
  <2>. QED BY <1>u, <2>1, <2>2, <2>3 DEF Inv, Fresh
<1>13. UnderNumber'
  <2>1. \A p \in Request : req'[p].pc = "dropping" => req'[p] = req[p]
    BY <1>1, <1>4
  <2>. QED BY <1>u, <2>1 DEF Inv, UnderNumber, Alive
<1>14. Purposes'
  <2>. SUFFICES ASSUME NEW p \in Request PROVE PurposeOf(p)'
    BY DEF Purposes
  <2>1. CASE p = r
    BY <1>t, <1>1, <1>2, <1>4, <2>1 DEF PurposeOf, s
  <2>2. CASE p # r
    <3>1. PurposeOf(p) /\ req'[p] = req[p]
      BY <1>4, <2>2 DEF Inv, Purposes
    <3>. QED BY <1>u, <3>1 DEF PurposeOf, Attached, NotSent
  <2>. QED BY <2>1, <2>2
<1>15. OneStarter'
  BY <1>1, <1>4 DEF Inv, OneStarter, Made
<1>16. CommandsAnswered'
  <2>1. ASSUME NEW d \in Conn
        PROVE  /\ \A i \in DOMAIN managed'[d].cmds : CommandOf(d, managed[d].cmds[i])'
               /\ OneEach(managed'[d].cmds)
    <3>1. /\ \A i \in DOMAIN managed[d].cmds : CommandOf(d, managed[d].cmds[i])
          /\ OneEach(managed[d].cmds)
      BY DEF Inv, CommandsAnswered
    <3>3. ASSUME NEW i \in DOMAIN managed[d].cmds, managed[d].cmds[i].by # None
          PROVE  LET p == managed[d].cmds[i].by IN p \in Request
      <4>1. managed[d].cmds[i] \in Command
        BY <1>t, ManagedParts, ElementOfSeq, LenProperties
      <4>. QED BY <4>1, <3>3 DEF Command
    <3>4. ASSUME NEW i \in DOMAIN managed'[d].cmds PROVE CommandOf(d, managed[d].cmds[i])'
      <4>1. CommandOf(d, managed[d].cmds[i]) /\ i \in DOMAIN managed[d].cmds
        BY <1>u, <3>1, <3>4
      <4>2. \A p \in Request : req[p].pc \in {"sending", "interrupting"} => req'[p] = req[p]
        BY <1>4
      <4>. QED BY <1>u, <3>3, <4>1, <4>2 DEF CommandOf
    <3>. QED BY <1>u, <3>1, <3>4
  <2>. QED BY <2>1 DEF CommandsAnswered, OneEach
<1>17. EvictionsMean'
  <2>1. ASSUME NEW e \in disconnecting, e.by # None PROVE req'[e.by].pc = "evicting"
    <3>1. e.by \in Request /\ req[e.by].pc = "evicting"
      BY <1>t, <2>1 DEF Inv, EvictionsMean, Typed, Evicting
    <3>. QED BY <1>4, <3>1
  <2>2. \A e \in disconnecting : sessions[e.id] \in {None, e.c} \/ e.id \in overlap'
    BY <1>o DEF Inv, EvictionsMean
  <2>. QED BY <1>u, <2>1, <2>2 DEF Inv, EvictionsMean
<1>18. LockedOut'
  <2>1. ASSUME NEW k \in Session \ overlap', NEW p \in Request, p # r, Holds(p, k)'
        PROVE  Holds(p, k) /\ req'[p] = req[p] /\ k \in Session \ overlap
    BY <1>4, <1>o, <2>1 DEF Holds
  <2>2. ASSUME NEW k \in Session \ overlap', Holds(r, k)'
        PROVE  k = s /\ n = locks[s] /\ sessions[s] = None /\ ~ Disconnecting(s)
    BY <1>1, <1>4, <1>o, <2>2 DEF Holds, Usable, s
  <2>3. ASSUME NEW k \in Session \ overlap', NEW p \in Request, Holds(p, k)'
        PROVE  /\ req'[p].lock = locks'[k]
               /\ req'[p].pc # "starting" => sessions'[k] = None /\ ~ Disconnecting(k)'
               /\ req'[p].pc = "starting" => /\ sessions'[k] \in {None, req'[p].c}
                                             /\ \A e \in disconnecting' : e.id = k => e.c = req'[p].c
    <3>1. CASE p = r
      BY <1>1, <1>4, <1>u, <2>2, <2>3, <3>1 DEF Disconnecting
    <3>2. CASE p # r
      BY <1>u, <2>1, <2>3, <3>2 DEF Inv, LockedOut, Disconnecting
    <3>. QED BY <3>1, <3>2
  <2>4. ASSUME NEW k \in Session \ overlap', NEW p \in Request, p # r, Holds(p, k)', Holds(r, k)' PROVE FALSE
    <3>1. k = s /\ n = locks[s]
      BY <2>2, <2>4
    <3>2. Holds(p, s) /\ req[p].lock = n
      BY <2>1, <2>4, <3>1 DEF Inv, LockedOut
    <3>. QED BY <3>2 DEF Locked, Holds, s
  <2>5. \A k \in Session \ overlap' : \A p1, p2 \in Request : Holds(p1, k)' /\ Holds(p2, k)' => p1 = p2
    BY <2>1, <2>4 DEF Inv, LockedOut
  <2>. QED BY <2>3, <2>5 DEF LockedOut
<1>19. RoomCounted'
  <2>1. Active' = Active /\ Active \subseteq Conn
    BY <1>u DEF Active, Disconnecting
  <2>2. Renamed' = Renamed /\ Renamed \subseteq Conn
    BY <1>t, <1>2, <1>o DEF Renamed
  <2>3. Limit \in Nat
    BY SessionBounds
  <2>. QED BY <1>u, <1>8, <1>9, <2>1, <2>2, <2>3, FiniteParts DEF Inv, RoomCounted
<1>20. OneActor'
  <2>1. ASSUME NEW d \in Conn, Alive(d)', sessions'[managed'[d].id] # d, d \notin Evicted'
        PROVE  managed'[d].id \in overlap' \/ \E p \in Request : At(p, "dropping")' /\ req'[p].c = d
    <3>1. Alive(d) /\ sessions[managed[d].id] # d /\ d \notin Evicted
      BY <1>u, <2>1 DEF Alive, Evicted
    <3>2. managed[d].id \in overlap \/ \E p \in Request : At(p, "dropping") /\ req[p].c = d
      BY <3>1 DEF Inv, OneActor
    <3>3. managed[d].id \in overlap' \/ \E p \in Request : req'[p].pc = "dropping" /\ req'[p].c = d
      BY <3>2, <1>4, <1>o DEF At
    <3>. QED BY <1>u, <3>3 DEF At
  <2>. QED BY <2>1 DEF OneActor
<1>. QED BY <1>6, <1>10, <1>11, <1>12, <1>13, <1>14, <1>15, <1>16, <1>17, <1>18, <1>19, <1>20 DEF Inv

LEMMA LookUpStep == ASSUME Inv, NEW r \in Request, LookUp(r) PROVE Inv'
<1>t. Typed /\ req[r].sid \in Session /\ req[r].pc = "looking"
  BY DEF Inv, Purposes, PurposeOf, LookUp, At
<1>l. locks[req[r].sid] \in Nat
  BY <1>t DEF Typed
<1>1. CASE Usable(req[r].sid)
  BY <1>t, <1>1, FastPath DEF LookUp
<1>2. CASE ~ Usable(req[r].sid) /\ ~ Locked(req[r].sid, locks[req[r].sid])
  <2>1. /\ Inside(r, locks[req[r].sid])
        /\ UNCHANGED << sessions, disconnecting, locks, row, late, begun, faults >>
    BY <1>2 DEF LookUp
  <2>. QED BY <1>t, <1>l, <1>2, <2>1, LetIn
<1>3. CASE ~ Usable(req[r].sid) /\ Locked(req[r].sid, locks[req[r].sid])
  BY <1>t, <1>3, Queues DEF LookUp
<1>. QED BY <1>1, <1>2, <1>3

LEMMA AcquireLockStep == ASSUME Inv, NEW r \in Request, AcquireLock(r) PROVE Inv'
<1>t. Typed /\ req[r].pc = "queued" /\ req[r].lock \in Nat
  BY DEF Inv, AcquireLock, At, Typed, Requested
<1>1. CASE Usable(req[r].sid)
  BY <1>t, <1>1, FastPath DEF AcquireLock, Recheck
<1>2. CASE ~ Usable(req[r].sid)
  <2>1. /\ Inside(r, req[r].lock) /\ ~ Locked(req[r].sid, req[r].lock)
        /\ UNCHANGED << sessions, disconnecting, locks, row, late, begun, faults >>
    BY <1>2 DEF AcquireLock, Recheck
  <2>. QED BY <1>t, <1>2, <2>1, LetIn
<1>. QED BY <1>1, <1>2

--------------------------------------------------------------------------------
(* Registry and objects when an eviction has ended, and what is registered then. *)

Ended(i) == \E e \in disconnecting \ disconnecting' : e.id = i

\* S and M are registry and objects when some evictions have ended.
Cleared(S, M) ==
  /\ S \in [Id -> Conn \union {None}] /\ M \in [Conn -> Managed]
  /\ disconnecting' \subseteq disconnecting
  /\ \A e \in disconnecting \ disconnecting' : S[e.id] = None /\ managed[e.c].actor = "over"
  /\ \A i \in Id : S[i] # sessions[i] => S[i] = None /\ Ended(i)
  /\ locks' \in [Session -> Nat] /\ \A s \in Session : locks'[s] # locks[s] => Ended(s)
  /\ \A c \in Conn : /\ M[c].actor = managed[c].actor /\ M[c].id = managed[c].id /\ M[c].sdk = managed[c].sdk
                     /\ M[c].proc = managed[c].proc /\ M[c].inbox = managed[c].inbox
                     /\ M[c].cmds = managed[c].cmds /\ M[c].timer = managed[c].timer
                     /\ managed[c].actor # "over" => M[c] = managed[c]
  /\ row' \in [Session -> {"absent"} \union Status]
  /\ \A s \in Session : row'[s] # "absent" <=> row[s] # "absent"
  /\ UNCHANGED << late, overlap, begun, faults >>

LEMMA ClearedParts ==
  ASSUME Inv, NEW S, NEW M, Cleared(S, M)
  PROVE  /\ \A d \in Conn : \A i \in Id : (S[i] = d /\ ~ \E e \in disconnecting' : e.id = i) => d \in Active
         /\ \A i \in Id : S[i] # None => S[i] = sessions[i] /\ M[S[i]].id = i /\ M[S[i]].actor # "none"
         /\ \A d \in Conn : (Alive(d) /\ S[managed[d].id] # d /\ d \notin Evicted') =>
              managed[d].id \in overlap \/ \E q \in Request : At(q, "dropping") /\ req[q].c = d
         /\ \A t \in Session \ overlap : \A q \in Request : Holds(q, t) =>
              /\ req[q].lock = locks'[t]
              /\ req[q].pc # "starting" => S[t] = None /\ ~ \E e \in disconnecting' : e.id = t
              /\ req[q].pc = "starting" => /\ S[t] \in {None, req[q].c}
                                           /\ \A e \in disconnecting' : e.id = t => e.c = req[q].c
         /\ \A e \in disconnecting' : S[e.id] \in {None, e.c} \/ e.id \in overlap
<1>t. Typed /\ None \notin Conn /\ Session \subseteq Id
  BY SessionAssumption DEF Inv, Id
<1>0. \A i \in Id : S[i] # None => S[i] = sessions[i] /\ S[i] \in Conn
  BY DEF Cleared
<1>1. \A i \in Id : S[i] # None => S[i] = sessions[i] /\ M[S[i]].id = i /\ M[S[i]].actor # "none"
  BY <1>0 DEF Cleared, Inv, IdsOwn
<1>2. ASSUME NEW d \in Conn, NEW i \in Id, S[i] = d, ~ \E e \in disconnecting' : e.id = i PROVE d \in Active
  <2>1. sessions[i] = d /\ managed[d].id = i
    BY <1>t, <1>0, <1>2 DEF Inv, IdsOwn
  <2>2. ASSUME NEW e \in disconnecting, e.id = i PROVE FALSE
    BY <1>t, <1>2, <2>2 DEF Cleared
  <2>. QED BY <2>1, <2>2 DEF Active, Disconnecting
<1>3. ASSUME NEW d \in Conn, Alive(d), S[managed[d].id] # d, d \notin Evicted'
      PROVE  managed[d].id \in overlap \/ \E q \in Request : At(q, "dropping") /\ req[q].c = d
  <2>0. managed[d].id \in Id /\ managed[d].actor # "over"
    BY <1>t, <1>3, ManagedParts DEF Inv, IdsOwn, Alive
  <2>1. d \notin Evicted
    BY <1>3, <2>0 DEF Evicted, Cleared
  <2>2. CASE sessions[managed[d].id] # d
    BY <1>3, <2>1, <2>2 DEF Inv, OneActor
  <2>3. CASE sessions[managed[d].id] = d
    <3>1. PICK e \in disconnecting \ disconnecting' : e.id = managed[d].id
      BY <1>3, <2>0, <2>3 DEF Cleared, Ended
    <3>2. e.c # d
      BY <2>0, <3>1 DEF Cleared
    <3>. QED BY <1>t, <2>3, <3>1, <3>2 DEF Inv, EvictionsMean
  <2>. QED BY <2>2, <2>3
<1>4. ASSUME NEW t \in Session \ overlap, NEW q \in Request, Holds(q, t)
      PROVE  /\ req[q].lock = locks'[t]
             /\ req[q].pc # "starting" => S[t] = None /\ ~ \E e \in disconnecting' : e.id = t
             /\ req[q].pc = "starting" => /\ S[t] \in {None, req[q].c}
                                          /\ \A e \in disconnecting' : e.id = t => e.c = req[q].c
  <2>1. /\ req[q].lock = locks[t]
        /\ req[q].pc # "starting" => sessions[t] = None /\ ~ Disconnecting(t)
        /\ req[q].pc = "starting" => /\ sessions[t] \in {None, req[q].c}
                                     /\ \A e \in disconnecting : e.id = t => e.c = req[q].c
    BY <1>4 DEF Inv, LockedOut
  <2>2. req[q].pc = "starting" => managed[req[q].c].actor = "starting"
    BY DEF Inv, Purposes, PurposeOf
  <2>3. ~ Ended(t)
    BY <2>1, <2>2 DEF Ended, Cleared, Disconnecting
  <2>4. locks'[t] = locks[t]
    BY <2>3 DEF Cleared
  <2>. QED BY <1>t, <1>0, <2>1, <2>4 DEF Cleared, Disconnecting
<1>5. ASSUME NEW e \in disconnecting' PROVE S[e.id] \in {None, e.c} \/ e.id \in overlap
  <2>1. e \in disconnecting /\ e.id \in Id
    BY <1>t DEF Cleared, Typed, Evicting
  <2>. QED BY <1>0, <2>1 DEF Inv, EvictionsMean
<1>. QED BY <1>1, <1>2, <1>3, <1>4, <1>5

\* An eviction has ended and nobody connects.
LEMMA Quits ==
  ASSUME Inv, NEW S, NEW M, Cleared(S, M), sessions' = S, managed' = M, req' \in [Request -> Requested],
         \A q \in Request : \/ req'[q] = req[q]
                            \/ /\ req[q].pc = "evicting" /\ req[q].op = "delete"
                               /\ req'[q] = [req[q] EXCEPT !.pc = "deleting"],
         \A e \in disconnecting' : e.by # None => req'[e.by] = req[e.by]
  PROVE  Inv'
<1>t. Typed /\ None \notin Conn /\ Session \subseteq Id /\ Conn \subseteq Id /\ Session \intersect Conn = {}
      /\ None \notin Session /\ None \notin Id
  BY SessionAssumption DEF Inv, Id
<1>m. \A c \in Conn : /\ managed'[c].actor = managed[c].actor /\ managed'[c].id = managed[c].id
                      /\ managed'[c].sdk = managed[c].sdk
                      /\ managed'[c].proc = managed[c].proc /\ managed'[c].inbox = managed[c].inbox
                      /\ managed'[c].cmds = managed[c].cmds /\ managed'[c].timer = managed[c].timer
                      /\ managed[c].actor # "over" => managed'[c] = managed[c]
  BY DEF Cleared
<1>u. disconnecting' \subseteq disconnecting /\ UNCHANGED << late, overlap, begun, faults >>
  BY DEF Cleared
<1>r. \A q \in Request :
        /\ req'[q].op = req[q].op /\ req'[q].sid = req[q].sid /\ req'[q].c = req[q].c
        /\ req'[q].meta = req[q].meta /\ req'[q].lock = req[q].lock
        /\ req'[q].pc = req[q].pc \/ (req[q].pc = "evicting" /\ req[q].op = "delete" /\ req'[q].pc = "deleting")
  <2>1. \A q \in Request : req[q] \in Requested
    BY <1>t, RequestParts
  <2>2. "deleting" \in RequestPc
    BY DEF RequestPc
  <2>3. ASSUME NEW q \in Request, req'[q] = [req[q] EXCEPT !.pc = "deleting"]
        PROVE  /\ req'[q].op = req[q].op /\ req'[q].sid = req[q].sid /\ req'[q].c = req[q].c
               /\ req'[q].meta = req[q].meta /\ req'[q].lock = req[q].lock /\ req'[q].pc = "deleting"
    BY <2>1, <2>2, <2>3, RequestMoves
  <2>. QED BY <2>3
<1>6. Typed'
  BY <1>t, <1>u DEF Typed, Cleared
<1>7. InOrder'
  BY <1>m DEF Inv, InOrder
<1>8. EnoughNumbers' /\ Freeing' \subseteq Freeing
  <2>1. Used' = Used /\ Opening' = Opening /\ Freeing' = Freeing
    BY <1>m, <1>r DEF Used, Opening, Freeing
  <2>. QED BY <2>1, <1>u DEF Inv, EnoughNumbers
<1>9. IdsOwn'
  <2>1. \A i \in Id : sessions'[i] # None => managed'[sessions'[i]].id = i /\ managed'[sessions'[i]].actor # "none"
    BY ClearedParts
  <2>. QED BY <1>m, <2>1 DEF Inv, IdsOwn, Alive
<1>10. NewsInOrder'
  BY <1>m DEF Inv, NewsInOrder
<1>11. Fresh'
  <2>1. \A k : Met(k) <=> k \in Stored \/ \E d \in Conn : managed'[d].sdk = k
    BY <1>m DEF Met
  <2>2. \A k \in Session : row'[k] # "absent" <=> row[k] # "absent"
    BY DEF Cleared
  <2>3. \A c \in Conn : managed[c].proc \in {"creating", "naming"} => managed[c].sdk \in Session
    BY <1>t, ManagedParts DEF Inv, IdsOwn
  <2>4. \A k \in Session : row'[k] # "absent" => Met(k)'
    BY <2>1, <2>2 DEF Inv, Fresh, Met
  <2>5. \A q \in Request : req'[q].sid # None => Met(req[q].sid)'
    <3>1. ASSUME NEW q \in Request, req'[q].sid # None
          PROVE  req'[q].sid \in Stored \/ \E d \in Conn : managed'[d].sdk = req'[q].sid
      <4>1. Met(req[q].sid) /\ req'[q].sid = req[q].sid
        BY <1>r, <3>1 DEF Inv, Fresh
      <4>. QED BY <2>1, <4>1
    <3>. QED BY <3>1 DEF Met
  <2>. QED BY <1>m, <1>r, <2>2, <2>3, <2>4, <2>5 DEF Inv, Fresh
<1>12. UnderNumber'
  <2>1. ASSUME NEW d \in Conn, sessions'[d] = d
        PROVE  /\ managed'[d].sdk # None => managed'[d].proc \in {"creating", "naming"}
               /\ Alive(d)' => managed'[d].status = "running"
    <3>1. sessions[d] = d
      BY <1>t, <2>1, ClearedParts
    <3>. QED BY <1>m, <3>1 DEF Inv, UnderNumber, Alive
  <2>2. ASSUME NEW q \in Request, req'[q].pc = "dropping" PROVE sessions'[req'[q].c] # req'[q].c
    <3>1. req[q].pc = "dropping" /\ req'[q].c = req[q].c
      BY <1>r, <2>2
    <3>2. req[q].c \in Conn /\ sessions[req[q].c] # req[q].c
      BY <3>1 DEF Inv, UnderNumber, Purposes, PurposeOf, Attached
    <3>. QED BY <1>t, <3>1, <3>2, ClearedParts
  <2>. QED BY <2>1, <2>2 DEF UnderNumber
<1>13. Purposes'
  <2>. SUFFICES ASSUME NEW q \in Request PROVE PurposeOf(q)'
    BY DEF Purposes
  <2>1. PurposeOf(q) /\ req'[q].c = req[q].c
    BY <1>r DEF Inv, Purposes
  <2>2. Attached(q) => /\ Attached(q)' /\ managed'[req[q].c].actor = managed[req[q].c].actor
                       /\ managed'[req[q].c].id = managed[req[q].c].id
                       /\ NotSent(req[q].c) => NotSent(req[q].c)'
    BY <1>m, <2>1 DEF Attached, NotSent
  <2>. QED BY <1>r, <2>1, <2>2 DEF PurposeOf, Attached
<1>14. OneStarter'
  BY <1>r DEF Inv, OneStarter, Made
<1>15. CommandsAnswered'
  <2>1. ASSUME NEW d \in Conn
        PROVE  /\ \A i \in DOMAIN managed'[d].cmds : CommandOf(d, managed[d].cmds[i])'
               /\ OneEach(managed'[d].cmds)
    <3>1. /\ \A i \in DOMAIN managed[d].cmds : CommandOf(d, managed[d].cmds[i])
          /\ OneEach(managed[d].cmds)
      BY DEF Inv, CommandsAnswered
    <3>2. managed'[d].cmds = managed[d].cmds
      BY <1>m
    <3>3. ASSUME NEW i \in DOMAIN managed[d].cmds, managed[d].cmds[i].by # None
          PROVE  LET p == managed[d].cmds[i].by IN p \in Request
      <4>1. managed[d].cmds[i] \in Command
        BY <1>t, ManagedParts, ElementOfSeq, LenProperties
      <4>. QED BY <4>1, <3>3 DEF Command
    <3>4. ASSUME NEW i \in DOMAIN managed'[d].cmds PROVE CommandOf(d, managed[d].cmds[i])'
      <4>1. CommandOf(d, managed[d].cmds[i]) /\ i \in DOMAIN managed[d].cmds
        BY <3>1, <3>2, <3>4
      <4>2. \A p \in Request : req[p].pc \in {"sending", "interrupting"} => req'[p].pc = req[p].pc /\ req'[p].c = req[p].c
        BY <1>r
      <4>. QED BY <3>2, <3>3, <4>1, <4>2 DEF CommandOf
    <3>. QED BY <3>1, <3>2, <3>4
  <2>. QED BY <2>1 DEF CommandsAnswered, OneEach
<1>16. EvictionsMean'
  <2>1. ASSUME NEW e \in disconnecting'
        PROVE  /\ managed'[e.c].actor # "none"
               /\ e.id \in Conn => e.c = e.id
               /\ e.id \in Session => managed'[e.c].sdk = e.id
               /\ e.step \in {"drain", "persist"} => managed'[e.c].actor = "over"
               /\ e.by # None => req'[e.by].pc = "evicting"
               /\ sessions'[e.id] \in {None, e.c} \/ e.id \in overlap'
    <3>1. e \in disconnecting /\ e.c \in Conn
      BY <1>t, <1>u DEF Typed, Evicting
    <3>2. sessions'[e.id] \in {None, e.c} \/ e.id \in overlap'
      BY <1>u, ClearedParts
    <3>. QED BY <1>m, <3>1, <3>2 DEF Inv, EvictionsMean
  <2>. QED BY <1>u, <2>1 DEF Inv, EvictionsMean
<1>17. LockedOut'
  <2>1. \A k : \A q \in Request : Holds(q, k)' => Holds(q, k)
                                                /\ (req'[q].pc = "starting" <=> req[q].pc = "starting")
    BY <1>r DEF Holds
  <2>2. ASSUME NEW k \in Session \ overlap', NEW q \in Request, Holds(q, k)'
        PROVE  /\ req'[q].lock = locks'[k]
               /\ req'[q].pc # "starting" => sessions'[k] = None /\ ~ Disconnecting(k)'
               /\ req'[q].pc = "starting" => /\ sessions'[k] \in {None, req'[q].c}
                                             /\ \A e \in disconnecting' : e.id = k => e.c = req'[q].c
    <3>1. Holds(q, k) /\ k \in Session \ overlap
      BY <1>u, <2>1, <2>2
    <3>2. /\ req[q].lock = locks'[k]
          /\ req[q].pc # "starting" => S[k] = None /\ ~ \E e \in disconnecting' : e.id = k
          /\ req[q].pc = "starting" => /\ S[k] \in {None, req[q].c}
                                       /\ \A e \in disconnecting' : e.id = k => e.c = req[q].c
      BY <3>1, ClearedParts
    <3>. QED BY <1>r, <2>1, <2>2, <3>2 DEF Disconnecting
  <2>3. \A k \in Session \ overlap' : \A p1, p2 \in Request : Holds(p1, k)' /\ Holds(p2, k)' => p1 = p2
    BY <1>u, <2>1 DEF Inv, LockedOut
  <2>. QED BY <2>2, <2>3 DEF LockedOut
<1>18. RoomCounted'
  <2>1. Active' \subseteq Active /\ Active \subseteq Conn
    <3>1. ASSUME NEW d \in Active' PROVE d \in Active
      <4>1. PICK i \in Id : sessions'[i] = d /\ ~ Disconnecting(managed[d].id)'
        BY DEF Active
      <4>2. d \in Conn /\ managed'[d].id = i
        BY <1>t, <4>1, ClearedParts DEF Active
      <4>. QED BY <4>1, <4>2, ClearedParts DEF Disconnecting
    <3>. QED BY <3>1 DEF Active
  <2>2. Renamed' = Renamed /\ Renamed \subseteq Conn /\ Freeing \subseteq Request
    BY <1>u DEF Renamed, Freeing
  <2>3. Cardinality(Active') <= Cardinality(Active) /\ Cardinality(Freeing') <= Cardinality(Freeing)
        /\ Active' \subseteq Conn /\ Freeing' \subseteq Request
    BY <1>8, <2>1, <2>2, FiniteParts, FS_Subset
  <2>4. Limit \in Nat
    BY SessionBounds
  <2>. QED BY <1>m, <2>1, <2>2, <2>3, <2>4, FiniteParts DEF Inv, RoomCounted
<1>19. OneActor'
  <2>1. ASSUME NEW d \in Conn, Alive(d)', sessions'[managed'[d].id] # d, d \notin Evicted'
        PROVE  managed'[d].id \in overlap' \/ \E q \in Request : At(q, "dropping")' /\ req'[q].c = d
    <3>1. Alive(d) /\ S[managed[d].id] # d /\ managed'[d].id = managed[d].id
      BY <1>m, <2>1 DEF Alive
    <3>2. managed[d].id \in overlap \/ \E q \in Request : At(q, "dropping") /\ req[q].c = d
      BY <3>1, <2>1, ClearedParts
    <3>3. managed[d].id \in overlap' \/ \E q \in Request : req'[q].pc = "dropping" /\ req'[q].c = d
      BY <1>r, <1>u, <3>2 DEF At
    <3>. QED BY <3>1, <3>3 DEF At
  <2>. QED BY <2>1 DEF OneActor
<1>. QED BY <1>6, <1>7, <1>8, <1>9, <1>10, <1>11, <1>12, <1>13, <1>14, <1>15, <1>16, <1>17, <1>18, <1>19 DEF Inv

LEMMA NextNumber ==
  ASSUME Inv, Opening # {}
  PROVE  LET c == Cardinality(Used) + 1 IN
         /\ c \in Conn /\ managed[c].actor = "none"
         /\ \A d \in Conn : managed[d].actor = "none" /\ d # c => d > c
         /\ \A d \in Conn : d > c => managed[d].actor = "none"
<1>. DEFINE k == Cardinality(Used)
<1>1. Used \in SUBSET (1 .. MaxBegun) /\ MaxBegun \in Nat /\ Opening \subseteq Request
  BY SessionBounds DEF Used, Conn, Opening
<1>2. \A n \in Used : \A j \in 1 .. n : j \in Used
  <2>. SUFFICES ASSUME NEW n \in Used, NEW j \in 1 .. n, managed[j].actor = "none" PROVE FALSE
    BY <1>1 DEF Used, Conn
  <2>1. j \in Conn /\ n \in Conn /\ (n > j \/ n = j) /\ managed[n].actor # "none"
    BY <1>1 DEF Conn, Used
  <2>. QED BY <2>1 DEF Inv, InOrder
<1>3. k \in Nat /\ k <= MaxBegun /\ Used = 1 .. k
  BY <1>1, <1>2, PrefixIsInterval
<1>4. Cardinality(Opening) \in Nat /\ Cardinality(Opening) > 0
  BY <1>1, FiniteParts, FS_EmptySet
<1>5. k + 1 <= MaxBegun
  <2>1. k + Cardinality(Opening) <= begun /\ begun \in Nat /\ begun <= MaxBegun
    BY DEF Inv, EnoughNumbers, Typed
  <2>. HIDE DEF k
  <2>. QED BY <1>1, <1>3, <1>4, <2>1
<1>. HIDE DEF k
<1>6. k + 1 \in Conn /\ \A d \in Conn : (d \in Used <=> d < k + 1) /\ d \in Nat
  BY <1>1, <1>3, <1>5 DEF Conn
<1>7. \A d \in Conn : managed[d].actor = "none" <=> ~ d < k + 1
  BY <1>6 DEF Used
<1>8. /\ k + 1 \in Conn /\ managed[k + 1].actor = "none"
      /\ \A d \in Conn : managed[d].actor = "none" /\ d # k + 1 => d > k + 1
      /\ \A d \in Conn : d > k + 1 => managed[d].actor = "none"
  BY <1>3, <1>6, <1>7
<1>. QED BY <1>8 DEF k

\* A session is registered, and connects.
LEMMA Opens ==
  ASSUME Inv, NEW S, NEW M, NEW r \in Opening, Cleared(S, M), Open(r, S, M),
         req[r].pc \in {"capacity", "evicting"}, \A f \in disconnecting' : f.by # r,
         Cardinality(Active) + Cardinality(Freeing \ {r}) + 1
           < Limit + Cardinality(Request) + Cardinality(Renamed)
  PROVE  Inv'
<1>t. Typed /\ None \notin Conn /\ Session \subseteq Id /\ Conn \subseteq Id /\ Session \intersect Conn = {}
      /\ None \notin Session /\ None \notin Id /\ r \in Request
  BY SessionAssumption DEF Inv, Id, Opening
<1>. PICK q \in Requested : q = req[r]
  BY <1>t, RequestParts
<1>p. q.op \in {"send", "new"} /\ (q.op = "send" => q.sid \in Session /\ q.meta \in Status)
  BY <1>t DEF Inv, Purposes, PurposeOf, Opening
<1>. PICK c \in Conn : /\ c = Cardinality(Used) + 1 /\ managed[c].actor = "none"
                       /\ \A d \in Conn : managed[d].actor = "none" /\ d # c => d > c
                       /\ \A d \in Conn : d > c => managed[d].actor = "none"
  BY NextNumber
<1>. PICK i \in Id : i = IF q.op = "new" THEN c ELSE q.sid
  BY <1>t, <1>p
<1>. PICK w \in Status : w = IF q.op = "new" THEN "running" ELSE Resumed(q.meta)
  BY <1>p DEF Resumed, Status, Settled
<1>. PICK k \in Session \union {None} : k = IF q.op = "new" THEN None ELSE i
  BY <1>p
<1>. DEFINE m == [Blank EXCEPT !.id = i, !.actor = "starting", !.sdk = k, !.status = w]
            g == [q EXCEPT !.pc = "starting", !.c = c]
<1>1. /\ m \in Managed /\ m.id = i /\ m.actor = "starting" /\ m.sdk = k /\ m.status = w
      /\ m.cmds = << >> /\ m.inbox = << >> /\ m.proc = "off" /\ m.timer = FALSE
  BY EmptySeq DEF Blank, Managed, ProcState
<1>2. /\ g \in Requested /\ g.pc = "starting" /\ g.op = q.op /\ g.sid = q.sid /\ g.c = c /\ g.meta = q.meta
      /\ g.lock = q.lock
  BY DEF Requested, RequestPc
<1>3. sessions' = [S EXCEPT ![i] = c] /\ managed' = [M EXCEPT ![c] = m] /\ req' = [req EXCEPT ![r] = g]
  <2>1. req' = [req EXCEPT ![r].pc = "starting", ![r].c = c]
    BY DEF Open
  <2>2. sessions' = [S EXCEPT ![i] = c] /\ managed' = [M EXCEPT ![c] = m]
    BY DEF Open
  <2>. QED BY <1>t, <2>1, <2>2 DEF Typed
<1>. HIDE DEF m, g
<1>4. /\ sessions' \in [Id -> Conn \union {None}] /\ sessions'[i] = c
      /\ \A j \in Id : j # i => sessions'[j] = S[j]
      /\ managed' \in [Conn -> Managed] /\ managed'[c] = m
      /\ \A d \in Conn : d # c => managed'[d] = M[d]
      /\ req' \in [Request -> Requested] /\ req'[r] = g
      /\ \A p \in Request : p # r => req'[p] = req[p]
  BY <1>t, <1>1, <1>2, <1>3 DEF Cleared, Typed
<1>m. \A d \in Conn : d # c =>
        /\ managed'[d].actor = managed[d].actor /\ managed'[d].id = managed[d].id
        /\ managed'[d].sdk = managed[d].sdk
        /\ managed'[d].proc = managed[d].proc /\ managed'[d].inbox = managed[d].inbox
        /\ managed'[d].cmds = managed[d].cmds /\ managed'[d].timer = managed[d].timer
        /\ managed[d].actor # "over" => managed'[d] = managed[d]
  BY <1>4 DEF Cleared
<1>b. managed[c] = Blank /\ managed[c].sdk = None /\ managed[c].id = None /\ managed[c].proc = "off"
      /\ managed[c].cmds = << >>
  <2>1. managed[c] = Blank
    BY DEF Inv, InOrder
  <2>. QED BY <2>1 DEF Blank
<1>u. disconnecting' \subseteq disconnecting /\ UNCHANGED << late, overlap, begun, faults >>
  BY DEF Cleared
<1>a. \A p \in Request : Attached(p) => req[p].c # c
  BY DEF Attached
<1>s. /\ \A j \in Id : S[j] # None => S[j] = sessions[j] /\ managed[S[j]].id = j
                                      /\ managed[S[j]].actor # "none" /\ S[j] \in Conn
      /\ S[c] = None
  <2>1. \A j \in Id : S[j] # None => S[j] = sessions[j] /\ M[S[j]].id = j /\ M[S[j]].actor # "none" /\ S[j] \in Conn
    BY ClearedParts DEF Cleared
  <2>2. \A j \in Id : S[j] # None => S[j] = sessions[j] /\ managed[S[j]].id = j
                                      /\ managed[S[j]].actor # "none" /\ S[j] \in Conn
    BY <2>1 DEF Cleared
  <2>3. S[c] = None
    <3>. SUFFICES ASSUME S[c] # None PROVE FALSE
      OBVIOUS
    <3>1. S[c] \in Conn /\ managed[S[c]].id = c /\ managed[S[c]].actor # "none"
      BY <1>t, <2>2
    <3>2. \A d \in Conn : managed[d].id \in Conn => managed[d].id = d
      BY DEF Inv, IdsOwn
    <3>3. S[c] = c
      BY <3>1, <3>2
    <3>. QED BY <3>1, <3>3
  <2>. QED BY <2>2, <2>3
\* Nothing is under the id that it gets, if it kept to the order.
<1>l. i \notin overlap => S[i] = None /\ ~ \E e \in disconnecting' : e.id = i
  <2>1. CASE q.op = "new"
    <3>1. \A e \in disconnecting : e.id # c
      BY <1>t DEF Inv, EvictionsMean
    <3>. QED BY <1>s, <1>u, <2>1, <3>1
  <2>2. CASE q.op = "send"
    <3>1. Holds(r, q.sid) /\ i = q.sid /\ q.sid \in Session
      BY <1>p, <2>2 DEF Holds
    <3>. QED BY <1>t, <3>1, ClearedParts
  <2>. QED BY <1>p, <2>1, <2>2
<1>6. Typed'
  BY <1>t, <1>4, <1>u DEF Typed, Cleared
<1>7. InOrder'
  <2>1. ASSUME NEW d \in Conn, managed'[d].actor = "none"
        PROVE  managed'[d] = Blank /\ \A x \in Conn : x > d => managed'[x].actor = "none"
    <3>1. d # c /\ managed[d].actor = "none" /\ managed'[d] = managed[d] /\ d > c
      BY <1>1, <1>4, <1>m, <2>1
    <3>2. \A x \in Conn : x > d => managed[x].actor = "none" /\ x # c
      BY <3>1 DEF Inv, InOrder, Conn
    <3>. QED BY <1>m, <3>1, <3>2 DEF Inv, InOrder
  <2>. QED BY <2>1 DEF InOrder
<1>8. EnoughNumbers' /\ Freeing' \subseteq Freeing \ {r}
  <2>1. Used' = Used \union {c} /\ c \notin Used /\ Used \subseteq Conn
    BY <1>1, <1>4, <1>m DEF Used
  <2>2. Opening' = Opening \ {r} /\ Opening \subseteq Request /\ Freeing' \subseteq Freeing \ {r}
    BY <1>2, <1>4 DEF Opening, Freeing
  <2>3. Cardinality(Used') = Cardinality(Used) + 1
    BY <2>1, FiniteParts, FS_AddElement
  <2>4. Cardinality(Opening') = Cardinality(Opening) - 1
    BY <2>2, FiniteParts, FS_RemoveElement
  <2>5. /\ Cardinality(Used) + Cardinality(Opening) <= begun /\ begun \in Nat
        /\ Cardinality(Used) \in Nat /\ Cardinality(Opening) \in Nat
    BY <1>t, <2>1, <2>2, FiniteParts DEF Inv, EnoughNumbers, Typed
  <2>6. Cardinality(Used') + Cardinality(Opening') <= begun'
    BY <1>u, <2>3, <2>4, <2>5
  <2>. QED BY <2>2, <2>6 DEF EnoughNumbers
<1>9. IdsOwn'
  <2>1. ASSUME NEW d \in Conn
        PROVE  /\ managed'[d].id \in Conn => managed'[d].id = d
               /\ managed'[d].id \in Session => managed'[d].sdk = managed'[d].id
               /\ Alive(d)' \/ managed'[d].timer \/ managed'[d].proc \notin {"off", "over"} => managed'[d].id # None
               /\ managed'[d].actor \in {"none", "starting"} => managed'[d].proc = "off"
               /\ managed'[d].actor = "starting" /\ managed'[d].id \in Conn => managed'[d].sdk = None
               /\ managed'[d].proc \in {"creating", "naming"} => managed'[d].sdk # None /\ managed'[d].id \notin Session
    <3>1. CASE d = c
      BY <1>t, <1>p, <1>1, <1>4, <3>1
    <3>2. CASE d # c
      BY <1>m, <3>2 DEF Inv, IdsOwn, Alive
    <3>. QED BY <3>1, <3>2
  <2>2. ASSUME NEW j \in Id, sessions'[j] # None
        PROVE  managed'[sessions'[j]].id = j /\ managed'[sessions'[j]].actor # "none"
    <3>1. CASE j = i
      BY <1>1, <1>4, <3>1
    <3>2. CASE j # i
      <4>1. sessions'[j] = S[j] /\ S[j] # None
        BY <1>4, <2>2, <3>2
      <4>2. S[j] \in Conn /\ managed[S[j]].id = j /\ managed[S[j]].actor # "none"
        BY <1>s, <4>1
      <4>3. S[j] # c
        BY <4>2
      <4>. QED BY <1>m, <4>1, <4>2, <4>3
    <3>. QED BY <3>1, <3>2
  <2>. QED BY <2>1, <2>2 DEF IdsOwn
<1>10. NewsInOrder'
  <2>1. ASSUME NEW d \in Conn
        PROVE  /\ \A n \in DOMAIN managed'[d].inbox :
                    /\ managed'[d].inbox[n] = "init" => n = 1 /\ managed'[d].sdk = None
                    /\ managed'[d].inbox[n] \in Settled => managed'[d].sdk # None
               /\ managed'[d].proc = "finalizing" => managed'[d].inbox # << >> /\ managed'[d].inbox[1] \in Settled
    <3>1. CASE d = c
      <4>1. DOMAIN managed'[d].inbox = {}
        BY <1>1, <1>4, <3>1, EmptySeq
      <4>. QED BY <1>1, <1>4, <3>1, <4>1
    <3>2. CASE d # c
      BY <1>m, <3>2 DEF Inv, NewsInOrder
    <3>. QED BY <3>1, <3>2
  <2>. QED BY <2>1 DEF NewsInOrder
<1>11. Fresh'
  <2>1. ASSUME NEW j \in Session, Met(j) PROVE j \in Stored \/ \E d \in Conn : managed'[d].sdk = j
    BY <1>t, <1>m, <1>b, <2>1 DEF Met
  <2>2. \A j \in Session : row'[j] # "absent" <=> row[j] # "absent"
    BY DEF Cleared
  <2>3. \A p \in Request : req'[p].sid = req[p].sid /\ req[p].sid \in Session \union {None}
    BY <1>t, <1>2, <1>4, RequestParts
  <2>4. \A j \in Session : row'[j] # "absent" => Met(j)'
    BY <2>1, <2>2 DEF Inv, Fresh, Met
  <2>5. \A p \in Request : req'[p].sid # None => Met(req[p].sid)'
    <3>1. \A p \in Request : req'[p].sid # None =>
            req'[p].sid \in Stored \/ \E d \in Conn : managed'[d].sdk = req'[p].sid
      BY <2>1, <2>3 DEF Inv, Fresh
    <3>. QED BY <3>1 DEF Met
  <2>6. ASSUME NEW d \in Conn, managed'[d].proc \in {"creating", "naming"}
        PROVE  /\ managed'[d].proc = "creating" => row'[managed'[d].sdk] = "absent"
               /\ \A e \in Conn : managed'[e].sdk = managed'[d].sdk => e = d
               /\ \A p \in Request : req'[p].sid # managed'[d].sdk
    <3>1. d # c /\ managed[d].proc \in {"creating", "naming"} /\ managed'[d].sdk = managed[d].sdk
      BY <1>1, <1>4, <1>m, <2>6
    <3>2. managed[d].sdk \in Session /\ \A p \in Request : req[p].sid # managed[d].sdk
      BY <1>t, <3>1, ManagedParts DEF Inv, IdsOwn, Fresh
    <3>3. managed'[c].sdk # managed[d].sdk
      BY <1>t, <1>p, <1>1, <1>4, <3>2
    <3>4. \A e \in Conn : managed'[e].sdk = managed[d].sdk => e = d
      BY <1>m, <3>1, <3>3 DEF Inv, Fresh
    <3>5. managed[d].proc = "creating" => row'[managed[d].sdk] = "absent"
      BY <2>2, <3>2 DEF Inv, Fresh
    <3>. QED BY <1>m, <2>3, <3>1, <3>2, <3>4, <3>5
  <2>. QED BY <2>4, <2>5, <2>6 DEF Fresh
<1>12. UnderNumber'
  <2>1. ASSUME NEW d \in Conn, sessions'[d] = d
        PROVE  /\ managed'[d].sdk # None => managed'[d].proc \in {"creating", "naming"}
               /\ Alive(d)' => managed'[d].status = "running"
    <3>1. CASE d = c
      <4>1. i = c
        BY <1>t, <1>4, <1>s, <2>1, <3>1
      <4>2. q.op = "new"
        BY <1>t, <1>p, <4>1
      <4>. QED BY <1>1, <1>4, <3>1, <4>2
    <3>2. CASE d # c
      <4>1. sessions[d] = d
        BY <1>t, <1>4, <1>s, <2>1, <3>2
      <4>. QED BY <1>m, <3>2, <4>1 DEF Inv, UnderNumber, Alive
    <3>. QED BY <3>1, <3>2
  <2>2. ASSUME NEW p \in Request, req'[p].pc = "dropping" PROVE sessions'[req'[p].c] # req'[p].c
    <3>1. p # r /\ req'[p] = req[p]
      BY <1>2, <1>4, <2>2
    <3>2. req[p].c \in Conn /\ sessions[req[p].c] # req[p].c /\ req[p].c # c
      BY <1>a, <2>2, <3>1 DEF Inv, UnderNumber, Purposes, PurposeOf, Attached
    <3>3. S[req[p].c] # req[p].c
      BY <1>t, <1>s, <3>2
    <3>. QED BY <1>t, <1>4, <3>1, <3>2, <3>3
  <2>. QED BY <2>1, <2>2 DEF UnderNumber
<1>13. Purposes'
  <2>. SUFFICES ASSUME NEW p \in Request PROVE PurposeOf(p)'
    BY DEF Purposes
  <2>1. CASE p = r
    <3>1. NotSent(c)' \/ q.op = "send"
      <4>1. DOMAIN managed'[c].inbox = {}
        BY <1>1, <1>4, EmptySeq
      <4>. QED BY <1>p, <1>1, <1>4, <4>1 DEF NotSent
    <3>2. /\ req'[r].pc = "starting" /\ req'[r].op = q.op /\ req'[r].sid = q.sid /\ req'[r].c = c
          /\ req'[r].meta = q.meta
      BY <1>2, <1>4
    <3>3. managed'[c].actor = "starting" /\ managed'[c].id = i
      BY <1>1, <1>4
    <3>4. q.op = "new" => q.sid = None
      BY <1>t DEF Inv, Purposes, PurposeOf
    <3>5. NotSent(req[r].c)' \/ q.op = "send"
      BY <3>1, <3>2
    <3>. QED BY <1>p, <2>1, <3>2, <3>3, <3>4, <3>5 DEF PurposeOf, Attached
  <2>2. CASE p # r
    <3>1. PurposeOf(p) /\ req'[p] = req[p]
      BY <1>4, <2>2 DEF Inv, Purposes
    <3>2. Attached(p) => /\ Attached(p)' /\ managed'[req[p].c].actor = managed[req[p].c].actor
                         /\ managed'[req[p].c].id = managed[req[p].c].id
                         /\ NotSent(req[p].c) => NotSent(req[p].c)'
      BY <1>a, <1>m, <3>1 DEF Attached, NotSent
    <3>. QED BY <3>1, <3>2 DEF PurposeOf, Attached
  <2>. QED BY <2>1, <2>2
<1>14. OneStarter'
  <2>1. ASSUME NEW p \in Request, p # r, req'[p].pc = "starting" \/ Made(p)' PROVE req'[p].c # c
    <3>1. req'[p] = req[p]
      BY <1>4, <2>1
    <3>2. Attached(p)
      BY <2>1, <3>1 DEF Made, Inv, Purposes, PurposeOf
    <3>. QED BY <1>a, <3>1, <3>2
  <2>2. req'[r].c = c
    BY <1>2, <1>4
  <2>3. \A p \in Request : p # r => (Made(p)' <=> Made(p)) /\ req'[p] = req[p]
    BY <1>4 DEF Made
  <2>. QED BY <2>1, <2>2, <2>3 DEF Inv, OneStarter
<1>15. CommandsAnswered'
  <2>1. ASSUME NEW d \in Conn
        PROVE  /\ \A n \in DOMAIN managed'[d].cmds : CommandOf(d, managed[d].cmds[n])'
               /\ OneEach(managed'[d].cmds)
    <3>0. CASE d = c
      <4>1. DOMAIN managed'[d].cmds = {}
        BY <1>1, <1>4, <3>0, EmptySeq
      <4>. QED BY <4>1 DEF OneEach
    <3>9. CASE d # c
      <4>1. /\ \A n \in DOMAIN managed[d].cmds : CommandOf(d, managed[d].cmds[n])
            /\ OneEach(managed[d].cmds)
        BY DEF Inv, CommandsAnswered
      <4>2. managed'[d].cmds = managed[d].cmds
        BY <1>m, <3>9
      <4>3. ASSUME NEW n \in DOMAIN managed[d].cmds, managed[d].cmds[n].by # None
            PROVE  LET p == managed[d].cmds[n].by IN p \in Request
        <5>1. managed[d].cmds[n] \in Command
          BY <1>t, ManagedParts, ElementOfSeq, LenProperties
        <5>. QED BY <5>1, <4>3 DEF Command
      <4>4. ASSUME NEW n \in DOMAIN managed'[d].cmds PROVE CommandOf(d, managed[d].cmds[n])'
        <5>1. CommandOf(d, managed[d].cmds[n]) /\ n \in DOMAIN managed[d].cmds
          BY <4>1, <4>2, <4>4
        <5>2. \A p \in Request : req[p].pc \in {"sending", "interrupting"} => req'[p] = req[p]
          BY <1>4
        <5>. QED BY <4>2, <4>3, <5>1, <5>2 DEF CommandOf
      <4>. QED BY <4>1, <4>2, <4>4
    <3>. QED BY <3>0, <3>9
  <2>. QED BY <2>1 DEF CommandsAnswered, OneEach
<1>16. EvictionsMean'
  <2>1. ASSUME NEW e \in disconnecting'
        PROVE  /\ managed'[e.c].actor # "none"
               /\ e.id \in Conn => e.c = e.id
               /\ e.id \in Session => managed'[e.c].sdk = e.id
               /\ e.step \in {"drain", "persist"} => managed'[e.c].actor = "over"
               /\ e.by # None => req'[e.by].pc = "evicting"
               /\ sessions'[e.id] \in {None, e.c} \/ e.id \in overlap'
    <3>1. e \in disconnecting /\ e.c \in Conn /\ e.id \in Id /\ e.by \in Request \union {None} /\ e.by # r
      BY <1>t, <1>u DEF Typed, Evicting
    <3>2. e.c # c
      BY <3>1 DEF Inv, EvictionsMean
    <3>3. sessions'[e.id] \in {None, e.c} \/ e.id \in overlap'
      <4>1. CASE e.id = i
        BY <1>l, <1>u, <4>1
      <4>2. CASE e.id # i
        BY <1>4, <1>u, <3>1, <4>2, ClearedParts
      <4>. QED BY <4>1, <4>2
    <3>4. e.by # None => req'[e.by].pc = "evicting"
      BY <1>4, <3>1 DEF Inv, EvictionsMean
    <3>. QED BY <1>m, <3>1, <3>2, <3>3, <3>4 DEF Inv, EvictionsMean
  <2>. QED BY <1>u, <2>1 DEF Inv, EvictionsMean
<1>17. LockedOut'
  <2>1. \A j : \A p \in Request : Holds(p, j)' => Holds(p, j)
    BY <1>t, <1>2, <1>4 DEF Holds
  <2>2. ASSUME NEW j \in Session \ overlap', NEW p \in Request, Holds(p, j)'
        PROVE  /\ req'[p].lock = locks'[j]
               /\ req'[p].pc # "starting" => sessions'[j] = None /\ ~ Disconnecting(j)'
               /\ req'[p].pc = "starting" => /\ sessions'[j] \in {None, req'[p].c}
                                             /\ \A e \in disconnecting' : e.id = j => e.c = req'[p].c
    <3>1. Holds(p, j) /\ j \in Session \ overlap /\ j \in Id
      BY <1>t, <1>u, <2>1, <2>2
    <3>2. /\ req[p].lock = locks'[j]
          /\ req[p].pc # "starting" => S[j] = None /\ ~ \E e \in disconnecting' : e.id = j
          /\ req[p].pc = "starting" => /\ S[j] \in {None, req[p].c}
                                       /\ \A e \in disconnecting' : e.id = j => e.c = req[p].c
      BY <3>1, ClearedParts
    <3>3. CASE p = r
      <4>1. j = i /\ req'[p].pc = "starting" /\ req'[p].c = c /\ req'[p].lock = req[p].lock
        BY <1>2, <1>4, <2>2, <3>3 DEF Holds
      <4>. QED BY <1>4, <1>l, <3>1, <3>2, <4>1
    <3>4. CASE p # r
      <4>1. j # i
        <5>1. CASE q.op = "new"
          BY <1>t, <3>1, <5>1
        <5>2. CASE q.op = "send"
          <6>1. Holds(r, i) /\ i = q.sid
            BY <5>2 DEF Holds
          <6>. QED BY <1>t, <3>1, <3>4, <6>1 DEF Inv, LockedOut
        <5>. QED BY <1>p, <5>1, <5>2
      <4>2. req'[p] = req[p] /\ sessions'[j] = S[j]
        BY <1>4, <3>1, <3>4, <4>1
      <4>. QED BY <3>2, <4>2 DEF Disconnecting
    <3>. QED BY <3>3, <3>4
  <2>3. \A j \in Session \ overlap' : \A p1, p2 \in Request : Holds(p1, j)' /\ Holds(p2, j)' => p1 = p2
    BY <1>u, <2>1 DEF Inv, LockedOut
  <2>. QED BY <2>2, <2>3 DEF LockedOut
<1>18. RoomCounted'
  <2>active. Active' \subseteq Active \union {c} /\ Active \subseteq Conn /\ Active' \subseteq Conn
    <3>1. ASSUME NEW d \in Active', d # c PROVE d \in Active
      <4>1. PICK j \in Id : sessions'[j] = d /\ ~ Disconnecting(managed[d].id)'
        BY DEF Active
      <4>2. d \in Conn /\ S[j] = d
        BY <1>4, <3>1, <4>1 DEF Active
      <4>3. managed'[d].id = j
        BY <1>t, <1>s, <1>m, <3>1, <4>2
      <4>. QED BY <4>1, <4>2, <4>3, ClearedParts DEF Disconnecting
    <3>. QED BY <3>1 DEF Active
  <2>parts. Renamed' = Renamed /\ Renamed \subseteq Conn /\ Freeing \subseteq Request /\ Freeing \ {r} \subseteq Request
    BY <1>u DEF Renamed, Freeing
  <2>freeing. Cardinality(Freeing') <= Cardinality(Freeing \ {r}) /\ Freeing' \subseteq Request
    BY <1>8, <2>parts, FiniteParts, FS_Subset
  <2>count. Cardinality(Active') <= Cardinality(Active) + 1
    <3>1. IsFiniteSet(Active) /\ Cardinality(Active) \in Nat
      BY <2>active, FiniteParts
    <3>2. /\ IsFiniteSet(Active \union {c})
          /\ Cardinality(Active \union {c}) \in {Cardinality(Active), Cardinality(Active) + 1}
      BY <3>1, FS_AddElement
    <3>3. Cardinality(Active') <= Cardinality(Active \union {c}) /\ Cardinality(Active') \in Nat
      BY <2>active, <3>2, FiniteParts, FS_Subset
    <3>. QED BY <3>1, <3>2, <3>3
  <2>limit. Limit \in Nat
    BY SessionBounds
  <2>renamed. \A d \in Renamed' : managed'[d].id # d /\ managed'[d].actor # "none"
    <3>1. c \notin Renamed
      BY DEF Inv, RoomCounted
    <3>. QED BY <1>m, <2>parts, <3>1 DEF Inv, RoomCounted
  <2>sum. Cardinality(Active') + Cardinality(Freeing') < Limit + Cardinality(Request) + Cardinality(Renamed')
    BY <2>active, <2>parts, <2>freeing, <2>count, <2>limit, FiniteParts
  <2>. QED BY <2>renamed, <2>sum DEF RoomCounted
<1>19. OneActor'
  <2>1. ASSUME NEW d \in Conn, Alive(d)', sessions'[managed'[d].id] # d, d \notin Evicted'
        PROVE  managed'[d].id \in overlap' \/ \E p \in Request : At(p, "dropping")' /\ req'[p].c = d
    <3>1. d # c
      BY <1>1, <1>4, <2>1
    <3>2. Alive(d) /\ managed'[d].id = managed[d].id /\ managed[d].id \in Id
      <4>1. Alive(d) /\ managed'[d].id = managed[d].id
        BY <1>m, <2>1, <3>1 DEF Alive
      <4>. QED BY <1>t, <4>1, ManagedParts DEF Inv, IdsOwn
    <3>3. CASE S[managed[d].id] # d
      <4>1. managed[d].id \in overlap \/ \E p \in Request : At(p, "dropping") /\ req[p].c = d
        BY <2>1, <3>2, <3>3, ClearedParts
      <4>2. \A p \in Request : At(p, "dropping") => req'[p] = req[p]
        BY <1>4 DEF At
      <4>3. managed[d].id \in overlap' \/ \E p \in Request : req'[p].pc = "dropping" /\ req'[p].c = d
        BY <1>u, <4>1, <4>2 DEF At
      <4>. QED BY <3>2, <4>3 DEF At
    <3>4. CASE S[managed[d].id] = d
      <4>1. managed[d].id = i
        BY <1>4, <2>1, <3>2, <3>4
      <4>. QED BY <1>t, <1>l, <1>u, <3>2, <3>4, <4>1
    <3>. QED BY <3>3, <3>4
  <2>. QED BY <2>1 DEF OneActor
<1>. QED BY <1>6, <1>7, <1>8, <1>9, <1>10, <1>11, <1>12, <1>13, <1>14, <1>15, <1>16, <1>17, <1>18, <1>19 DEF Inv

LEMMA EnsureCapacityStep == ASSUME Inv, NEW r \in Request, EnsureCapacity(r) PROVE Inv'
<1>t. Typed /\ req[r].pc = "capacity" /\ UNCHANGED << locks, row, late, overlap, begun, faults >>
  BY DEF Inv, EnsureCapacity, At
<1>1. CASE HasSlot /\ Open(r, sessions, managed) /\ UNCHANGED disconnecting
  <2>1. r \in Opening
    BY <1>t DEF Opening
  <2>2. Cleared(sessions, managed)
    BY <1>t, <1>1 DEF Cleared, Typed
  <2>3. \A f \in disconnecting' : f.by # r
    BY <1>t, <1>1, SessionAssumption DEF Inv, EvictionsMean
  <2>4. Cardinality(Active) + Cardinality(Freeing \ {r}) + 1 < Limit + Cardinality(Request) + Cardinality(Renamed)
    <3>1. /\ Active \subseteq Conn /\ Renamed \subseteq Conn /\ Freeing \ {r} \subseteq Request \ {r}
          /\ Request \ {r} \subseteq Request
      BY DEF Active, Renamed, Freeing
    <3>2. IsFiniteSet(Request \ {r}) /\ Cardinality(Request \ {r}) = Cardinality(Request) - 1
      BY FiniteParts, FS_RemoveElement
    <3>3. Cardinality(Freeing \ {r}) <= Cardinality(Request \ {r}) /\ Cardinality(Freeing \ {r}) \in Nat
      BY <3>1, <3>2, FS_Subset, FS_CardinalityType
    <3>4. /\ Cardinality(Active) \in Nat /\ Cardinality(Renamed) \in Nat /\ Cardinality(Request) \in Nat
          /\ Cardinality(Active) < Limit /\ Limit \in Nat
      BY <1>1, <3>1, FiniteParts, SessionBounds DEF HasSlot
    <3>. QED BY <3>2, <3>3, <3>4
  <2>. QED BY <1>t, <1>1, <2>1, <2>2, <2>3, <2>4, Opens
<1>2. ASSUME NEW c \in Active, Evict(managed, c, r), req' = [req EXCEPT ![r].pc = "evicting"], UNCHANGED sessions
      PROVE  Inv'
  BY <1>t, <1>2, MakesRoom DEF At
<1>3. CASE req' = Done(r) /\ UNCHANGED << sessions, managed, disconnecting >>
  BY <1>t, <1>3, Refuses DEF At
<1>. QED BY <1>1, <1>2, <1>3 DEF EnsureCapacity

LEMMA Leaves ==
  ASSUME Inv, NEW M \in [Conn -> Managed], NEW e \in disconnecting, e.step \in {"drain", "persist"}, Leave(e, M),
         \A c \in Conn : /\ M[c].actor = managed[c].actor /\ M[c].id = managed[c].id /\ M[c].sdk = managed[c].sdk
                         /\ M[c].proc = managed[c].proc /\ M[c].inbox = managed[c].inbox
                         /\ M[c].cmds = managed[c].cmds /\ M[c].timer = managed[c].timer
                         /\ managed[c].actor # "over" => M[c] = managed[c],
         row' \in [Session -> {"absent"} \union Status],
         \A s \in Session : row'[s] # "absent" <=> row[s] # "absent",
         UNCHANGED << late, overlap, begun, faults >>
  PROVE  Inv'
<1>t. Typed /\ e.c \in Conn /\ e.id \in Id /\ e.by \in Request \union {None} /\ None \notin Request
  BY SessionAssumption DEF Inv, Typed, Evicting
<1>. DEFINE S == [sessions EXCEPT ![e.id] = None]
<1>1. /\ S \in [Id -> Conn \union {None}] /\ S[e.id] = None /\ \A i \in Id : i # e.id => S[i] = sessions[i]
  BY <1>t DEF Typed
<1>2. /\ disconnecting' = disconnecting \ {e}
      /\ locks' = IF e.id \in Session THEN [locks EXCEPT ![e.id] = @ + 1] ELSE locks
  BY DEF Leave
<1>3. locks' \in [Session -> Nat] /\ \A s \in Session : s # e.id => locks'[s] = locks[s]
  <2>1. \A s \in Session : locks[s] \in Nat /\ locks[s] + 1 \in Nat
    BY <1>t DEF Typed
  <2>. QED BY <1>t, <1>2, <2>1 DEF Typed
<1>4. managed[e.c].actor = "over"
  BY DEF Inv, EvictionsMean
<1>. HIDE DEF S
<1>5. Cleared(S, M)
  BY <1>1, <1>2, <1>3, <1>4 DEF Cleared, Ended
<1>6. CASE e.by # None /\ req[e.by].op # "delete"
  <2>. PICK r \in Request : r = e.by
    BY <1>t, <1>6
  <2>1. Open(r, S, M)
    BY <1>6 DEF Leave, S
  <2>2. req[r].pc = "evicting" /\ r \in Opening /\ r \in Freeing
    BY <1>6 DEF Inv, EvictionsMean, Opening, Freeing
  <2>3. \A f \in disconnecting' : f.by # r
    BY <1>t, <1>2 DEF Inv, EvictionsMean
  <2>4. Cardinality(Active) + Cardinality(Freeing \ {r}) + 1 < Limit + Cardinality(Request) + Cardinality(Renamed)
    <3>1. Active \subseteq Conn /\ Renamed \subseteq Conn /\ Freeing \subseteq Request
      BY DEF Active, Renamed, Freeing
    <3>2. Cardinality(Freeing \ {r}) = Cardinality(Freeing) - 1
      BY <2>2, <3>1, FiniteParts, FS_RemoveElement
    <3>3. /\ Cardinality(Active) \in Nat /\ Cardinality(Renamed) \in Nat /\ Cardinality(Request) \in Nat
          /\ Cardinality(Freeing) \in Nat /\ Limit \in Nat
      BY <3>1, FiniteParts, SessionBounds
    <3>4. Cardinality(Active) + Cardinality(Freeing) < Limit + Cardinality(Request) + Cardinality(Renamed)
      BY DEF Inv, RoomCounted
    <3>. QED BY <3>2, <3>3, <3>4
  <2>. QED BY <1>5, <2>1, <2>2, <2>3, <2>4, Opens
<1>7. CASE ~ (e.by # None /\ req[e.by].op # "delete")
  <2>1. /\ sessions' = S /\ managed' = M
        /\ req' = IF e.by = None THEN req ELSE [req EXCEPT ![e.by].pc = "deleting"]
    BY <1>7 DEF Leave, S
  <2>2. CASE e.by = None
    BY <1>t, <1>5, <2>1, <2>2, Quits DEF Typed
  <2>3. ASSUME e.by # None PROVE Inv'
    <3>. PICK r \in Request : r = e.by
      BY <1>t, <2>3
    <3>1. req[r].pc = "evicting" /\ req[r].op = "delete" /\ \A f \in disconnecting' : f.by # r
      BY <1>2, <1>7, <2>3 DEF Inv, EvictionsMean
    <3>2. [req[r] EXCEPT !.pc = "deleting"] \in Requested
      BY <1>t, RequestParts, RequestMoves DEF RequestPc
    <3>3. req' = [req EXCEPT ![r] = [req[r] EXCEPT !.pc = "deleting"]]
      BY <1>t, <2>1, <2>3 DEF Typed
    <3>4. /\ req' \in [Request -> Requested] /\ req'[r] = [req[r] EXCEPT !.pc = "deleting"]
          /\ \A q \in Request : q # r => req'[q] = req[q]
      BY <1>t, <3>2, <3>3 DEF Typed
    <3>5. \A f \in disconnecting' : f.by # None => f.by \in Request
      BY <1>t, <1>2 DEF Typed, Evicting
    <3>. QED BY <1>5, <2>1, <3>1, <3>4, <3>5, Quits
  <2>. QED BY <2>2, <2>3
<1>. QED BY <1>6, <1>7

LEMMA DrainedStep == ASSUME Inv, NEW e \in disconnecting, Drained(e) PROVE Inv'
<1>. PICK c \in Conn : c = e.c
  BY DEF Inv, Typed, Evicting
<1>t. Typed /\ managed[c].actor = "over" /\ e.step = "drain"
  BY DEF Inv, EvictionsMean, Drained
<1>. DEFINE m == [managed[c] EXCEPT !.status = Drained0(c)]
            M == [managed EXCEPT ![c].status = Drained0(c)]
<1>1. /\ m \in Managed /\ m.actor = "over" /\ m.id = managed[c].id /\ m.sdk = managed[c].sdk
      /\ m.proc = managed[c].proc /\ m.inbox = managed[c].inbox /\ m.cmds = managed[c].cmds
      /\ m.timer = managed[c].timer
  BY <1>t, DrainedParts
<1>2. M = [managed EXCEPT ![c] = m]
  BY <1>t DEF Typed
<1>3. /\ (Step(e, "persist") /\ managed' = M /\ UNCHANGED << sessions, locks, req >>) \/ Leave(e, M)
      /\ UNCHANGED << row, late, overlap, begun, faults >>
  BY DEF Drained, Drained0
<1>. HIDE DEF m
<1>4. M \in [Conn -> Managed] /\ M[c] = m /\ \A d \in Conn : d # c => M[d] = managed[d]
  BY <1>t, <1>1, <1>2 DEF Typed
<1>. HIDE DEF M
<1>5. CASE Step(e, "persist") /\ managed' = M /\ UNCHANGED << sessions, locks, req >>
  BY <1>5, DrainedPersists DEF M
<1>6. CASE Leave(e, M)
  BY <1>t, <1>1, <1>3, <1>4, <1>6, Leaves DEF Typed
<1>. QED BY <1>3, <1>5, <1>6

LEMMA PersistStep == ASSUME Inv, NEW e \in disconnecting, Persist(e) PROVE Inv'
<1>t. Typed /\ e.c \in Conn /\ managed[e.c].status \in Status
  BY ManagedParts DEF Inv, Typed, Evicting
<1>1. /\ row' \in [Session -> {"absent"} \union Status]
      /\ \A s \in Session : row'[s] # "absent" <=> row[s] # "absent"
  BY <1>t, SessionAssumption DEF Persist, Write, Typed, Status, Settled
<1>2. managed \in [Conn -> Managed] /\ Leave(e, managed) /\ e.step = "persist"
      /\ UNCHANGED << late, overlap, begun, faults >>
  BY <1>t DEF Typed, Persist
<1>. QED BY <1>1, <1>2, Leaves

--------------------------------------------------------------------------------
(* The server starts. *)

LEMMA BlankTyped ==
  /\ Blank \in Managed
  /\ \A k \in Session \union {None} : [Blank EXCEPT !.actor = "over", !.sdk = k] \in Managed
<1>1. << >> \in Seq(Command) /\ << >> \in Seq(News)
  BY EmptySeq
<1>. QED BY <1>1 DEF Blank, Managed, ProcState, Status

LEMMA NobodyServed ==
  ASSUME req' = [r \in Request |-> Idle], sessions' = [i \in Id |-> None], disconnecting' = {}, overlap' = {},
         \A c \in Conn : managed'[c].cmds = << >> /\ managed'[c].inbox = << >> /\ managed'[c].proc = "off"
                         /\ managed'[c].actor \in {"none", "over"} /\ managed'[c].timer = FALSE
                         /\ managed'[c].id = None
  PROVE  /\ IdsOwn' /\ NewsInOrder' /\ UnderNumber' /\ Purposes' /\ OneStarter'
         /\ CommandsAnswered' /\ EvictionsMean' /\ LockedOut' /\ RoomCounted' /\ OneActor'
<1>t. None \notin Conn /\ None \notin Session /\ None \notin Id /\ Conn \subseteq Id /\ Session \subseteq Id
  BY SessionAssumption DEF Id
<1>0. \A r \in Request : req'[r] = Idle /\ req'[r].pc = "idle" /\ req'[r].op = None
  BY DEF Idle
<1>1. IdsOwn'
  BY <1>t DEF IdsOwn, Alive
<1>2. NewsInOrder' /\ CommandsAnswered'
  <2>1. \A c \in Conn : DOMAIN managed'[c].inbox = {} /\ DOMAIN managed'[c].cmds = {}
    BY EmptySeq
  <2>. QED BY <2>1 DEF NewsInOrder, CommandsAnswered, OneEach
<1>3. UnderNumber'
  BY <1>t, <1>0 DEF UnderNumber
<1>4. Purposes' /\ OneStarter'
  BY <1>0, SessionAssumption DEF Purposes, PurposeOf, OneStarter, Made
<1>5. EvictionsMean' /\ OneActor'
  BY DEF EvictionsMean, OneActor, Alive
<1>6. LockedOut'
  BY <1>0 DEF LockedOut, Holds
<1>7. RoomCounted'
  <2>1. Active' = {} /\ Freeing' = {} /\ Renamed' = {}
    BY <1>t, <1>0 DEF Active, Freeing, Renamed
  <2>2. Limit \in Nat \ {0} /\ Cardinality(Request) \in Nat
    BY SessionBounds, FiniteParts
  <2>. QED BY <2>1, <2>2, FS_EmptySet DEF RoomCounted
<1>. QED BY <1>1, <1>2, <1>3, <1>4, <1>5, <1>6, <1>7

LEMMA ServerRestartsStep == ASSUME Inv, ServerRestarts PROVE Inv'
<1>t. Typed /\ None \notin Session
  BY SessionAssumption DEF Inv
<1>1. /\ sessions' = [i \in Id |-> None] /\ disconnecting' = {} /\ late' = {} /\ overlap' = {}
      /\ locks' = [s \in Session |-> 0] /\ req' = [r \in Request |-> Idle] /\ begun' = begun
      /\ row' = [s \in Session |-> IF row[s] = "running" THEN "interrupted" ELSE row[s]]
  BY DEF ServerRestarts
<1>2. \A c \in Conn :
        /\ managed[c].actor = "none" => managed'[c] = Blank
        /\ managed[c].actor # "none" => managed'[c] = [Blank EXCEPT !.actor = "over", !.sdk = managed[c].sdk]
  BY DEF ServerRestarts
<1>3. \A c \in Conn : managed[c].sdk \in Session \union {None} /\ (managed[c].actor = "none" => managed[c] = Blank)
  BY <1>t, ManagedParts DEF Inv, InOrder
<1>4. \A c \in Conn : /\ managed'[c].cmds = << >> /\ managed'[c].inbox = << >> /\ managed'[c].proc = "off"
                      /\ managed'[c].timer = FALSE /\ managed'[c].id = None
                      /\ managed'[c].actor = IF managed[c].actor = "none" THEN "none" ELSE "over"
                      /\ managed'[c].sdk = managed[c].sdk
  <2>. SUFFICES ASSUME NEW c \in Conn
                PROVE  /\ managed'[c].cmds = << >> /\ managed'[c].inbox = << >> /\ managed'[c].proc = "off"
                       /\ managed'[c].timer = FALSE /\ managed'[c].id = None
                       /\ managed'[c].actor = IF managed[c].actor = "none" THEN "none" ELSE "over"
                       /\ managed'[c].sdk = managed[c].sdk
    OBVIOUS
  <2>1. CASE managed[c].actor = "none"
    <3>1. managed'[c] = Blank /\ managed[c] = Blank
      BY <2>1, <1>2, <1>3
    <3>. QED BY <3>1 DEF Blank
  <2>2. CASE managed[c].actor # "none"
    <3>1. PICK k : k = managed[c].sdk
      OBVIOUS
    <3>2. managed'[c] = [Blank EXCEPT !.actor = "over", !.sdk = k]
      BY <2>2, <1>2, <3>1
    <3>. QED BY <2>2, <3>1, <3>2 DEF Blank
  <2>. QED BY <2>1, <2>2
<1>5. managed' \in [Conn -> Managed]
  <2>1. \A c \in Conn : managed'[c] \in Managed
    BY <1>2, <1>3, BlankTyped
  <2>. QED BY <2>1 DEF ServerRestarts
<1>6. row' \in [Session -> {"absent"} \union Status] /\ \A s \in Session : row'[s] # "absent" <=> row[s] # "absent"
  BY <1>t, <1>1 DEF Typed, Status, Settled
<1>7. Typed'
  <2>1. faults' \in Nat
    <3>1. faults \in Nat /\ faults' = faults + 1
      BY <1>t DEF ServerRestarts, Fault, Typed
    <3>. QED BY <3>1
  <2>2. sessions' \in [Id -> Conn \union {None}] /\ locks' \in [Session -> Nat] /\ req' \in [Request -> Requested]
    BY <1>1, IdleTyped
  <2>. QED BY <1>t, <1>1, <1>5, <1>6, <2>1, <2>2 DEF Typed
<1>8. InOrder'
  BY <1>2, <1>4 DEF Inv, InOrder
<1>9. EnoughNumbers'
  <2>1. Used' = Used /\ Opening' = {} /\ Used \subseteq Conn /\ Opening \subseteq Request
    BY <1>1, <1>4 DEF Used, Opening, Idle
  <2>2. Cardinality(Used) + Cardinality(Opening) <= begun /\ begun \in Nat
    BY DEF Inv, EnoughNumbers, Typed
  <2>. QED BY <1>1, <2>1, <2>2, FiniteParts, FS_EmptySet DEF EnoughNumbers
<1>10. Fresh'
  <2>1. \A k : Met(k) <=> k \in Stored \/ \E d \in Conn : managed'[d].sdk = k
    BY <1>4 DEF Met
  <2>2. \A k \in Session : row'[k] # "absent" => Met(k)'
    BY <1>6, <2>1 DEF Inv, Fresh, Met
  <2>3. \A r \in Request : req'[r].sid = None
    BY <1>1 DEF Idle
  <2>. QED BY <1>4, <2>2, <2>3 DEF Fresh
<1>. QED BY <1>1, <1>4, <1>7, <1>8, <1>9, <1>10, NobodyServed DEF Inv

LEMMA InitInv == Init => Inv
<1>. SUFFICES ASSUME Init PROVE Inv
  OBVIOUS
<1>t. None \notin Conn /\ None \notin Session /\ None \notin Id /\ Conn \subseteq Id /\ Session \subseteq Id
      /\ Stored \subseteq Session
  BY SessionAssumption DEF Id
<1>1. /\ sessions = [i \in Id |-> None] /\ disconnecting = {} /\ late = {} /\ overlap = {}
      /\ locks = [s \in Session |-> 0] /\ req = [r \in Request |-> Idle] /\ begun = 0 /\ faults = 0
      /\ row = [s \in Session |-> IF s \in Stored THEN "idle" ELSE "absent"]
      /\ managed = [c \in Conn |-> Blank]
  BY DEF Init
<1>2. \A c \in Conn : /\ managed[c] = Blank /\ managed[c].cmds = << >> /\ managed[c].inbox = << >>
                      /\ managed[c].proc = "off" /\ managed[c].timer = FALSE /\ managed[c].id = None
                      /\ managed[c].actor = "none" /\ managed[c].sdk = None
  BY <1>1 DEF Blank
<1>3. \A r \in Request : req[r] = Idle /\ req[r].pc = "idle" /\ req[r].op = None /\ req[r].sid = None
  BY <1>1 DEF Idle
<1>4. Typed
  <2>1. managed \in [Conn -> Managed] /\ req \in [Request -> Requested]
    BY <1>1, BlankTyped, IdleTyped
  <2>2. begun \in Nat /\ begun <= MaxBegun /\ faults \in Nat
    BY <1>1, SessionBounds
  <2>3. row \in [Session -> {"absent"} \union Status]
    BY <1>1 DEF Status
  <2>4. sessions \in [Id -> Conn \union {None}] /\ locks \in [Session -> Nat]
    BY <1>1
  <2>. QED BY <1>1, <2>1, <2>2, <2>3, <2>4 DEF Typed
<1>5. InOrder
  BY <1>2 DEF InOrder
<1>6. EnoughNumbers
  <2>1. Used = {} /\ Opening = {}
    BY <1>2, <1>3 DEF Used, Opening
  <2>. QED BY <1>1, <2>1, FS_EmptySet DEF EnoughNumbers
<1>7. Fresh
  BY <1>1, <1>2, <1>3 DEF Fresh, Met
<1>8. IdsOwn
  BY <1>t, <1>1, <1>2 DEF IdsOwn, Alive
<1>9. NewsInOrder /\ CommandsAnswered
  <2>1. \A c \in Conn : DOMAIN managed[c].inbox = {} /\ DOMAIN managed[c].cmds = {}
    BY <1>2, EmptySeq
  <2>. QED BY <1>2, <2>1 DEF NewsInOrder, CommandsAnswered, OneEach
<1>10. UnderNumber
  BY <1>t, <1>1, <1>3 DEF UnderNumber
<1>11. Purposes /\ OneStarter
  BY <1>3, SessionAssumption DEF Purposes, PurposeOf, OneStarter, Made
<1>12. EvictionsMean /\ OneActor
  BY <1>1, <1>2 DEF EvictionsMean, OneActor, Alive
<1>13. LockedOut
  BY <1>3 DEF LockedOut, Holds
<1>14. RoomCounted
  <2>1. Active = {} /\ Freeing = {} /\ Renamed = {}
    BY <1>t, <1>1, <1>3 DEF Active, Freeing, Renamed
  <2>2. Limit \in Nat \ {0} /\ Cardinality(Request) \in Nat
    BY SessionBounds, FiniteParts
  <2>. QED BY <2>1, <2>2, FS_EmptySet DEF RoomCounted
<1>. QED BY <1>4, <1>5, <1>6, <1>7, <1>8, <1>9, <1>10, <1>11, <1>12, <1>13, <1>14 DEF Inv

--------------------------------------------------------------------------------
(* Every step. *)

LEMMA Unchanged == ASSUME Inv, UNCHANGED vars PROVE Inv'
<1>. USE DEF vars
<1>1. Typed' /\ InOrder'
  <2>1. Typed /\ InOrder
    BY DEF Inv
  <2>. QED BY <2>1 DEF Typed, InOrder, Opening
<1>2. EnoughNumbers' /\ IdsOwn'
  <2>1. EnoughNumbers /\ IdsOwn
    BY DEF Inv
  <2>2. Used' = Used /\ Opening' = Opening
    BY DEF Used, Opening
  <2>3. EnoughNumbers'
    BY <2>1, <2>2 DEF EnoughNumbers
  <2>4. IdsOwn'
    BY <2>1 DEF IdsOwn, Alive
  <2>. QED BY <2>3, <2>4
<1>3. NewsInOrder' /\ Fresh' /\ UnderNumber'
  <2>1. NewsInOrder /\ Fresh /\ UnderNumber
    BY DEF Inv
  <2>2. NewsInOrder'
    BY <2>1 DEF NewsInOrder
  <2>3. Fresh'
    BY <2>1 DEF Fresh, Met
  <2>4. UnderNumber'
    BY <2>1 DEF UnderNumber, Alive
  <2>. QED BY <2>2, <2>3, <2>4
<1>4. Purposes' /\ OneStarter'
  <2>1. Purposes /\ OneStarter
    BY DEF Inv
  <2>. QED BY <2>1 DEF Purposes, PurposeOf, Attached, NotSent, OneStarter, Made
<1>5. CommandsAnswered' /\ OneActor'
  <2>1. CommandsAnswered /\ OneActor
    BY DEF Inv
  <2>2. CommandsAnswered'
    BY <2>1 DEF CommandsAnswered, CommandOf, OneEach
  <2>3. OneActor'
    BY <2>1 DEF OneActor, Alive, Evicted, At
  <2>. QED BY <2>2, <2>3
<1>6. EvictionsMean' /\ LockedOut' /\ RoomCounted'
  <2>1. EvictionsMean /\ LockedOut /\ RoomCounted
    BY DEF Inv
  <2>2. EvictionsMean' /\ LockedOut'
    BY <2>1 DEF EvictionsMean, Evicted, LockedOut, Holds, Disconnecting, At
  <2>3. Active' = Active /\ Freeing' = Freeing /\ Renamed' = Renamed
    BY DEF Active, Freeing, Renamed, Disconnecting
  <2>4. RoomCounted'
    BY <2>1, <2>3 DEF RoomCounted
  <2>. QED BY <2>2, <2>4
<1>. QED BY <1>1, <1>2, <1>3, <1>4, <1>5, <1>6 DEF Inv

LEMMA ProceedStep == ASSUME Inv, NEW r \in Request, Proceed(r) PROVE Inv'
BY LookUpStep, AcquireLockStep, EnsureCapacityStep, StartedStep, MarkRunningStep, SendFailsStep,
   FailureRecordedStep, NamingFailsStep, DroppedStep, InterruptStep, InterruptUnheardStep, RepairStep,
   DeleteRowStep DEF Proceed

LEMMA EvictionStep == ASSUME Inv, Eviction PROVE Inv'
BY HangUpStep, DisconnectedStep, DisconnectTimesOutStep, DrainedStep, PersistStep DEF Eviction

LEMMA InboxStep == ASSUME Inv, NEW c \in Conn, Inbox(c) PROVE Inv'
<1>1. CASE ProcessInbox(c)
  BY <1>1, InitTaken, ProcessInboxStep
<1>. QED BY <1>1, CreateRowStep, SwapKeyStep, FinalizeStep DEF Inbox

LEMMA ActorStep == ASSUME Inv, NEW c \in Conn, Actor(c) PROVE Inv'
BY ActorSendsStep, ActorInterruptedStep, ActorLeavesStep, TurnEndsStep DEF Actor

LEMMA InvStep == Inv /\ [Next]_vars => Inv'
<1>. SUFFICES ASSUME Inv, [Next]_vars PROVE Inv'
  OBVIOUS
<1>1. ASSUME NEW c \in Conn,
             \/ Actor(c) \/ Inbox(c) \/ FirstMessage(c) \/ AskUser(c) \/ AnswerUser(c)
             \/ ActorCrashes(c) \/ TimerFires(c) \/ Patrol(c)
      PROVE  Inv'
  BY <1>1, ActorStep, InboxStep, FirstMessageStep, AskUserStep, AnswerUserStep, ActorCrashesStep,
     TimerFiresStep, PatrolStep
<1>2. ASSUME NEW r \in Request, Proceed(r) \/ StartFails(r) \/ NewArrives(r)
      PROVE  Inv'
  BY <1>2, ProceedStep, StartFailsStep, NewArrivesStep
<1>3. ASSUME NEW r \in Request, NEW s \in Session,
             SendArrives(r, s) \/ InterruptArrives(r, s) \/ DeleteArrives(r, s)
      PROVE  Inv'
  BY <1>3, SendArrivesStep, InterruptArrivesStep, DeleteArrivesStep
<1>. QED BY <1>1, <1>2, <1>3, EvictionStep, PersistActorErrorStep, ServerRestartsStep, Unchanged DEF Next

--------------------------------------------------------------------------------

\* Whatever the requests, evictions, dying actors and restarts, an actor that runs
\* is the one its id stands for, or is being evicted or dropped: except for the ids
\* in overlap, nobody has two agents on one session, or one that no request reaches.
THEOREM ActorsAreOne == Spec => []OneActor
<1>1. Inv => OneActor
  BY DEF Inv
<1>. QED BY <1>1, InitInv, InvStep, PTL DEF Spec

\* The sessions that count are never more than the limit by as many as the requests
\* that are served at once, and the sessions that got their ids in the middle of
\* their eviction.
THEOREM ExcessIsBounded == Spec => []BoundedExcess
<1>1. Inv => BoundedExcess
  <2>. SUFFICES ASSUME Inv PROVE BoundedExcess
    OBVIOUS
  <2>1. Cardinality(Freeing) \in Nat /\ Cardinality(Active) \in Nat /\ Cardinality(Renamed) \in Nat
    BY FiniteParts DEF Freeing, Active, Renamed
  <2>2. Cardinality(Active) + Cardinality(Freeing) < Limit + Cardinality(Request) + Cardinality(Renamed)
    BY DEF Inv, RoomCounted
  <2>3. Limit \in Nat /\ Cardinality(Request) \in Nat
    BY SessionBounds, FiniteParts
  <2>4. Cardinality(Active) < Limit + Cardinality(Request) + Cardinality(Renamed)
    BY <2>1, <2>2, <2>3
  <2>. QED BY <2>4 DEF BoundedExcess, Renamed
<1>. QED BY <1>1, InitInv, InvStep, PTL DEF Spec

\* Every variable keeps its type, and requests, commands and evictions refer to
\* objects that exist and to what these are about.
THEOREM SessionTypes == Spec => [](TypeOK /\ Purposes /\ CommandsAnswered /\ EvictionsMean)
<1>1. Inv => TypeOK
  BY DEF Inv, Typed, TypeOK, Evicting, Managed
<1>2. Inv => Purposes /\ CommandsAnswered /\ EvictionsMean
  BY DEF Inv
<1>. QED BY <1>1, <1>2, InitInv, InvStep, PTL DEF Spec

--------------------------------------------------------------------------------
(* The rows.  What makes RowFollows hold: whoever changes the status of a session *)
(* that is in the registry has a write to make, or somebody else has.             *)

Registered(c) == \E i \in Id : sessions[i] = c

\* A disconnect that waits is part of an eviction, or of dropping a session.
Parting ==
  /\ \A c \in Conn : managed[c].actor = "over" => managed[c].cmds = << >>
  /\ \A c \in Conn : \A n \in DOMAIN managed[c].cmds : managed[c].cmds[n].kind = "disconnect" =>
       \/ ~ Registered(c)
       \/ \E e \in disconnecting : e.c = c /\ e.step = "disconnect"
  /\ \A r \in Request : req[r].pc = "dropping" => managed[req[r].c].id = req[r].c

\* What began under a number has no stored session, and is evicted under it only when dead.
Origins ==
  /\ \A c \in Conn : managed[c].id \in Conn => managed[c].sdk \notin Stored
  /\ \A e \in disconnecting :
       /\ e.id \in Session => managed[e.c].id = e.id
       /\ e.id \in Conn => managed[e.c].actor = "over" /\ managed[e.c].sdk \notin Stored

\* What is in the registry and dead does not say that it runs, unless it is evicted;
\* and what an eviction has to write down is something else.
DeadSaySo ==
  /\ \A c \in Conn : sessions[c] = c /\ managed[c].actor = "over" => managed[c].status \in {"error", "closed"}
  /\ \A s \in Session : sessions[s] # None /\ managed[sessions[s]].actor = "over" =>
       managed[sessions[s]].status # "running" \/ Disconnecting(s)
  /\ \A e \in disconnecting : e.step = "persist" => managed[e.c].status # "running"

\* Somebody is about to write the status of s.
ToWrite(s) ==
  \/ s \in late \/ Disconnecting(s) \/ managed[sessions[s]].proc = "finalizing"
  \/ \E r \in Request : req[r].sid = s /\ req[r].pc \in {"starting", "marking", "failing"}

Excused(s) ==
  \/ managed[sessions[s]].status = "running"
  \/ managed[sessions[s]].status \in {"error", "closed"} /\ s \notin Stored

RowTold ==
  \A s \in Session \ overlap : row[s] = "running" /\ sessions[s] # None => Excused(s) \/ ToWrite(s)

RowInv == Parting /\ Origins /\ DeadSaySo /\ RowTold

\* How an object, the registry, evictions, requests and a row may change in a step
\* that gives no session its id.
New(c) ==
  /\ managed[c].actor = "none" /\ managed'[c].actor = "starting" /\ managed'[c].cmds = << >>
  /\ managed'[c].id \in Conn => managed'[c].sdk = None

ObjectGoesOn(c) ==
  /\ managed'[c].id = managed[c].id
  /\ managed'[c].sdk \in Stored => managed'[c].sdk = managed[c].sdk
  /\ managed[c].actor = "over" => managed'[c].actor = "over"
  /\ managed[c].actor = "over" /\ managed[c].status # "running" => managed'[c].status # "running"
  /\ managed'[c].actor = "over" =>
       /\ managed'[c].cmds = << >>
       /\ \/ managed[c].actor = "over" /\ managed'[c].status = managed[c].status
          \/ managed'[c].status \in {"error", "closed"}
          \/ ~ Registered(c)'
          \/ managed[c].id \in Session /\ (managed'[c].status # "running" \/ Disconnecting(managed[c].id)')
  /\ \A n \in DOMAIN managed'[c].cmds : managed'[c].cmds[n].kind = "disconnect" =>
       \/ \E m \in DOMAIN managed[c].cmds : managed[c].cmds[m].kind = "disconnect"
       \/ ~ Registered(c)'
       \/ \E f \in disconnecting' : f.c = c /\ f.step = "disconnect"

KeysStay == \A i \in Id : sessions'[i] \in {None, sessions[i]} \/ New(sessions'[i])

EvictionsStay ==
  /\ \A f \in disconnecting' :
       /\ \/ \E e \in disconnecting : e.id = f.id /\ e.c = f.c
          \/ sessions[f.id] = f.c /\ managed[f.c].status # "running"
          \/ f.id \in Session /\ sessions[f.id] = f.c
       /\ f.step = "persist" => \/ \E e \in disconnecting : e.c = f.c /\ e.step = "persist"
                                \/ managed'[f.c].status # "running"
  /\ \A e \in disconnecting :
       /\ (\E f \in disconnecting' : f.id = e.id) \/ sessions'[e.id] = None \/ New(sessions'[e.id])
       /\ e.step = "disconnect" =>
            (\E f \in disconnecting' : f.c = e.c /\ f.step = "disconnect") \/ managed'[e.c].cmds = << >>

DroppingStays ==
  \A r \in Request : req'[r].pc = "dropping" =>
    \/ req[r].pc = "dropping" /\ req'[r].c = req[r].c
    \/ managed[req'[r].c].id = req'[r].c

RowGoesOn(s) ==
  \/ row'[s] # "running" \/ sessions'[s] = None
  \/ managed'[sessions'[s]].status = "running" \/ ToWrite(s)'
  \/ /\ s \notin overlap /\ row[s] = "running" /\ sessions[s] = sessions'[s]
     /\ ToWrite(s) => ToWrite(s)'
     /\ \/ managed'[sessions[s]].status = managed[sessions[s]].status
        \/ managed'[sessions[s]].status \in {"error", "closed"} /\ managed[sessions[s]].status # "running"

LEMMA RowsKept ==
  ASSUME Inv, Inv', RowInv, \A c \in Conn : New(c) \/ ObjectGoesOn(c), KeysStay, EvictionsStay, DroppingStays,
         \A s \in Session \ overlap' : RowGoesOn(s)
  PROVE  RowInv'
<1>t. Typed /\ Typed' /\ IdsOwn /\ UnderNumber /\ EvictionsMean /\ Purposes'
  BY DEF Inv
<1>c. /\ None \notin Conn /\ Conn \subseteq Id /\ Session \subseteq Id /\ None \notin Id /\ Conn \cap Session = {}
      /\ Stored \subseteq Session /\ None \notin Stored
  BY SessionAssumption DEF Id
<1>r. /\ Parting /\ Origins /\ DeadSaySo /\ RowTold
  BY DEF RowInv
<1>o. ASSUME NEW c \in Conn, managed[c].actor # "none" PROVE ObjectGoesOn(c) /\ ~ New(c)
  BY <1>o DEF New
<1>k. ASSUME NEW i \in Id, sessions'[i] # None, ~ New(sessions'[i])
      PROVE  /\ sessions[i] = sessions'[i] /\ sessions[i] \in Conn
             /\ managed[sessions[i]].id = i /\ ObjectGoesOn(sessions[i]) /\ managed[sessions[i]].actor # "none"
  <2>1. sessions[i] = sessions'[i] /\ sessions[i] \in Conn
    BY <1>k, <1>t DEF KeysStay, Typed
  <2>2. managed[sessions[i]].id = i /\ managed[sessions[i]].actor # "none"
    BY <2>1, <1>k, <1>t DEF IdsOwn
  <2>. QED BY <2>1, <2>2, <1>o
<1>1. Parting'
  <2>1. \A c \in Conn : managed'[c].actor = "over" => managed'[c].cmds = << >>
    BY DEF New, ObjectGoesOn
  <2>2. ASSUME NEW c \in Conn, NEW n \in DOMAIN managed'[c].cmds, managed'[c].cmds[n].kind = "disconnect", Registered(c)'
        PROVE  \E f \in disconnecting' : f.c = c /\ f.step = "disconnect"
    <3>1. ~ New(c) /\ ObjectGoesOn(c)
      BY <2>2, EmptySeq DEF New
    <3>2. Registered(c)
      BY <2>2, <3>1, <1>k, <1>c DEF Registered
    <3>3. ASSUME NEW m \in DOMAIN managed[c].cmds, managed[c].cmds[m].kind = "disconnect"
          PROVE  \E f \in disconnecting' : f.c = c /\ f.step = "disconnect"
      <4>1. PICK e \in disconnecting : e.c = c /\ e.step = "disconnect"
        BY <3>2, <3>3, <1>r DEF Parting
      <4>2. managed'[c].cmds # << >>
        BY <2>2, EmptySeq
      <4>. QED BY <4>1, <4>2 DEF EvictionsStay
    <3>. QED BY <2>2, <3>1, <3>3 DEF ObjectGoesOn
  <2>3. ASSUME NEW r \in Request, req'[r].pc = "dropping" PROVE managed'[req'[r].c].id = req'[r].c
    <3>1. managed[req'[r].c].id = req'[r].c
      BY <2>3, <1>r DEF Parting, DroppingStays
    <3>2. req'[r].c \in Conn
      BY <2>3, <1>t DEF Purposes, PurposeOf, Attached
    <3>3. managed[req'[r].c].actor # "none"
      BY <3>1, <3>2, <1>c DEF Inv, InOrder, Blank
    <3>. QED BY <3>1, <3>2, <3>3, <1>o DEF ObjectGoesOn
  <2>. QED BY <2>1, <2>2, <2>3 DEF Parting
<1>2. Origins'
  <2>1. ASSUME NEW c \in Conn, managed'[c].id \in Conn PROVE managed'[c].sdk \notin Stored
    BY <2>1, <1>r, <1>c DEF Origins, New, ObjectGoesOn
  <2>2. ASSUME NEW f \in disconnecting'
        PROVE  /\ f.id \in Session => managed'[f.c].id = f.id
               /\ f.id \in Conn => managed'[f.c].actor = "over" /\ managed'[f.c].sdk \notin Stored
    <3>0. f.c \in Conn /\ f.id \in Id
      BY <1>t DEF Typed, Evicting
    <3>1. CASE \E e \in disconnecting : e.id = f.id /\ e.c = f.c
      BY <3>0, <3>1, <1>o, <1>r, <1>t DEF Origins, EvictionsMean, ObjectGoesOn
    <3>2. CASE sessions[f.id] = f.c /\ managed[f.c].status # "running"
      <4>1. managed[f.c].id = f.id /\ managed[f.c].actor # "none"
        BY <3>0, <3>2, <1>t, <1>c DEF IdsOwn
      <4>2. f.id \in Conn => f.c = f.id /\ managed[f.c].actor = "over"
        <5>1. f.id \in Conn => f.c = f.id
          BY <4>1, <3>0, <1>t DEF IdsOwn
        <5>2. f.id \in Conn => ~ Alive(f.c)
          BY <5>1, <3>2, <1>t DEF UnderNumber
        <5>. QED BY <5>1, <5>2, <4>1, <3>0, <1>t, ManagedParts DEF Alive
      <4>3. f.id \in Conn => managed[f.c].sdk \notin Stored
        BY <4>1, <3>0, <1>r DEF Origins
      <4>. QED BY <4>1, <4>2, <4>3, <3>0, <1>o DEF ObjectGoesOn
    <3>3. CASE f.id \in Session /\ sessions[f.id] = f.c
      <4>1. managed[f.c].id = f.id /\ managed[f.c].actor # "none" /\ f.id \notin Conn
        BY <3>0, <3>3, <1>t, <1>c DEF IdsOwn
      <4>. QED BY <4>1, <3>0, <1>o DEF ObjectGoesOn
    <3>. QED BY <3>1, <3>2, <3>3 DEF EvictionsStay
  <2>. QED BY <2>1, <2>2 DEF Origins
<1>3. DeadSaySo'
  <2>1. ASSUME NEW c \in Conn, sessions'[c] = c, managed'[c].actor = "over"
        PROVE  managed'[c].status \in {"error", "closed"}
    <3>1. ~ New(c)
      BY <2>1 DEF New
    <3>2. sessions[c] = c /\ managed[c].id = c /\ ObjectGoesOn(c) /\ c \notin Session
      BY <2>1, <3>1, <1>k, <1>c
    <3>3. Registered(c)'
      BY <2>1, <1>c DEF Registered
    <3>. QED BY <2>1, <3>2, <3>3, <1>r DEF ObjectGoesOn, DeadSaySo
  <2>2. ASSUME NEW s \in Session, sessions'[s] # None, managed'[sessions'[s]].actor = "over",
               ~ Disconnecting(s)'
        PROVE  managed'[sessions'[s]].status # "running"
    <3>0. PICK c \in Conn : c = sessions'[s]
      BY <2>2, <1>t, <1>c DEF Typed
    <3>1. ~ New(c)
      BY <2>2, <3>0 DEF New
    <3>2. sessions[s] = c /\ managed[c].id = s /\ ObjectGoesOn(c)
      BY <2>2, <3>0, <3>1, <1>k, <1>c
    <3>3. Registered(c)'
      BY <3>0, <1>c DEF Registered
    <3>4. ~ Disconnecting(s)
      BY <2>2, <3>0, <3>1 DEF Disconnecting, EvictionsStay
    <3>5. managed[c].actor = "over" => managed[c].status # "running"
      BY <2>2, <3>0, <3>2, <3>4, <1>r DEF DeadSaySo
    <3>. QED BY <2>2, <3>0, <3>2, <3>3, <3>4, <3>5 DEF ObjectGoesOn
  <2>3. ASSUME NEW f \in disconnecting', f.step = "persist" PROVE managed'[f.c].status # "running"
    <3>1. ASSUME NEW e \in disconnecting, e.c = f.c, e.step = "persist" PROVE managed'[f.c].status # "running"
      <4>1. e.c \in Conn /\ managed[e.c].actor = "over" /\ managed[e.c].status # "running"
        BY <1>t, <1>r, <3>1 DEF Typed, Evicting, EvictionsMean, DeadSaySo
      <4>. QED BY <1>o, <3>1, <4>1 DEF ObjectGoesOn
    <3>. QED BY <2>3, <3>1 DEF EvictionsStay
  <2>. QED BY <2>1, <2>2, <2>3 DEF DeadSaySo
<1>4. RowTold'
  <2>. SUFFICES ASSUME NEW s \in Session \ overlap', row'[s] = "running", sessions'[s] # None, ~ ToWrite(s)'
                PROVE  Excused(s)'
    BY DEF RowTold
  <2>1. CASE managed'[sessions'[s]].status = "running"
    BY <2>1 DEF Excused
  <2>2. CASE /\ s \notin overlap /\ row[s] = "running" /\ sessions[s] = sessions'[s]
             /\ ToWrite(s) => ToWrite(s)'
             /\ \/ managed'[sessions[s]].status = managed[sessions[s]].status
                \/ managed'[sessions[s]].status \in {"error", "closed"} /\ managed[sessions[s]].status # "running"
    <3>1. Excused(s)
      BY <2>2, <1>r DEF RowTold
    <3>. QED BY <3>1, <2>2 DEF Excused
  <2>. QED BY <2>1, <2>2 DEF RowGoesOn
<1>. QED BY <1>1, <1>2, <1>3, <1>4 DEF RowInv

\* Steps in which nobody's status changes and no row is written.
Alike(c) ==
  /\ managed'[c].id = managed[c].id /\ managed'[c].sdk = managed[c].sdk
  /\ managed'[c].status = managed[c].status
  /\ managed'[c].actor = "over" <=> managed[c].actor = "over"
  /\ managed[c].actor = "over" => managed'[c].cmds = managed[c].cmds
  /\ managed[c].proc = "finalizing" => managed'[c].proc = "finalizing"
  /\ \A n \in DOMAIN managed'[c].cmds : managed'[c].cmds[n].kind = "disconnect" =>
       \/ \E m \in DOMAIN managed[c].cmds : managed[c].cmds[m].kind = "disconnect"
       \/ ~ Registered(c)'
       \/ \E f \in disconnecting' : f.c = c /\ f.step = "disconnect"

StillAbout(r) ==
  req[r].pc \in {"starting", "marking", "failing"} =>
    \/ req'[r].pc \in {"starting", "marking", "failing"} /\ req'[r].sid = req[r].sid
    \/ req[r].sid \in overlap \/ req[r].sid = None
    \/ sessions'[req[r].sid] = None \/ managed[sessions[req[r].sid]].status = "running"

LEMMA StillRows ==
  ASSUME Inv, Inv', RowInv, \A c \in Conn : Alike(c), \A i \in Id : sessions'[i] \in {None, sessions[i]},
         EvictionsStay, DroppingStays, \A r \in Request : StillAbout(r),
         row' = row, late \subseteq late', overlap \subseteq overlap'
  PROVE  RowInv'
<1>c. None \notin Conn /\ None \notin Session /\ Session \subseteq Id
  BY SessionAssumption DEF Id
<1>1. \A c \in Conn : ObjectGoesOn(c)
  BY DEF Alike, ObjectGoesOn, RowInv, Parting
<1>2. KeysStay
  BY DEF KeysStay
<1>3. ASSUME NEW s \in Session \ overlap' PROVE RowGoesOn(s)
  <2>. SUFFICES ASSUME row[s] = "running", sessions'[s] # None, ~ ToWrite(s)', managed'[sessions'[s]].status # "running"
                PROVE  ~ ToWrite(s) /\ managed'[sessions[s]].status = managed[sessions[s]].status /\ sessions[s] = sessions'[s]
    BY DEF RowGoesOn
  <2>1. sessions[s] = sessions'[s] /\ sessions[s] \in Conn /\ managed[sessions[s]].actor # "none"
    BY <1>c DEF Inv, Typed, IdsOwn
  <2>2. Alike(sessions[s]) /\ s \notin overlap
    BY <2>1
  <2>3. ~ Disconnecting(s)
    BY <2>1 DEF ToWrite, Disconnecting, EvictionsStay, New
  <2>4. ASSUME NEW r \in Request, req[r].sid = s, req[r].pc \in {"starting", "marking", "failing"} PROVE FALSE
    <3>1. StillAbout(r) /\ req[r].sid # None
      BY <2>4, <1>c
    <3>2. managed[sessions[s]].status # "running"
      BY <2>1, <2>2 DEF Alike
    <3>. QED BY <2>1, <2>2, <2>4, <3>1, <3>2 DEF StillAbout, ToWrite
  <2>. QED BY <2>1, <2>2, <2>3, <2>4 DEF Alike, ToWrite
<1>. QED BY <1>1, <1>2, <1>3, RowsKept

\* Where evictions stay as they are, or where there is one more, or one of them goes a step on.
LEMMA SameEvictions == ASSUME disconnecting' = disconnecting PROVE EvictionsStay
BY DEF EvictionsStay

LEMMA OneEviction ==
  ASSUME NEW f, sessions[f.id] = f.c, managed[f.c].status # "running" \/ f.id \in Session,
         disconnecting' = disconnecting \union {f}, f.step # "persist"
  PROVE  EvictionsStay
BY DEF EvictionsStay

LEMMA EvictionStepped ==
  ASSUME Inv, NEW e \in disconnecting, NEW step \in {"begin", "disconnect", "drain", "persist"}, Step(e, step),
         e.step = "disconnect" /\ step # "disconnect" => managed'[e.c].cmds = << >>,
         step = "persist" => managed'[e.c].status # "running"
  PROVE  EvictionsStay /\ \E f \in disconnecting' : f.id = e.id /\ f.c = e.c /\ f.step = step
<1>. DEFINE f == [e EXCEPT !.step = step]
<1>1. f.id = e.id /\ f.c = e.c /\ f.step = step
  BY DEF Inv, Typed, Evicting
<1>2. disconnecting' = (disconnecting \ {e}) \union {f}
  BY DEF Step
<1>. HIDE DEF f
<1>3. \A g \in disconnecting' : g = f \/ g \in disconnecting
  BY <1>2
<1>4. \A g \in disconnecting : g = e \/ g \in disconnecting'
  BY <1>2
<1>5. f \in disconnecting'
  BY <1>2
<1>. QED BY <1>1, <1>3, <1>4, <1>5 DEF EvictionsStay

\* One object, one request.
LEMMA AlikeOne ==
  ASSUME Inv, NEW c \in Conn, \A d \in Conn : d # c => managed'[d] = managed[d],
         managed'[c].id = managed[c].id, managed'[c].sdk = managed[c].sdk, managed'[c].status = managed[c].status,
         managed'[c].actor = "over" <=> managed[c].actor = "over",
         managed[c].actor = "over" => managed'[c].cmds = managed[c].cmds,
         managed[c].proc = "finalizing" => managed'[c].proc = "finalizing",
         \A n \in DOMAIN managed'[c].cmds : managed'[c].cmds[n].kind = "disconnect" =>
           \/ \E m \in DOMAIN managed[c].cmds : managed[c].cmds[m].kind = "disconnect"
           \/ ~ Registered(c)'
           \/ \E f \in disconnecting' : f.c = c /\ f.step = "disconnect"
  PROVE  \A d \in Conn : Alike(d)
BY DEF Alike

LEMMA AlikeStill ==
  ASSUME Inv, NEW c \in Conn, \A d \in Conn : d # c => managed'[d] = managed[d],
         managed'[c].id = managed[c].id, managed'[c].sdk = managed[c].sdk, managed'[c].status = managed[c].status,
         managed'[c].actor = "over" <=> managed[c].actor = "over",
         managed'[c].cmds = managed[c].cmds, managed[c].proc = "finalizing" => managed'[c].proc = "finalizing"
  PROVE  \A d \in Conn : Alike(d)
<1>1. \A n \in DOMAIN managed'[c].cmds : managed'[c].cmds[n].kind = "disconnect" =>
        \E m \in DOMAIN managed[c].cmds : managed[c].cmds[m].kind = "disconnect"
  OBVIOUS
<1>. QED BY <1>1, AlikeOne

LEMMA MovesOn ==
  ASSUME Inv, NEW r \in Request, NEW q, req' = [req EXCEPT ![r] = q], StillAbout(r),
         q.pc = "dropping" => managed[q.c].id = q.c
  PROVE  DroppingStays /\ \A p \in Request : StillAbout(p)
<1>1. req'[r] = q /\ \A p \in Request : p # r => req'[p] = req[p]
  BY DEF Inv, Typed
<1>. QED BY <1>1 DEF DroppingStays, StillAbout

LEMMA NobodyMoves ==
  ASSUME req' = req
  PROVE  DroppingStays /\ \A p \in Request : StillAbout(p)
BY DEF DroppingStays, StillAbout

LEMMA CommandParts ==
  ASSUME Inv, NEW c \in Conn, NEW n \in DOMAIN managed[c].cmds
  PROVE  /\ managed[c].cmds[n].by \in Request \union {None} /\ CommandOf(c, managed[c].cmds[n])
         /\ managed[c].cmds[n].kind \in {"query", "interrupt"} => managed[c].cmds[n].by \in Request
<1>1. managed[c].cmds \in Seq(Command)
  BY ManagedParts DEF Inv
<1>2. managed[c].cmds[n] \in Command
  BY <1>1, LenProperties, ElementOfSeq
<1>3. CommandOf(c, managed[c].cmds[n])
  BY DEF Inv, CommandsAnswered
<1>. QED BY <1>2, <1>3 DEF CommandOf, Command

LEMMA NewArrivesRows == ASSUME Inv, Inv', RowInv, NEW r \in Request, NewArrives(r) PROVE RowInv'
<1>1. Begins(r, "new", None, "capacity")
  BY DEF NewArrives
<1>2. PICK n \in Requested : req' = [req EXCEPT ![r] = n] /\ req[r].pc = "idle" /\ n.pc = "capacity"
  BY <1>1, BeginsTyped DEF RequestPc
<1>3. DroppingStays /\ \A p \in Request : StillAbout(p)
  BY <1>2, MovesOn DEF StillAbout
<1>. QED BY <1>3, SameEvictions, StillRows DEF NewArrives, Alike

LEMMA SendArrivesRows ==
  ASSUME Inv, Inv', RowInv, NEW r \in Request, NEW s \in Session, SendArrives(r, s) PROVE RowInv'
<1>1. Begins(r, "send", s, "looking")
  BY DEF SendArrives
<1>2. PICK n \in Requested : req' = [req EXCEPT ![r] = n] /\ req[r].pc = "idle" /\ n.pc = "looking"
  BY <1>1, BeginsTyped DEF RequestPc
<1>3. DroppingStays /\ \A p \in Request : StillAbout(p)
  BY <1>2, MovesOn DEF StillAbout
<1>. QED BY <1>3, SameEvictions, StillRows DEF SendArrives, Alike

LEMMA InterruptArrivesRows ==
  ASSUME Inv, Inv', RowInv, NEW r \in Request, NEW s \in Session, InterruptArrives(r, s) PROVE RowInv'
<1>1. Begins(r, "interrupt", s, "stopping")
  BY DEF InterruptArrives
<1>2. PICK n \in Requested : req' = [req EXCEPT ![r] = n] /\ req[r].pc = "idle" /\ n.pc = "stopping"
  BY <1>1, BeginsTyped DEF RequestPc
<1>3. DroppingStays /\ \A p \in Request : StillAbout(p)
  BY <1>2, MovesOn DEF StillAbout
<1>. QED BY <1>3, SameEvictions, StillRows DEF InterruptArrives, Alike

LEMMA AskUserRows == ASSUME Inv, Inv', RowInv, NEW c \in Conn, AskUser(c) PROVE RowInv'
<1>t. Typed /\ managed[c] \in Managed
  BY ManagedParts DEF Inv
<1>1. managed' = [managed EXCEPT ![c] = [managed[c] EXCEPT !.asking = TRUE]]
  BY <1>t DEF AskUser
<1>2. /\ managed'[c] = [managed[c] EXCEPT !.asking = TRUE]
      /\ \A d \in Conn : d # c => managed'[d] = managed[d]
  BY <1>1, <1>t DEF Typed
<1>3. \A d \in Conn : Alike(d)
  <2>1. managed'[c].cmds = managed[c].cmds
    BY <1>2, <1>t DEF Managed
  <2>. QED BY <1>2, <1>t, <2>1, AlikeStill DEF Managed
<1>. QED BY <1>3, NobodyMoves, SameEvictions, StillRows DEF AskUser

LEMMA AnswerUserRows == ASSUME Inv, Inv', RowInv, NEW c \in Conn, AnswerUser(c) PROVE RowInv'
<1>t. Typed /\ managed[c] \in Managed
  BY ManagedParts DEF Inv
<1>1. managed' = [managed EXCEPT ![c] = [managed[c] EXCEPT !.asking = FALSE]]
  BY <1>t DEF AnswerUser
<1>2. /\ managed'[c] = [managed[c] EXCEPT !.asking = FALSE]
      /\ \A d \in Conn : d # c => managed'[d] = managed[d]
  BY <1>1, <1>t DEF Typed
<1>3. \A d \in Conn : Alike(d)
  <2>1. managed'[c].cmds = managed[c].cmds
    BY <1>2, <1>t DEF Managed
  <2>. QED BY <1>2, <1>t, <2>1, AlikeStill DEF Managed
<1>. QED BY <1>3, NobodyMoves, SameEvictions, StillRows DEF AnswerUser

LEMMA FirstMessageRows == ASSUME Inv, Inv', RowInv, NEW c \in Conn, FirstMessage(c) PROVE RowInv'
<1>t. Typed /\ managed[c] \in Managed
  BY ManagedParts DEF Inv
<1>1. managed' = [managed EXCEPT ![c] = [managed[c] EXCEPT !.inbox = << "init" >>]]
  BY <1>t DEF FirstMessage
<1>2. /\ managed'[c] = [managed[c] EXCEPT !.inbox = << "init" >>]
      /\ \A d \in Conn : d # c => managed'[d] = managed[d]
  BY <1>1, <1>t DEF Typed
<1>3. \A d \in Conn : Alike(d)
  <2>1. managed'[c].cmds = managed[c].cmds
    BY <1>2, <1>t DEF Managed
  <2>. QED BY <1>2, <1>t, <2>1, AlikeStill DEF Managed
<1>. QED BY <1>3, NobodyMoves, SameEvictions, StillRows DEF FirstMessage

LEMMA TurnEndsRows == ASSUME Inv, Inv', RowInv, NEW c \in Conn, TurnEnds(c) PROVE RowInv'
<1>t. Typed /\ managed[c] \in Managed
  BY ManagedParts DEF Inv
<1>1. PICK e \in BOOLEAN : managed' = [managed EXCEPT ![c].actor = "ready", ![c].inbox = Append(@, ResultStatus(c, e))]
  BY DEF TurnEnds
<1>2. /\ managed'[c] = [managed[c] EXCEPT !.actor = "ready", !.inbox = Append(@, ResultStatus(c, e))]
      /\ \A d \in Conn : d # c => managed'[d] = managed[d]
  BY <1>1, <1>t DEF Typed
<1>3. \A d \in Conn : Alike(d)
  <2>1. /\ managed'[c].cmds = managed[c].cmds /\ managed'[c].actor = "ready"
        /\ managed'[c].id = managed[c].id /\ managed'[c].sdk = managed[c].sdk
        /\ managed'[c].status = managed[c].status /\ managed'[c].proc = managed[c].proc
    BY <1>2, <1>t DEF Managed
  <2>2. managed[c].actor = "driving"
    BY DEF TurnEnds
  <2>. QED BY <1>2, <2>1, <2>2, AlikeStill
<1>. QED BY <1>3, NobodyMoves, SameEvictions, StillRows DEF TurnEnds

LEMMA ActorSendsRows == ASSUME Inv, Inv', RowInv, NEW c \in Conn, ActorSends(c) PROVE RowInv'
<1>t. Typed /\ managed[c] \in Managed /\ managed[c].cmds \in Seq(Command)
  BY ManagedParts DEF Inv
<1>. DEFINE cmd == managed[c].cmds[1]
<1>1. /\ managed[c].actor = "ready" /\ managed[c].cmds # << >> /\ Head(managed[c].cmds) = cmd
      /\ 1 \in DOMAIN managed[c].cmds /\ cmd.kind = "query" /\ CommandOf(c, cmd)
      /\ \A n \in DOMAIN Tail(managed[c].cmds) : \E m \in DOMAIN managed[c].cmds :
              Tail(managed[c].cmds)[n] = managed[c].cmds[m]
  BY <1>t, FirstTaken DEF ActorSends, Inv, CommandsAnswered
<1>2. /\ managed' = [managed EXCEPT ![c] = [managed[c] EXCEPT !.actor = "driving", !.cmds = Tail(@)]]
      /\ req' = IF req[cmd.by].op = "new" THEN [req EXCEPT ![cmd.by].pc = "naming"] ELSE [req EXCEPT ![cmd.by] = Idle]
  BY <1>t, <1>1 DEF ActorSends, Done
<1>3. /\ managed'[c] = [managed[c] EXCEPT !.actor = "driving", !.cmds = Tail(@)]
      /\ \A d \in Conn : d # c => managed'[d] = managed[d]
  BY <1>2, <1>t DEF Typed
<1>4. \A d \in Conn : Alike(d)
  <2>1. /\ managed'[c].cmds = Tail(managed[c].cmds) /\ managed'[c].actor = "driving"
        /\ managed'[c].id = managed[c].id /\ managed'[c].sdk = managed[c].sdk
        /\ managed'[c].status = managed[c].status /\ managed'[c].proc = managed[c].proc
    BY <1>3, <1>t DEF Managed
  <2>2. managed[c].actor = "ready"
    BY <1>1
  <2>3. \A n \in DOMAIN managed'[c].cmds : \E m \in DOMAIN managed[c].cmds : managed'[c].cmds[n] = managed[c].cmds[m]
    BY <1>1, <2>1
  <2>4. ASSUME NEW n \in DOMAIN managed'[c].cmds, managed'[c].cmds[n].kind = "disconnect"
        PROVE  \E m \in DOMAIN managed[c].cmds : managed[c].cmds[m].kind = "disconnect"
    BY <2>3, <2>4
  <2>. QED BY <1>3, <2>1, <2>2, <2>4, AlikeOne
<1>5. cmd.by \in Request /\ req[cmd.by].pc = "sending"
  BY <1>1, CommandParts DEF CommandOf
<1>6. DroppingStays /\ \A p \in Request : StillAbout(p)
  <2>1. StillAbout(cmd.by)
    BY <1>5 DEF StillAbout
  <2>2. CASE req' = [req EXCEPT ![cmd.by].pc = "naming"]
    <3>1. req' = [req EXCEPT ![cmd.by] = [req[cmd.by] EXCEPT !.pc = "naming"]]
      BY <1>t, <1>5, <2>2 DEF Typed
    <3>2. [req[cmd.by] EXCEPT !.pc = "naming"].pc = "naming"
      BY <1>t, <1>5, RequestParts, RequestMoves DEF RequestPc
    <3>. QED BY <1>5, <2>1, <3>1, <3>2, MovesOn
  <2>3. CASE req' = [req EXCEPT ![cmd.by] = Idle]
    BY <1>5, <2>1, <2>3, MovesOn DEF Idle
  <2>. QED BY <1>2, <2>2, <2>3
<1>. QED BY <1>4, <1>6, SameEvictions, StillRows DEF ActorSends

LEMMA ActorInterruptedRows == ASSUME Inv, Inv', RowInv, NEW c \in Conn, ActorInterrupted(c) PROVE RowInv'
<1>t. Typed /\ managed[c] \in Managed /\ managed[c].cmds \in Seq(Command)
  BY ManagedParts DEF Inv
<1>. PICK k \in DOMAIN managed[c].cmds :
       /\ managed[c].cmds[k].kind = "interrupt" /\ managed[c].actor \in {"ready", "driving"}
       /\ managed' = [managed EXCEPT ![c].cmds = RemoveAt(@, k)]
       /\ req' = [req EXCEPT ![managed[c].cmds[k].by] = Idle]
       /\ UNCHANGED << sessions, disconnecting, locks, row, late, overlap, begun, faults >>
  BY DEF ActorInterrupted, Done
<1>. DEFINE by == managed[c].cmds[k].by
<1>1. by \in Request /\ req[by].pc = "interrupting"
  BY CommandParts DEF CommandOf
<1>2. \A n \in DOMAIN RemoveAt(managed[c].cmds, k) : \E m \in DOMAIN managed[c].cmds :
        RemoveAt(managed[c].cmds, k)[n] = managed[c].cmds[m]
  BY <1>t, OneRemoved DEF Inv, CommandsAnswered
<1>3. /\ managed'[c] = [managed[c] EXCEPT !.cmds = RemoveAt(@, k)]
      /\ \A d \in Conn : d # c => managed'[d] = managed[d]
  BY <1>t DEF Typed
<1>4. \A d \in Conn : Alike(d)
  <2>1. /\ managed'[c].cmds = RemoveAt(managed[c].cmds, k) /\ managed'[c].actor = managed[c].actor
        /\ managed'[c].id = managed[c].id /\ managed'[c].sdk = managed[c].sdk
        /\ managed'[c].status = managed[c].status /\ managed'[c].proc = managed[c].proc
    BY <1>3, <1>t DEF Managed
  <2>2. managed[c].actor # "over"
    OBVIOUS
  <2>3. \A n \in DOMAIN managed'[c].cmds : \E m \in DOMAIN managed[c].cmds : managed'[c].cmds[n] = managed[c].cmds[m]
    BY <1>2, <2>1
  <2>4. ASSUME NEW n \in DOMAIN managed'[c].cmds, managed'[c].cmds[n].kind = "disconnect"
        PROVE  \E m \in DOMAIN managed[c].cmds : managed[c].cmds[m].kind = "disconnect"
    BY <2>3, <2>4
  <2>. QED BY <1>3, <2>1, <2>2, <2>4, AlikeOne
<1>5. DroppingStays /\ \A p \in Request : StillAbout(p)
  BY <1>1, MovesOn DEF StillAbout, Idle
<1>. QED BY <1>4, <1>5, SameEvictions, StillRows

\* A disconnect is enqueued for what is being evicted, or has left the registry.
LEMMA EnqueueAlike ==
  ASSUME Inv, NEW c \in Conn, managed'[c].id = managed[c].id, managed'[c].sdk = managed[c].sdk,
         managed'[c].status = managed[c].status, managed'[c].actor = managed[c].actor,
         managed'[c].proc = managed[c].proc,
         managed[c].actor = "over" => managed'[c].cmds = managed[c].cmds,
         \/ managed'[c].cmds = managed[c].cmds
         \/ /\ \E cmd \in Command : managed'[c].cmds = Append(managed[c].cmds, cmd)
            /\ ~ Registered(c)' \/ \E f \in disconnecting' : f.c = c /\ f.step = "disconnect"
         \/ \E cmd \in Command : managed'[c].cmds = Append(managed[c].cmds, cmd) /\ cmd.kind # "disconnect"
  PROVE  Alike(c)
<1>1. managed[c].cmds \in Seq(Command)
  BY ManagedParts DEF Inv
<1>2. ASSUME NEW n \in DOMAIN managed'[c].cmds, managed'[c].cmds[n].kind = "disconnect"
      PROVE  \/ \E m \in DOMAIN managed[c].cmds : managed[c].cmds[m].kind = "disconnect"
             \/ ~ Registered(c)'
             \/ \E f \in disconnecting' : f.c = c /\ f.step = "disconnect"
  <2>1. CASE managed'[c].cmds = managed[c].cmds
    BY <1>2, <2>1
  <2>2. ASSUME NEW cmd \in Command, managed'[c].cmds = Append(managed[c].cmds, cmd), cmd.kind # "disconnect"
        PROVE  \E m \in DOMAIN managed[c].cmds : managed[c].cmds[m].kind = "disconnect"
    <3>1. \/ n \in DOMAIN managed[c].cmds /\ managed'[c].cmds[n] = managed[c].cmds[n]
          \/ managed'[c].cmds[n] = cmd
      BY <1>1, <1>2, <2>2, AppendProperties, LenProperties
    <3>. QED BY <1>2, <2>2, <3>1
  <2>. QED BY <2>1, <2>2
<1>. QED BY <1>2 DEF Alike

LEMMA FlagsAlike ==
  ASSUME Inv, NEW d \in Conn, SameButFlags(managed'[d], managed[d])
  PROVE  Alike(d)
BY EnqueueAlike DEF SameButFlags

LEMMA EvictRows ==
  ASSUME Inv, NEW c \in Conn, sessions[managed[c].id] = c, managed[c].id \in Id,
         NEW by, NEW M \in [Conn -> Managed],
         \A d \in Conn : SameButFlags(M[d], managed[d]), Evict(M, c, by),
         managed[c].status # "running" \/ managed[c].id \in Session
  PROVE  EvictionsStay /\ \A d \in Conn : Alike(d)
<1>. DEFINE f(step) == [id |-> managed[c].id, c |-> c, by |-> by, step |-> step]
<1>1. ASSUME NEW step, step # "persist", disconnecting' = disconnecting \union {f(step)}
      PROVE  EvictionsStay /\ \E g \in disconnecting' : g.c = c /\ g.step = step
  <2>1. f(step).id = managed[c].id /\ f(step).c = c /\ f(step).step = step
    OBVIOUS
  <2>. HIDE DEF f
  <2>. QED BY <1>1, <2>1, OneEviction
<1>2. CASE M[c].timer
  <2>1. managed' = [M EXCEPT ![c].timer = FALSE] /\ disconnecting' = disconnecting \union {f("begin")}
    BY <1>2 DEF Evict
  <2>2. \A d \in Conn : SameButFlags(managed'[d], M[d])
    BY <2>1, FlagsOff
  <2>3. \A d \in Conn : SameButFlags(managed'[d], managed[d])
    BY <2>2 DEF SameButFlags
  <2>. QED BY <1>1, <2>1, <2>3, FlagsAlike
<1>3. CASE ~ M[c].timer
  <2>1. managed' = [M EXCEPT ![c] = Enqueue(M[c], "disconnect", None)] /\ disconnecting' = disconnecting \union {f("disconnect")}
    BY <1>3 DEF Evict
  <2>2. managed'[c] = Enqueue(M[c], "disconnect", None) /\ \A d \in Conn : d # c => managed'[d] = M[d]
    BY <2>1
  <2>3. ASSUME NEW d \in Conn, d # c PROVE Alike(d)
    BY <2>2, <2>3, FlagsAlike
  <2>4. Alike(c)
    <3>1. /\ M[c].id = managed[c].id /\ M[c].sdk = managed[c].sdk /\ M[c].status = managed[c].status
          /\ M[c].actor = managed[c].actor /\ M[c].proc = managed[c].proc /\ M[c].cmds = managed[c].cmds
      BY DEF SameButFlags
    <3>2. LET e == managed'[c]
              cmd == [kind |-> "disconnect", by |-> None] IN
          /\ e.actor = M[c].actor /\ e.id = M[c].id /\ e.sdk = M[c].sdk /\ e.proc = M[c].proc
          /\ e.status = M[c].status /\ cmd \in Command
          /\ M[c].actor = "over" => e.cmds = M[c].cmds
          /\ M[c].actor # "over" => e.cmds = Append(M[c].cmds, cmd)
      <4>1. M[c] \in Managed /\ None \in Request \union {None}
        OBVIOUS
      <4>. QED BY <4>1, <2>2, EnqueueParts
    <3>3. \E g \in disconnecting' : g.c = c /\ g.step = "disconnect"
      BY <1>1, <2>1
    <3>. QED BY <3>1, <3>2, <3>3, EnqueueAlike
  <2>. QED BY <1>1, <2>1, <2>3, <2>4
<1>. QED BY <1>2, <1>3

LEMMA PatrolRows == ASSUME Inv, Inv', RowInv, NEW c \in Conn, Patrol(c) PROVE RowInv'
<1>t. Typed
  BY DEF Inv
<1>1. c \in Conn /\ managed[c].id \in Id /\ sessions[managed[c].id] = c /\ managed[c].status # "running"
  BY ActiveParts DEF Patrol
<1>2. \A d \in Conn : SameButFlags(managed[d], managed[d])
  BY DEF SameButFlags
<1>3. EvictionsStay /\ \A d \in Conn : Alike(d)
  BY <1>t, <1>1, <1>2, EvictRows DEF Patrol, Typed
<1>. QED BY <1>3, NobodyMoves, StillRows DEF Patrol

LEMMA TimerFiresRows == ASSUME Inv, Inv', RowInv, NEW c \in Conn, TimerFires(c) PROVE RowInv'
<1>t. Typed
  BY DEF Inv
<1>. DEFINE d == sessions[managed[c].id]
            M == [managed EXCEPT ![c].timer = FALSE]
            N == [M EXCEPT ![d].timer = FALSE]
<1>1. managed[c].id \in Id /\ managed[c].timer
  <2>1. managed[c].timer
    BY DEF TimerFires
  <2>. QED BY <1>t, <2>1, ManagedParts DEF Inv, IdsOwn
<1>2. d \in Conn \union {None} /\ (d # None => managed[d].id = managed[c].id)
  BY <1>t, <1>1 DEF Typed, Inv, IdsOwn
<1>3. M \in [Conn -> Managed] /\ \A b \in Conn : SameButFlags(M[b], managed[b])
  BY <1>t, FlagsOff DEF Typed
<1>4. \/ managed' = M /\ disconnecting' = disconnecting
      \/ d \in Conn /\ Evict(N, d, None) /\ managed[d].status # "running"
  <2>. HIDE DEF M
  <2>. QED BY <1>2 DEF TimerFires, M, Settled
<1>. HIDE DEF M, d
<1>5. EvictionsStay /\ \A b \in Conn : Alike(b)
  <2>1. CASE managed' = M /\ disconnecting' = disconnecting
    BY <1>3, <2>1, FlagsAlike, SameEvictions
  <2>2. CASE d \in Conn /\ Evict(N, d, None) /\ managed[d].status # "running"
    <3>1. N \in [Conn -> Managed] /\ \A b \in Conn : SameButFlags(N[b], M[b])
      BY <2>2, <1>3, FlagsOff
    <3>. HIDE DEF N
    <3>2. \A b \in Conn : SameButFlags(N[b], managed[b])
      BY <1>3, <3>1 DEF SameButFlags
    <3>3. sessions[managed[d].id] = d /\ managed[d].id \in Id
      BY <1>1, <1>2, <2>2, SessionAssumption DEF d
    <3>. QED BY <2>2, <3>1, <3>2, <3>3, EvictRows
  <2>. QED BY <1>4, <2>1, <2>2
<1>. QED BY <1>5, NobodyMoves, StillRows DEF TimerFires

LEMMA DeleteArrivesRows ==
  ASSUME Inv, Inv', RowInv, NEW r \in Request, NEW s \in Session, DeleteArrives(r, s) PROVE RowInv'
<1>t. Typed /\ s # None /\ s \in Id
  BY SessionAssumption DEF Inv, Id
<1>. DEFINE d == sessions[s]
            M == [managed EXCEPT ![d].asking = FALSE]
<1>1. d \in Conn \union {None} /\ (d # None => managed[d].id = s)
  BY <1>t DEF Typed, Inv, IdsOwn
<1>2. d \in Conn => M \in [Conn -> Managed] /\ \A b \in Conn : SameButFlags(M[b], managed[b])
  BY <1>t, FlagsOff DEF Typed
<1>3. PICK pc \in {"evicting", "deleting"} :
        /\ Begins(r, "delete", s, pc)
        /\ \/ d \in Conn /\ Evict(M, d, r)
           \/ disconnecting' = disconnecting /\ (managed' = managed \/ (d \in Conn /\ managed' = M))
  <2>. HIDE DEF M
  <2>. QED BY <1>1 DEF DeleteArrives, Usable, M
<1>. HIDE DEF M
<1>4. PICK n \in Requested : n.pc = pc /\ req[r].pc = "idle" /\ req' = [req EXCEPT ![r] = n]
  BY <1>3, BeginsTyped DEF RequestPc
<1>. HIDE DEF d
<1>5. EvictionsStay /\ \A b \in Conn : Alike(b)
  <2>1. CASE disconnecting' = disconnecting /\ managed' = managed
    BY <2>1, SameEvictions DEF Alike
  <2>2. CASE disconnecting' = disconnecting /\ d \in Conn /\ managed' = M
    BY <1>2, <2>2, FlagsAlike, SameEvictions
  <2>3. CASE d \in Conn /\ Evict(M, d, r)
    <3>1. sessions[managed[d].id] = d /\ managed[d].id \in Id /\ managed[d].id \in Session
      BY <1>t, <1>1, <2>3, SessionAssumption DEF d
    <3>. QED BY <1>2, <2>3, <3>1, EvictRows
  <2>. QED BY <1>3, <2>1, <2>2, <2>3
<1>6. DroppingStays /\ \A p \in Request : StillAbout(p)
  BY <1>4, MovesOn DEF StillAbout
<1>. QED BY <1>5, <1>6, StillRows DEF DeleteArrives

LEMMA HangUpRows == ASSUME Inv, Inv', RowInv, NEW e \in disconnecting, HangUp(e) PROVE RowInv'
<1>. PICK c \in Conn : c = e.c
  BY DEF Inv, Typed, Evicting
<1>t. Typed /\ managed[c] \in Managed
  BY ManagedParts DEF Inv
<1>1. managed' = [managed EXCEPT ![c] = Enqueue(managed[c], "disconnect", None)] /\ Step(e, "disconnect")
  BY <1>t DEF HangUp, Typed
<1>2. managed'[c] = Enqueue(managed[c], "disconnect", None) /\ \A d \in Conn : d # c => managed'[d] = managed[d]
  BY <1>1, <1>t DEF Typed
<1>3. EvictionsStay /\ \E f \in disconnecting' : f.c = c /\ f.step = "disconnect"
  BY <1>1, EvictionStepped
<1>4. LET m == managed'[c]
          cmd == [kind |-> "disconnect", by |-> None] IN
      /\ m.actor = managed[c].actor /\ m.id = managed[c].id /\ m.sdk = managed[c].sdk /\ m.proc = managed[c].proc
      /\ m.status = managed[c].status /\ cmd \in Command
      /\ managed[c].actor = "over" => m.cmds = managed[c].cmds
      /\ managed[c].actor # "over" => m.cmds = Append(managed[c].cmds, cmd)
  <2>1. None \in Request \union {None}
    OBVIOUS
  <2>. QED BY <1>t, <1>2, <2>1, EnqueueParts
<1>5. \A d \in Conn : Alike(d)
  <2>1. Alike(c)
    BY <1>3, <1>4, EnqueueAlike
  <2>. QED BY <1>2, <2>1, FlagsAlike DEF SameButFlags
<1>. QED BY <1>3, <1>5, NobodyMoves, StillRows DEF HangUp

LEMMA FastPathRows ==
  ASSUME Inv, Inv', RowInv, NEW r \in Request, req[r].pc \in {"looking", "queued"}, Usable(req[r].sid),
         Attach(r, sessions[req[r].sid], managed),
         UNCHANGED << sessions, disconnecting, locks, row, late, overlap, begun, faults >>
  PROVE  RowInv'
<1>t. Typed /\ req[r].op = "send" /\ req[r].sid \in Session /\ req[r].sid \in Id /\ req[r] \in Requested
  BY RequestParts DEF Inv, Purposes, PurposeOf, Id
<1>1. PICK c \in Conn : c = sessions[req[r].sid]
  BY <1>t DEF Usable, Typed
<1>. DEFINE M == [managed EXCEPT ![c].timer = FALSE]
            q == [req[r] EXCEPT !.pc = "marking", !.c = c]
<1>2. M \in [Conn -> Managed] /\ \A b \in Conn : SameButFlags(M[b], managed[b])
  BY <1>t, FlagsOff DEF Typed
<1>3. managed' = M /\ (req' = Done(r) \/ req' = [req EXCEPT ![r].pc = "marking", ![r].c = c])
  BY <1>1 DEF Attach
<1>. HIDE DEF M
<1>4. \A d \in Conn : Alike(d)
  BY <1>2, <1>3, FlagsAlike
<1>5. req' = [req EXCEPT ![r] = Idle] \/ req' = [req EXCEPT ![r] = q]
  BY <1>3, <1>t DEF Done, Typed
<1>6. q.pc = "marking"
  BY <1>t DEF Requested
<1>. HIDE DEF q
<1>7. DroppingStays /\ \A p \in Request : StillAbout(p)
  BY <1>5, <1>6, MovesOn DEF StillAbout, Idle
<1>. QED BY <1>4, <1>7, SameEvictions, StillRows

LEMMA LetInRows ==
  ASSUME Inv, Inv', RowInv, NEW r \in Request, NEW n, req[r].pc \in {"looking", "queued"}, Inside(r, n),
         UNCHANGED << sessions, disconnecting, locks, row, late, begun, faults >>
  PROVE  RowInv'
<1>t. Typed /\ req[r] \in Requested
  BY RequestParts DEF Inv
<1>. DEFINE q == [req[r] EXCEPT !.pc = "capacity", !.lock = n]
<1>1. req' = [req EXCEPT ![r] = q]
  BY <1>t DEF Inside, Typed
<1>2. q.pc = "capacity"
  BY <1>t DEF Requested
<1>. HIDE DEF q
<1>3. DroppingStays /\ \A p \in Request : StillAbout(p)
  BY <1>1, <1>2, MovesOn DEF StillAbout
<1>. QED BY <1>3, SameEvictions, StillRows DEF Inside, Alike

LEMMA LookUpRows == ASSUME Inv, Inv', RowInv, NEW r \in Request, LookUp(r) PROVE RowInv'
<1>t. Typed /\ req[r].pc = "looking" /\ req[r] \in Requested
  BY RequestParts DEF Inv, LookUp, At
<1>0. UNCHANGED << sessions, disconnecting, locks, row, late, begun, faults >>
  BY DEF LookUp
<1>1. CASE Usable(req[r].sid) /\ Attach(r, sessions[req[r].sid], managed) /\ UNCHANGED overlap
  BY <1>t, <1>0, <1>1, FastPathRows
<1>2. CASE Inside(r, locks[req[r].sid])
  BY <1>t, <1>0, <1>2, LetInRows
<1>3. CASE /\ req' = [req EXCEPT ![r].pc = "queued", ![r].lock = locks[req[r].sid]]
           /\ UNCHANGED << managed, overlap >>
  <2>. DEFINE q == [req[r] EXCEPT !.pc = "queued", !.lock = locks[req[r].sid]]
  <2>1. req' = [req EXCEPT ![r] = q]
    BY <1>t, <1>3 DEF Typed
  <2>2. q.pc = "queued"
    BY <1>t DEF Requested
  <2>. HIDE DEF q
  <2>3. DroppingStays /\ \A p \in Request : StillAbout(p)
    BY <1>t, <2>1, <2>2, MovesOn DEF StillAbout
  <2>. QED BY <1>0, <1>3, <2>3, SameEvictions, StillRows DEF Alike
<1>. QED BY <1>1, <1>2, <1>3 DEF LookUp

LEMMA AcquireLockRows == ASSUME Inv, Inv', RowInv, NEW r \in Request, AcquireLock(r) PROVE RowInv'
<1>t. req[r].pc = "queued"
  BY DEF AcquireLock, At
<1>0. UNCHANGED << sessions, disconnecting, locks, row, late, begun, faults >>
  BY DEF AcquireLock
<1>1. CASE Usable(req[r].sid)
  BY <1>t, <1>0, <1>1, FastPathRows DEF AcquireLock, Recheck
<1>2. CASE ~ Usable(req[r].sid)
  BY <1>t, <1>0, <1>2, LetInRows DEF AcquireLock, Recheck
<1>. QED BY <1>1, <1>2

LEMMA StartedRows == ASSUME Inv, Inv', RowInv, NEW r \in Request, Started(r) PROVE RowInv'
<1>t. Typed /\ PurposeOf(r) /\ req[r].pc = "starting" /\ req[r] \in Requested
  BY RequestParts DEF Inv, Purposes, Started, At
<1>1. PICK c \in Conn : c = req[r].c /\ managed[c].actor = "starting" /\ managed[c] \in Managed
  BY <1>t, ManagedParts DEF PurposeOf, Attached
<1>. DEFINE k == [managed[c] EXCEPT !.actor = "ready", !.proc = "waiting"]
            up == [managed EXCEPT ![c].actor = "ready", ![c].proc = "waiting"]
<1>2. /\ k \in Managed /\ k.actor = "ready" /\ k.id = managed[c].id /\ k.sdk = managed[c].sdk
      /\ k.proc = "waiting" /\ k.status = managed[c].status /\ k.cmds = managed[c].cmds
  BY <1>1 DEF Managed, ProcState
<1>3. up = [managed EXCEPT ![c] = k]
  BY <1>t DEF Typed
<1>. HIDE DEF k
<1>4. up \in [Conn -> Managed] /\ up[c] = k /\ \A d \in Conn : d # c => up[d] = managed[d]
  BY <1>t, <1>2, <1>3 DEF Typed
<1>5. managed[c].proc = "off"
  BY <1>1 DEF Inv, IdsOwn
<1>0. UNCHANGED << sessions, disconnecting, locks, row, late, overlap, begun, faults >>
  BY DEF Started
<1>6. CASE req[r].op = "send"
  <2>. DEFINE q == [req[r] EXCEPT !.pc = "marking", !.c = c]
  <2>1. /\ managed' = [up EXCEPT ![c].timer = FALSE]
        /\ req' = IF up[c].status = "running" THEN Done(r) ELSE [req EXCEPT ![r].pc = "marking", ![r].c = c]
    <3>. HIDE DEF up
    <3>. QED BY <1>1, <1>6 DEF Started, Attach, up
  <2>. HIDE DEF up
  <2>2. \A b \in Conn : SameButFlags(managed'[b], up[b])
    BY <1>4, <2>1, FlagsOff
  <2>3. \A d \in Conn : d # c => Alike(d)
    BY <1>4, <2>2, FlagsAlike
  <2>4. Alike(c)
    <3>1. /\ managed'[c].actor = "ready" /\ managed'[c].id = managed[c].id /\ managed'[c].sdk = managed[c].sdk
          /\ managed'[c].status = managed[c].status /\ managed'[c].cmds = managed[c].cmds
      BY <1>2, <1>4, <2>2 DEF SameButFlags
    <3>2. \A n \in DOMAIN managed'[c].cmds : managed'[c].cmds[n].kind = "disconnect" =>
            \E m \in DOMAIN managed[c].cmds : managed[c].cmds[m].kind = "disconnect"
      BY <3>1
    <3>. QED BY <1>1, <1>5, <3>1, <3>2 DEF Alike
  <2>5. /\ \/ req' = [req EXCEPT ![r] = Idle] /\ managed[c].status = "running"
           \/ req' = [req EXCEPT ![r] = q]
        /\ q.pc = "marking" /\ q.sid = req[r].sid
    BY <1>t, <1>2, <1>4, <2>1 DEF Done, Typed, Requested
  <2>. HIDE DEF q
  <2>6. req[r].sid \in overlap \/ sessions[req[r].sid] \in {None, c}
    <3>1. req[r].sid \in Session /\ Holds(r, req[r].sid)
      BY <1>t, <1>6 DEF PurposeOf, Holds
    <3>. QED BY <1>t, <1>1, <3>1 DEF Inv, LockedOut
  <2>7. StillAbout(r) /\ DroppingStays /\ \A p \in Request : StillAbout(p)
    <3>1. req'[r] = q \/ (req'[r] = Idle /\ managed[c].status = "running")
      BY <1>t, <2>5 DEF Typed
    <3>2. StillAbout(r)
      BY <1>0, <3>1, <2>5, <2>6 DEF StillAbout
    <3>. QED BY <2>5, <3>2, MovesOn DEF Idle
  <2>. QED BY <1>0, <2>3, <2>4, <2>7, SameEvictions, StillRows
<1>7. CASE req[r].op # "send"
  <2>. DEFINE q == [req[r] EXCEPT !.pc = "sending"]
  <2>1. managed' = [up EXCEPT ![c] = Enqueue(up[c], "query", r)] /\ req' = [req EXCEPT ![r].pc = "sending"]
    <3>. HIDE DEF up
    <3>. QED BY <1>1, <1>4, <1>7 DEF Started, up
  <2>. HIDE DEF up
  <2>2. managed'[c] = Enqueue(k, "query", r) /\ \A d \in Conn : d # c => managed'[d] = managed[d]
    BY <1>4, <2>1
  <2>3. /\ managed'[c].actor = "ready" /\ managed'[c].id = managed[c].id /\ managed'[c].sdk = managed[c].sdk
        /\ managed'[c].status = managed[c].status
        /\ \E cmd \in Command : managed'[c].cmds = Append(managed[c].cmds, cmd) /\ cmd.kind # "disconnect"
    <3>. DEFINE m == Enqueue(k, "query", r)
                cmd == [kind |-> "query", by |-> r]
    <3>1. /\ m.actor = k.actor /\ m.id = k.id /\ m.sdk = k.sdk /\ m.status = k.status
          /\ cmd \in Command /\ cmd.kind = "query" /\ m.cmds = Append(k.cmds, cmd)
      BY <1>2, EnqueueParts
    <3>2. managed'[c] = m
      BY <2>2
    <3>. HIDE DEF m, cmd
    <3>. QED BY <1>2, <3>1, <3>2
  <2>4. \A d \in Conn : Alike(d)
    <3>1. managed[c].cmds \in Seq(Command)
      BY <1>t, ManagedParts
    <3>2. ASSUME NEW n \in DOMAIN managed'[c].cmds, managed'[c].cmds[n].kind = "disconnect"
          PROVE  \E m \in DOMAIN managed[c].cmds : managed[c].cmds[m].kind = "disconnect"
      <4>1. PICK cmd \in Command : managed'[c].cmds = Append(managed[c].cmds, cmd) /\ cmd.kind # "disconnect"
        BY <2>3
      <4>2. \/ n \in DOMAIN managed[c].cmds /\ managed'[c].cmds[n] = managed[c].cmds[n]
            \/ managed'[c].cmds[n] = cmd
        BY <3>1, <3>2, <4>1, AppendProperties, LenProperties
      <4>. QED BY <3>2, <4>1, <4>2
    <3>. QED BY <1>1, <1>5, <2>2, <2>3, <3>2, AlikeOne
  <2>5. req' = [req EXCEPT ![r] = q]
    BY <1>t, <2>1 DEF Typed
  <2>6. q.pc = "sending" /\ req[r].sid = None
    BY <1>t, <1>7, RequestMoves DEF PurposeOf, RequestPc
  <2>. HIDE DEF q
  <2>7. DroppingStays /\ \A p \in Request : StillAbout(p)
    BY <2>5, <2>6, MovesOn DEF StillAbout
  <2>. QED BY <1>0, <2>4, <2>7, SameEvictions, StillRows
<1>. QED BY <1>6, <1>7

LEMMA NamingFailsRows == ASSUME Inv, Inv', RowInv, NEW r \in Request, NamingFails(r) PROVE RowInv'
<1>t. Typed /\ req[r] \in Requested /\ PurposeOf(r) /\ req[r].pc = "naming"
  BY RequestParts DEF Inv, Purposes, NamingFails, At
<1>1. PICK c \in Conn : c = req[r].c /\ managed[c].actor # "none" /\ managed[c] \in Managed /\ managed[c].id = c
  BY <1>t, ManagedParts DEF PurposeOf, Attached
<1>. DEFINE k == [managed[c] EXCEPT !.asking = FALSE]
            m == Enqueue(k, "disconnect", None)
            cmd == [kind |-> "disconnect", by |-> None]
            n == [req[r] EXCEPT !.pc = "dropping"]
<1>2. /\ managed' = [managed EXCEPT ![c] = m] /\ req' = [req EXCEPT ![r] = n]
      /\ sessions' = [sessions EXCEPT ![c] = None]
      /\ UNCHANGED << disconnecting, locks, row, late, overlap, begun, faults >>
  BY <1>t, <1>1 DEF NamingFails, Typed
<1>3. /\ k \in Managed /\ k.actor = managed[c].actor /\ k.id = managed[c].id /\ k.sdk = managed[c].sdk
      /\ k.proc = managed[c].proc /\ k.status = managed[c].status /\ k.cmds = managed[c].cmds
  BY <1>1 DEF Managed
<1>. HIDE DEF k
<1>4. /\ m.actor = k.actor /\ m.id = k.id /\ m.sdk = k.sdk /\ m.proc = k.proc /\ m.status = k.status
      /\ m \in Managed /\ cmd \in Command
      /\ k.actor = "over" => m = k
      /\ k.actor # "over" => m.cmds = Append(k.cmds, cmd)
  BY <1>3, EnqueueParts
<1>5. n.pc = "dropping" /\ n.c = c
  BY ZenonT(50), <1>t, <1>1, RequestMoves DEF RequestPc
<1>. HIDE DEF m, cmd, n
<1>6. managed'[c] = m /\ \A d \in Conn : d # c => managed'[d] = managed[d]
  BY <1>t, <1>2, <1>4, ChangeOne
<1>7. ~ Registered(c)'
  <2>1. ASSUME NEW i \in Id, sessions'[i] = c PROVE FALSE
    <3>1. i # c /\ sessions[i] = c
      BY <1>t, <1>2, <2>1, SessionAssumption DEF Typed
    <3>. QED BY <1>1, <3>1, SessionAssumption DEF Inv, IdsOwn
  <2>. QED BY <2>1 DEF Registered
<1>8. \A d \in Conn : Alike(d)
  <2>1. Alike(c)
    BY <1>3, <1>4, <1>6, <1>7, EnqueueAlike
  <2>. QED BY <1>6, <2>1, FlagsAlike DEF SameButFlags
<1>9. \A i \in Id : sessions'[i] \in {None, sessions[i]}
  BY <1>t, <1>2 DEF Typed
<1>10. DroppingStays /\ \A p \in Request : StillAbout(p)
  BY <1>t, <1>1, <1>2, <1>5, MovesOn DEF StillAbout
<1>. QED BY <1>2, <1>8, <1>9, <1>10, SameEvictions, StillRows

\* A session is refused, or another makes room for it.
LEMMA WaitsRows ==
  ASSUME Inv, Inv', RowInv, NEW r \in Request, At(r, "capacity"),
         \/ \E c \in Active : /\ managed[c].status # "running" /\ Evict(managed, c, r)
                              /\ req' = [req EXCEPT ![r].pc = "evicting"]
         \/ req' = Done(r) /\ UNCHANGED << managed, disconnecting >>,
         UNCHANGED << sessions, locks, row, late, overlap, begun, faults >>
  PROVE  RowInv'
<1>t. Typed /\ req[r] \in Requested /\ req[r].pc = "capacity"
  BY RequestParts DEF Inv, At
<1>1. ASSUME NEW c \in Active, managed[c].status # "running", Evict(managed, c, r),
             req' = [req EXCEPT ![r].pc = "evicting"]
      PROVE  RowInv'
  <2>1. c \in Conn /\ managed[c].id \in Id /\ sessions[managed[c].id] = c
    BY ActiveParts
  <2>2. \A d \in Conn : SameButFlags(managed[d], managed[d])
    BY DEF SameButFlags
  <2>3. EvictionsStay /\ \A d \in Conn : Alike(d)
    BY <1>t, <1>1, <2>1, <2>2, EvictRows DEF Typed
  <2>. DEFINE q == [req[r] EXCEPT !.pc = "evicting"]
  <2>4. req' = [req EXCEPT ![r] = q] /\ q.pc = "evicting"
    BY <1>t, <1>1, RequestMoves DEF Typed, RequestPc
  <2>. HIDE DEF q
  <2>5. DroppingStays /\ \A p \in Request : StillAbout(p)
    BY <1>t, <2>4, MovesOn DEF StillAbout
  <2>. QED BY <2>3, <2>5, StillRows
<1>2. CASE req' = Done(r) /\ UNCHANGED << managed, disconnecting >>
  <2>1. DroppingStays /\ \A p \in Request : StillAbout(p)
    BY <1>t, <1>2, MovesOn DEF StillAbout, Done, Idle
  <2>. QED BY <1>2, <2>1, SameEvictions, StillRows DEF Alike
<1>. QED BY <1>1, <1>2

LEMMA UnchangedRows == ASSUME Inv, Inv', RowInv, UNCHANGED vars PROVE RowInv'
BY NobodyMoves, SameEvictions, StillRows DEF vars, Alike

--------------------------------------------------------------------------------
(* Steps in which the status of one object changes. *)

LEMMA SameGoesOn ==
  ASSUME RowInv, NEW d \in Conn, managed'[d] = managed[d]
  PROVE  ObjectGoesOn(d)
BY DEF ObjectGoesOn, RowInv, Parting

\* Whoever changes a status that is not recorded will write it.
LEMMA Tells ==
  ASSUME Inv, Inv', RowInv, NEW c \in Conn, \A d \in Conn : d # c => managed'[d] = managed[d], ObjectGoesOn(c),
         \A i \in Id : sessions'[i] \in {None, sessions[i]}, EvictionsStay, DroppingStays,
         \A r \in Request : StillAbout(r), row' = row, late \subseteq late', overlap' = overlap,
         managed[c].proc = "finalizing" /\ managed[c].id \in Session => managed'[c].proc = "finalizing",
         \/ managed'[c].status = managed[c].status
         \/ managed'[c].status \in {"error", "closed"} /\ managed[c].status # "running"
         \/ \A s \in Session : s = managed[c].id => sessions'[s] # c \/ ToWrite(s)'
  PROVE  RowInv'
<1>c. None \notin Conn /\ None \notin Session /\ Session \subseteq Id
  BY SessionAssumption DEF Id
<1>1. \A d \in Conn : ObjectGoesOn(d)
  BY SameGoesOn
<1>2. KeysStay
  BY DEF KeysStay
<1>3. ASSUME NEW s \in Session \ overlap' PROVE RowGoesOn(s)
  <2>. SUFFICES ASSUME row[s] = "running", sessions'[s] # None, ~ ToWrite(s)', managed'[sessions'[s]].status # "running"
                PROVE  /\ ~ ToWrite(s) /\ sessions[s] = sessions'[s]
                       /\ \/ managed'[sessions[s]].status = managed[sessions[s]].status
                          \/ managed'[sessions[s]].status \in {"error", "closed"} /\ managed[sessions[s]].status # "running"
    BY DEF RowGoesOn
  <2>1. sessions[s] = sessions'[s] /\ sessions[s] \in Conn /\ managed[sessions[s]].actor # "none"
        /\ managed[sessions[s]].id = s
    BY <1>c DEF Inv, Typed, IdsOwn
  <2>status. \/ managed'[sessions[s]].status = managed[sessions[s]].status
             \/ managed'[sessions[s]].status \in {"error", "closed"} /\ managed[sessions[s]].status # "running"
    <3>1. CASE sessions[s] = c
      BY <2>1, <3>1
    <3>. QED BY <2>1, <3>1
  <2>calm. ~ Disconnecting(s)
    BY <2>1 DEF ToWrite, Disconnecting, EvictionsStay, New
  <2>nobody. ASSUME NEW r \in Request, req[r].sid = s, req[r].pc \in {"starting", "marking", "failing"} PROVE FALSE
    <3>1. StillAbout(r) /\ req[r].sid # None
      BY <2>nobody, <1>c
    <3>2. managed[sessions[s]].status # "running"
      BY <2>1, <2>status
    <3>. QED BY <2>1, <2>nobody, <3>1, <3>2 DEF StillAbout, ToWrite
  <2>settled. managed[sessions[s]].proc # "finalizing"
    BY <2>1 DEF ToWrite
  <2>. QED BY <2>1, <2>status, <2>calm, <2>nobody, <2>settled DEF ToWrite
<1>. QED BY <1>1, <1>2, <1>3, RowsKept

\* An actor that was up ends.
LEMMA EndsRows ==
  ASSUME Inv, NEW c \in Conn, managed[c].actor \in {"ready", "driving"}, NEW status \in Status,
         managed' = [managed EXCEPT ![c] = Over(managed[c], status)],
         \/ status = "error" \/ ~ Registered(c)'
         \/ \E s \in Session : s = managed[c].id /\ (status # "running" \/ Disconnecting(s)')
  PROVE  /\ ObjectGoesOn(c) /\ managed'[c].status = status /\ managed'[c].proc = managed[c].proc
         /\ \A d \in Conn : d # c => managed'[d] = managed[d]
<1>t. Typed /\ managed[c] \in Managed
  BY ManagedParts DEF Inv
<1>. DEFINE m == Over(managed[c], status)
<1>1. /\ m \in Managed /\ m.actor = "over" /\ m.cmds = << >> /\ m.id = managed[c].id /\ m.sdk = managed[c].sdk
      /\ m.proc = managed[c].proc /\ m.status = status
  BY <1>t, OverParts
<1>2. managed' = [managed EXCEPT ![c] = m]
  OBVIOUS
<1>. HIDE DEF m
<1>3. managed'[c] = m /\ \A d \in Conn : d # c => managed'[d] = managed[d]
  BY <1>t, <1>1, <1>2, ChangeOne
<1>4. \A n \in DOMAIN managed'[c].cmds : FALSE
  BY <1>1, <1>3, EmptySeq
<1>. QED BY <1>1, <1>3, <1>4 DEF ObjectGoesOn

LEMMA RefusedRows ==
  ASSUME Inv, NEW c, \A q \in Request : req'[q] = Refused(c)[q] \/ (req'[q] = Idle /\ StillAbout(q))
  PROVE  DroppingStays /\ \A p \in Request : StillAbout(p)
<1>1. ASSUME NEW q \in Request, req'[q] = Refused(c)[q]
      PROVE  req'[q].c = req[q].c /\ req'[q].sid = req[q].sid
             /\ req'[q].pc \in {req[q].pc, "failed", "unheard"} /\ (req'[q].pc # req[q].pc => req[q].pc \in {"sending", "interrupting"})
  <2>1. req[q] \in Requested
    BY RequestParts DEF Inv
  <2>. DEFINE f == [req[q] EXCEPT !.pc = "failed"]
              u == [req[q] EXCEPT !.pc = "unheard"]
  <2>2. req'[q] = req[q] \/ (req'[q] \in {f, u} /\ req[q].pc \in {"sending", "interrupting"})
    BY <1>1 DEF Refused
  <2>3. f.pc = "failed" /\ f.c = req[q].c /\ f.sid = req[q].sid /\ u.pc = "unheard" /\ u.c = req[q].c /\ u.sid = req[q].sid
    BY <2>1, RequestMoves DEF RequestPc
  <2>. HIDE DEF f, u
  <2>. QED BY <2>2, <2>3
<1>. QED BY <1>1 DEF DroppingStays, StillAbout, Idle

LEMMA ActorLeavesRows == ASSUME Inv, Inv', RowInv, NEW c \in Conn, ActorLeaves(c) PROVE RowInv'
<1>t. Typed /\ managed[c].status \in Status
  BY ManagedParts DEF Inv
<1>0. UNCHANGED << sessions, disconnecting, locks, row, late, overlap, begun, faults >>
  BY DEF ActorLeaves
<1>. PICK n \in DOMAIN managed[c].cmds : managed[c].cmds[n].kind = "disconnect"
  BY DEF ActorLeaves
<1>1. /\ managed[c].actor \in {"ready", "driving"} /\ req' = Refused(c)
      /\ managed' = [managed EXCEPT ![c] = Over(managed[c], managed[c].status)]
  BY <1>t DEF ActorLeaves, Typed
<1>2. ~ Registered(c)' \/ \E s \in Session : s = managed[c].id /\ Disconnecting(s)'
  <2>1. ASSUME Registered(c) PROVE managed[c].id \in Session /\ Disconnecting(managed[c].id)
    <3>1. PICK e \in disconnecting : e.c = c /\ e.step = "disconnect"
      BY <2>1 DEF RowInv, Parting
    <3>2. e.id \in Id /\ (e.id \in Session => managed[c].id = e.id) /\ e.id \notin Conn
      BY <1>1, <3>1, <1>t DEF RowInv, Origins, Typed, Evicting
    <3>. QED BY <3>2 DEF Id, Disconnecting
  <2>. QED BY <1>0, <2>1 DEF Registered, Disconnecting
<1>3. /\ ObjectGoesOn(c) /\ managed'[c].status = managed[c].status /\ managed'[c].proc = managed[c].proc
      /\ \A d \in Conn : d # c => managed'[d] = managed[d]
  BY <1>t, <1>1, <1>2, EndsRows
<1>. QED BY <1>0, <1>1, <1>3, RefusedRows, SameEvictions, Tells

LEMMA ActorCrashesRows == ASSUME Inv, Inv', RowInv, NEW c \in Conn, ActorCrashes(c) PROVE RowInv'
<1>t. Typed /\ "error" \in Status
  BY DEF Inv, Status, Settled
<1>0. UNCHANGED << sessions, disconnecting, locks, row, overlap, begun >>
  BY DEF ActorCrashes
<1>1. /\ managed[c].actor \in {"ready", "driving"} /\ req' = Refused(c)
      /\ managed' = [managed EXCEPT ![c] = Over(managed[c], "error")]
      /\ late' = late \union ({managed[c].id} \intersect Session)
  BY <1>t DEF ActorCrashes, Typed
<1>2. \A s \in Session : s = managed[c].id => ToWrite(s)'
  BY <1>1 DEF ToWrite
<1>3. /\ ObjectGoesOn(c) /\ managed'[c].status = "error" /\ managed'[c].proc = managed[c].proc
      /\ \A d \in Conn : d # c => managed'[d] = managed[d]
  BY <1>t, <1>1, EndsRows
<1>4. late \subseteq late'
  BY <1>1
<1>. QED BY <1>0, <1>1, <1>2, <1>3, <1>4, RefusedRows, SameEvictions, Tells

LEMMA DisconnectTimesOutRows ==
  ASSUME Inv, Inv', RowInv, NEW e \in disconnecting, DisconnectTimesOut(e) PROVE RowInv'
<1>t. Typed /\ e.c \in Conn /\ e.id \in Id /\ "interrupted" \in Status /\ "interrupted" # "running"
  BY DEF Inv, Typed, Evicting, Status, Settled
<1>. PICK c \in Conn : c = e.c
  BY <1>t
<1>0. UNCHANGED << sessions, locks, row, late, overlap, begun >>
  BY DEF DisconnectTimesOut
<1>1. /\ managed[c].actor \in {"ready", "driving"} /\ req' = Refused(c)
      /\ managed' = [managed EXCEPT ![c] = Over(managed[c], "interrupted")]
      /\ Step(e, "drain")
  BY <1>t DEF DisconnectTimesOut, Typed
<1>2. e.id \in Session /\ managed[c].id = e.id
  BY <1>t, <1>1 DEF RowInv, Origins, Id
<1>3. /\ ObjectGoesOn(c) /\ managed'[c].proc = managed[c].proc
      /\ \A d \in Conn : d # c => managed'[d] = managed[d]
  BY <1>t, <1>1, <1>2, EndsRows
<1>4. managed'[e.c].cmds = << >>
  BY <1>t, <1>1, OverParts, ManagedParts DEF Typed
<1>5. EvictionsStay /\ \E f \in disconnecting' : f.id = e.id /\ f.c = e.c /\ f.step = "drain"
  BY <1>1, <1>4, EvictionStepped
<1>6. \A s \in Session : s = managed[c].id => ToWrite(s)'
  BY <1>2, <1>5 DEF ToWrite, Disconnecting
<1>. QED BY <1>0, <1>1, <1>3, <1>5, <1>6, RefusedRows, Tells

LEMMA StartFailsRows == ASSUME Inv, Inv', RowInv, NEW r \in Request, StartFails(r) PROVE RowInv'
<1>t. Typed /\ PurposeOf(r) /\ req[r].pc = "starting" /\ None \notin Conn /\ Conn \subseteq Id
  BY SessionAssumption DEF Inv, Purposes, StartFails, At, Id
<1>1. PICK c \in Conn : c = req[r].c /\ managed[c].actor = "starting" /\ managed[c] \in Managed
  BY <1>t, ManagedParts DEF PurposeOf, Attached
<1>. DEFINE m == [managed[c] EXCEPT !.actor = "over", !.cmds = << >>]
<1>2. /\ managed' = [managed EXCEPT ![c] = m] /\ sessions' = [sessions EXCEPT ![managed[c].id] = None]
      /\ req' = [Refused(c) EXCEPT ![r] = Idle]
      /\ UNCHANGED << disconnecting, locks, row, late, overlap, begun >>
  BY <1>t, <1>1 DEF StartFails, Typed
<1>3. /\ m.actor = "over" /\ m.cmds = << >> /\ m.id = managed[c].id /\ m.sdk = managed[c].sdk
      /\ m.proc = managed[c].proc /\ m.status = managed[c].status
  BY <1>1 DEF Managed
<1>. HIDE DEF m
<1>4. managed'[c] = m /\ \A d \in Conn : d # c => managed'[d] = managed[d]
  BY <1>t, <1>2 DEF Typed
<1>5. ~ Registered(c)'
  <2>1. ASSUME NEW i \in Id, sessions'[i] = c PROVE FALSE
    <3>1. i # managed[c].id /\ sessions[i] = c
      BY <1>t, <1>2, <2>1 DEF Typed
    <3>. QED BY <3>1, <1>t DEF Inv, IdsOwn
  <2>. QED BY <2>1 DEF Registered
<1>6. ObjectGoesOn(c)
  <2>1. \A n \in DOMAIN managed'[c].cmds : FALSE
    BY <1>3, <1>4, EmptySeq
  <2>. QED BY <1>1, <1>3, <1>4, <1>5, <2>1 DEF ObjectGoesOn
<1>7. \A i \in Id : sessions'[i] \in {None, sessions[i]}
  BY <1>t, <1>2 DEF Typed
<1>8. StillAbout(r)
  <2>1. CASE req[r].op = "send"
    <3>1. req[r].sid \in Session /\ managed[c].id = req[r].sid
      BY <1>t, <1>1, <2>1 DEF PurposeOf
    <3>2. sessions'[req[r].sid] = None
      BY <1>t, <1>2, <3>1 DEF Typed, Id
    <3>. QED BY <3>2 DEF StillAbout
  <2>2. CASE req[r].op # "send"
    BY <1>t, <2>2 DEF PurposeOf, StillAbout
  <2>. QED BY <2>1, <2>2
<1>9. DroppingStays /\ \A p \in Request : StillAbout(p)
  <2>1. req'[r] = Idle /\ \A q \in Request : q # r => req'[q] = Refused(c)[q]
    BY <1>t, <1>2, RefusedTyped
  <2>. QED BY <1>8, <2>1, RefusedRows
<1>. QED BY <1>2, <1>3, <1>4, <1>6, <1>7, <1>9, SameEvictions, Tells

LEMMA ProcessInboxRows == ASSUME Inv, Inv', RowInv, NEW c \in Conn, ProcessInbox(c) PROVE RowInv'
<1>t. Typed /\ managed[c] \in Managed /\ managed[c].proc = "waiting" /\ managed[c].inbox # << >>
      /\ managed[c].inbox \in Seq(News) /\ None \notin Conn /\ managed[c].sdk \in Session \union {None}
  BY SessionAssumption, ManagedParts DEF Inv, ProcessInbox
<1>0. UNCHANGED << sessions, disconnecting, locks, row, late, req, overlap, begun, faults >>
  BY DEF ProcessInbox
<1>1. Head(managed[c].inbox) = managed[c].inbox[1] /\ 1 \in DOMAIN managed[c].inbox
  BY <1>t, HeadTailProperties, LenProperties, EmptySeq
<1>2. PICK m \in Managed : /\ managed' = [managed EXCEPT ![c] = m]
                           /\ m.actor = managed[c].actor /\ m.id = managed[c].id /\ m.cmds = managed[c].cmds
                           /\ m.sdk = managed[c].sdk \/ m.sdk \notin Stored
                           /\ \/ m.status = managed[c].status
                              \/ /\ m.status \in Settled /\ m.proc = "finalizing"
                                 /\ managed[c].inbox[1] \in Settled
  <2>1. managed' \in [Conn -> Managed] /\ \A d \in Conn : d # c => managed'[d] = managed[d]
    <3>1. Typed'
      BY DEF Inv
    <3>. QED BY <1>t, <3>1 DEF ProcessInbox, Typed
  <2>2. /\ managed'[c].actor = managed[c].actor /\ managed'[c].id = managed[c].id /\ managed'[c].cmds = managed[c].cmds
        /\ managed'[c].sdk = managed[c].sdk \/ managed'[c].sdk \notin Stored
        /\ \/ managed'[c].status = managed[c].status
           \/ /\ managed'[c].status \in Settled /\ managed'[c].proc = "finalizing"
              /\ managed[c].inbox[1] \in Settled
    <3>1. CASE managed' = [managed EXCEPT ![c].proc = "over", ![c].inbox = Tail(@)]
      <4>1. managed'[c] = [managed[c] EXCEPT !.proc = "over", !.inbox = Tail(@)]
        BY <1>t, <3>1 DEF Typed
      <4>. QED BY <1>t, <4>1 DEF Managed
    <3>2. ASSUME NEW s \in Session, s \notin Stored,
                 managed' = [managed EXCEPT ![c].proc = "creating", ![c].sdk = s, ![c].inbox = Tail(@)]
          PROVE  /\ managed'[c].actor = managed[c].actor /\ managed'[c].id = managed[c].id
                 /\ managed'[c].cmds = managed[c].cmds /\ managed'[c].sdk \notin Stored
                 /\ managed'[c].status = managed[c].status
      <4>1. managed'[c] = [managed[c] EXCEPT !.proc = "creating", !.sdk = s, !.inbox = Tail(@)]
        BY <1>t, <3>2 DEF Typed
      <4>2. managed[c] \in Managed
        BY <1>t
      <4>3. /\ managed'[c].actor = managed[c].actor /\ managed'[c].id = managed[c].id
            /\ managed'[c].cmds = managed[c].cmds /\ managed'[c].sdk = s /\ managed'[c].status = managed[c].status
        BY <4>1, <4>2 DEF Managed
      <4>. QED BY <3>2, <4>3
    <3>3. ASSUME managed[c].inbox[1] \in Settled,
                 managed' = [managed EXCEPT ![c].proc = "finalizing", ![c].status = managed[c].inbox[1], ![c].asking = FALSE]
          PROVE  /\ managed'[c].actor = managed[c].actor /\ managed'[c].id = managed[c].id
                 /\ managed'[c].cmds = managed[c].cmds /\ managed'[c].sdk = managed[c].sdk
                 /\ managed'[c].status \in Settled /\ managed'[c].proc = "finalizing"
      <4>1. managed'[c] = [managed[c] EXCEPT !.proc = "finalizing", !.status = managed[c].inbox[1], !.asking = FALSE]
        BY <1>t, <3>3 DEF Typed
      <4>2. managed[c] \in Managed
        BY <1>t
      <4>3. /\ managed'[c].actor = managed[c].actor /\ managed'[c].id = managed[c].id
            /\ managed'[c].cmds = managed[c].cmds /\ managed'[c].sdk = managed[c].sdk
            /\ managed'[c].status = managed[c].inbox[1] /\ managed'[c].proc = "finalizing"
        BY <4>1, <4>2 DEF Managed
      <4>. QED BY <3>3, <4>3
    <3>. QED BY <1>1, <3>1, <3>2, <3>3 DEF ProcessInbox
  <2>3. managed'[c] \in Managed /\ managed' = [managed EXCEPT ![c] = managed'[c]]
    <3>1. \A d \in Conn : managed'[d] = [managed EXCEPT ![c] = managed'[c]][d]
      BY <1>t, <2>1 DEF Typed
    <3>. QED BY <1>t, <2>1, <3>1 DEF Typed
  <2>. QED BY <2>2, <2>3
<1>3. managed'[c] = m /\ \A d \in Conn : d # c => managed'[d] = managed[d]
  BY <1>t, <1>2 DEF Typed
<1>4. managed[c].inbox[1] \in Settled /\ Registered(c) => managed[c].id \in Session
  <2>1. ASSUME NEW i \in Conn, sessions[i] = c, managed[c].inbox[1] \in Settled PROVE FALSE
    <3>1. managed[c].sdk # None
      BY <1>1, <2>1 DEF Inv, NewsInOrder
    <3>2. managed[c].id = i /\ i = c
      BY <1>t, <2>1 DEF Inv, IdsOwn, Id
    <3>. QED BY <1>t, <2>1, <3>1, <3>2 DEF Inv, UnderNumber
  <2>2. ASSUME NEW i \in Session, sessions[i] = c PROVE managed[c].id \in Session
    BY <1>t, <2>2 DEF Inv, IdsOwn, Id
  <2>. QED BY <2>1, <2>2 DEF Registered, Id
<1>5. ObjectGoesOn(c)
  <2>1. managed[c].actor = "over" => managed[c].cmds = << >>
    BY DEF RowInv, Parting
  <2>2. Registered(c)' <=> Registered(c)
    BY <1>0 DEF Registered
  <2>3. "running" \notin Settled
    BY DEF Settled
  <2>4. \A n \in DOMAIN managed'[c].cmds : managed'[c].cmds[n].kind = "disconnect" =>
          \E k \in DOMAIN managed[c].cmds : managed[c].cmds[k].kind = "disconnect"
    BY <1>2, <1>3
  <2>. QED BY <1>2, <1>3, <1>4, <2>1, <2>2, <2>3, <2>4 DEF ObjectGoesOn
<1>6. \/ managed'[c].status = managed[c].status
      \/ \A s \in Session : s = managed[c].id => sessions'[s] # c \/ ToWrite(s)'
  BY <1>2, <1>3 DEF ToWrite
<1>. QED BY <1>t, <1>0, <1>3, <1>5, <1>6, NobodyMoves, SameEvictions, Tells

\* What is over says that it failed, or was closed.
LEMMA SaysEnd ==
  ASSUME RowInv, NEW c \in Conn, managed[c].actor = "over", managed'[c].actor = "over",
         managed'[c].id = managed[c].id, managed'[c].sdk = managed[c].sdk, managed'[c].cmds = managed[c].cmds,
         managed'[c].status \in {"error", "closed"}
  PROVE  ObjectGoesOn(c)
<1>1. managed'[c].cmds = << >>
  BY DEF RowInv, Parting
<1>2. \A n \in DOMAIN managed'[c].cmds : FALSE
  BY <1>1, EmptySeq
<1>. QED BY <1>1, <1>2 DEF ObjectGoesOn

LEMMA DisconnectedRows == ASSUME Inv, Inv', RowInv, NEW e \in disconnecting, Disconnected(e) PROVE RowInv'
<1>. PICK c \in Conn : c = e.c
  BY DEF Inv, Typed, Evicting
<1>t. Typed /\ managed[c] \in Managed /\ managed[c].actor = "over"
  BY ManagedParts DEF Inv, Disconnected
<1>. DEFINE m == [managed[c] EXCEPT !.status = "closed", !.inbox = Append(@, "stop")]
<1>0. UNCHANGED << sessions, locks, row, late, req, overlap, begun, faults >>
  BY DEF Disconnected
<1>1. managed' = [managed EXCEPT ![c] = m] /\ Step(e, "drain")
  BY <1>t DEF Disconnected, Typed
<1>2. /\ m.actor = "over" /\ m.id = managed[c].id /\ m.sdk = managed[c].sdk
      /\ m.proc = managed[c].proc /\ m.cmds = managed[c].cmds /\ m.status = "closed"
  BY <1>t DEF Managed
<1>. HIDE DEF m
<1>3. managed'[c] = m /\ \A d \in Conn : d # c => managed'[d] = managed[d]
  BY <1>t, <1>1 DEF Typed
<1>4. ObjectGoesOn(c)
  BY <1>t, <1>2, <1>3, SaysEnd
<1>5. EvictionsStay
  BY <1>1, <1>3, <1>4, <1>2, EvictionStepped DEF ObjectGoesOn
<1>6. managed[c].status # "running" \/ \A s \in Session : s = managed[c].id => sessions'[s] # c \/ ToWrite(s)'
  <2>. SUFFICES ASSUME managed[c].status = "running", NEW s \in Session, sessions[s] = c PROVE Disconnecting(s)'
    BY <1>0 DEF ToWrite
  <2>1. Disconnecting(s) /\ c # None
    BY <1>t, SessionAssumption DEF RowInv, DeadSaySo
  <2>2. sessions'[s] = c /\ ~ New(c)
    BY <1>t, <1>0 DEF New
  <2>. QED BY <1>5, <2>1, <2>2 DEF Disconnecting, EvictionsStay
<1>. QED BY <1>0, <1>2, <1>3, <1>4, <1>5, <1>6, NobodyMoves, Tells

LEMMA DeadEvicted ==
  ASSUME Inv, RowInv, NEW c \in Conn, managed[c].actor = "over", managed[c].status = "running", EvictionsStay,
         NEW s \in Session, sessions[s] = c, sessions'[s] = c, managed'[c].actor # "starting"
  PROVE  ToWrite(s)'
<1>1. Disconnecting(s) /\ c # None
  BY SessionAssumption DEF RowInv, DeadSaySo
<1>2. ~ New(c)
  BY DEF New
<1>. QED BY <1>1, <1>2 DEF Disconnecting, EvictionsStay, ToWrite

LEMMA InterruptRows == ASSUME Inv, Inv', RowInv, NEW r \in Request, Interrupt(r) PROVE RowInv'
<1>t. Typed /\ PurposeOf(r) /\ req[r].pc = "stopping" /\ req[r] \in Requested
  BY RequestParts DEF Inv, Purposes, Interrupt, At
<1>s. req[r].sid \in Session /\ req[r].sid \in Id /\ None \notin Conn
  BY <1>t, SessionAssumption DEF PurposeOf, Id
<1>0. UNCHANGED << sessions, disconnecting, locks, row, late, overlap, begun, faults >>
  BY DEF Interrupt
<1>. DEFINE c == sessions[req[r].sid]
            stop == [managed[c] EXCEPT !.interrupted = TRUE, !.asking = FALSE]
            dead == [stop EXCEPT !.status = "error"]
<1>1. c \in Conn \union {None}
  BY <1>t, <1>s DEF Typed
<1>2. c \in Conn => /\ stop \in Managed /\ stop.actor = managed[c].actor /\ stop.id = managed[c].id
                    /\ stop.sdk = managed[c].sdk /\ stop.proc = managed[c].proc
                    /\ stop.status = managed[c].status /\ stop.cmds = managed[c].cmds
                    /\ dead.actor = managed[c].actor /\ dead.id = managed[c].id
                    /\ dead.sdk = managed[c].sdk /\ dead.proc = managed[c].proc
                    /\ dead.status = "error" /\ dead.cmds = managed[c].cmds
  <2>. HIDE DEF c
  <2>1. c \in Conn => managed[c] \in Managed
    BY <1>t, ManagedParts
  <2>. QED BY <2>1 DEF Managed
<1>3. \E q : req' = [req EXCEPT ![r] = q] /\ q.pc # "dropping"
  <2>1. \/ req' = [req EXCEPT ![r].pc = "repairing"] \/ req' = [req EXCEPT ![r] = Idle]
        \/ req' = [req EXCEPT ![r].pc = "interrupting", ![r].c = c]
    BY DEF Interrupt, Done
  <2>2. CASE req' = [req EXCEPT ![r].pc = "repairing"]
    <3>1. req' = [req EXCEPT ![r] = [req[r] EXCEPT !.pc = "repairing"]]
      BY <1>t, <2>2 DEF Typed
    <3>. QED BY <1>t, <3>1, RequestMoves DEF RequestPc
  <2>3. CASE req' = [req EXCEPT ![r] = Idle]
    <3>1. Idle.pc = "idle"
      BY DEF Idle
    <3>. HIDE DEF Idle
    <3>. QED BY <2>3, <3>1
  <2>4. CASE req' = [req EXCEPT ![r].pc = "interrupting", ![r].c = c]
    <3>. DEFINE q == [req[r] EXCEPT !.pc = "interrupting", !.c = c]
    <3>1. req' = [req EXCEPT ![r] = q]
      BY <1>t, <2>4 DEF Typed
    <3>2. q.pc = "interrupting"
      BY <1>t DEF Requested
    <3>. HIDE DEF q
    <3>. QED BY <3>1, <3>2
  <2>. QED BY <2>1, <2>2, <2>3, <2>4
<1>4. DroppingStays /\ \A p \in Request : StillAbout(p)
  BY <1>t, <1>3, MovesOn DEF StillAbout
<1>5. \/ managed' = managed
      \/ c \in Conn /\ managed' = [managed EXCEPT ![c] = dead] /\ managed[c].actor = "over" /\ managed[c].status = "running"
      \/ c \in Conn /\ managed' = [managed EXCEPT ![c] = stop]
      \/ c \in Conn /\ managed' = [managed EXCEPT ![c] = Enqueue(stop, "interrupt", r)] /\ managed[c].actor # "over"
  <2>. HIDE DEF stop
  <2>. QED BY <1>1 DEF Interrupt, stop
<1>n. req[r].sid \in Session /\ c = sessions[req[r].sid]
  BY <1>s
<1>. HIDE DEF c, stop, dead
<1>6. CASE managed' = managed
  BY <1>0, <1>4, <1>6, SameEvictions, StillRows DEF Alike
<1>7. CASE c \in Conn /\ managed' = [managed EXCEPT ![c] = dead] /\ managed[c].actor = "over" /\ managed[c].status = "running"
  <2>1. managed'[c] = dead /\ \A d \in Conn : d # c => managed'[d] = managed[d]
    BY <1>t, <1>7 DEF Typed
  <2>2. ObjectGoesOn(c)
    BY <1>2, <1>7, <2>1, SaysEnd
  <2>3. \A s \in Session : s = managed[c].id => sessions'[s] # c \/ ToWrite(s)'
    <3>. SUFFICES ASSUME NEW s \in Session, s = managed[c].id, sessions'[s] = c PROVE ToWrite(s)'
      OBVIOUS
    <3>1. c \in Conn /\ managed[c].actor = "over" /\ managed[c].status = "running" /\ managed'[c].actor # "starting"
      BY <1>2, <1>7, <2>1
    <3>2. sessions[s] = c /\ EvictionsStay
      BY <1>0, <1>7, <2>1, SameEvictions
    <3>. QED BY <3>1, <3>2, DeadEvicted
  <2>. QED BY <1>0, <1>2, <1>4, <1>7, <2>1, <2>2, <2>3, SameEvictions, Tells
<1>8. CASE c \in Conn /\ managed' = [managed EXCEPT ![c] = stop]
  <2>1. managed'[c] = stop /\ \A d \in Conn : d # c => managed'[d] = managed[d]
    BY <1>t, <1>8 DEF Typed
  <2>2. \A d \in Conn : Alike(d)
    BY <1>2, <1>8, <2>1, AlikeStill
  <2>. QED BY <1>0, <1>4, <2>2, SameEvictions, StillRows
<1>9. CASE c \in Conn /\ managed' = [managed EXCEPT ![c] = Enqueue(stop, "interrupt", r)] /\ managed[c].actor # "over"
  <2>1. managed'[c] = Enqueue(stop, "interrupt", r) /\ \A d \in Conn : d # c => managed'[d] = managed[d]
    BY <1>t, <1>9 DEF Typed
  <2>. DEFINE m == Enqueue(stop, "interrupt", r)
              cmd == [kind |-> "interrupt", by |-> r]
  <2>2. /\ m.actor = stop.actor /\ m.id = stop.id /\ m.sdk = stop.sdk /\ m.status = stop.status /\ m.proc = stop.proc
        /\ cmd \in Command /\ cmd.kind = "interrupt" /\ m.cmds = Append(stop.cmds, cmd)
    BY <1>2, <1>9, EnqueueParts
  <2>3. managed'[c] = m
    BY <2>1
  <2>. HIDE DEF m, cmd
  <2>4. Alike(c)
    BY <1>2, <1>9, <2>2, <2>3, EnqueueAlike
  <2>5. \A d \in Conn : Alike(d)
    BY <2>1, <2>4, FlagsAlike DEF SameButFlags
  <2>. QED BY <1>0, <1>4, <2>5, SameEvictions, StillRows
<1>. QED BY <1>5, <1>6, <1>7, <1>8, <1>9

LEMMA InterruptUnheardRows == ASSUME Inv, Inv', RowInv, NEW r \in Request, InterruptUnheard(r) PROVE RowInv'
<1>t. Typed /\ PurposeOf(r) /\ req[r].pc = "unheard"
  BY DEF Inv, Purposes, InterruptUnheard, At
<1>0. UNCHANGED << sessions, disconnecting, locks, row, late, overlap, begun, faults >>
  BY DEF InterruptUnheard
<1>1. PICK c \in Conn : c = req[r].c /\ managed[c].actor = "over" /\ managed[c] \in Managed
  BY <1>t, ManagedParts DEF PurposeOf, Attached
<1>. DEFINE m == [managed[c] EXCEPT !.status = "error"]
<1>2. managed' = [managed EXCEPT ![c] = m] /\ req' = [req EXCEPT ![r] = Idle]
  BY <1>t, <1>1 DEF InterruptUnheard, Done, Typed
<1>3. /\ m.actor = "over" /\ m.id = managed[c].id /\ m.sdk = managed[c].sdk
      /\ m.proc = managed[c].proc /\ m.cmds = managed[c].cmds /\ m.status = "error"
  BY <1>1 DEF Managed
<1>. HIDE DEF m
<1>4. managed'[c] = m /\ \A d \in Conn : d # c => managed'[d] = managed[d]
  BY <1>t, <1>2 DEF Typed
<1>5. ObjectGoesOn(c)
  BY <1>1, <1>3, <1>4, SaysEnd
<1>6. managed[c].status # "running" \/ \A s \in Session : s = managed[c].id => sessions'[s] # c \/ ToWrite(s)'
  BY <1>0, <1>1, <1>3, <1>4, SameEvictions, DeadEvicted
<1>7. DroppingStays /\ \A p \in Request : StillAbout(p)
  BY <1>t, <1>2, MovesOn DEF StillAbout, Idle
<1>. QED BY <1>0, <1>3, <1>4, <1>5, <1>6, <1>7, SameEvictions, Tells

LEMMA SendFailsRows == ASSUME Inv, Inv', RowInv, NEW r \in Request, SendFails(r) PROVE RowInv'
<1>t. Typed /\ PurposeOf(r) /\ req[r].pc = "failed" /\ req[r] \in Requested
  BY RequestParts DEF Inv, Purposes, SendFails, At
<1>0. UNCHANGED << disconnecting, locks, row, late, overlap, begun, faults >>
  BY DEF SendFails
<1>1. PICK c \in Conn : c = req[r].c /\ managed[c].actor = "over" /\ managed[c] \in Managed
  BY <1>t, ManagedParts DEF PurposeOf, Attached
<1>2. CASE req[r].op = "send"
  <2>. DEFINE m == [managed[c] EXCEPT !.status = "error"]
              q == [req[r] EXCEPT !.pc = "failing"]
  <2>1. managed' = [managed EXCEPT ![c] = m] /\ req' = [req EXCEPT ![r] = q] /\ sessions' = sessions
    BY <1>t, <1>1, <1>2 DEF SendFails, Typed
  <2>2. /\ m.actor = "over" /\ m.id = managed[c].id /\ m.sdk = managed[c].sdk
        /\ m.proc = managed[c].proc /\ m.cmds = managed[c].cmds /\ m.status = "error"
    BY <1>1 DEF Managed
  <2>3. q.pc = "failing" /\ q.sid = req[r].sid
    BY <1>t, RequestMoves DEF RequestPc
  <2>. HIDE DEF m, q
  <2>4. managed'[c] = m /\ req'[r] = q /\ \A d \in Conn : d # c => managed'[d] = managed[d]
    BY <1>t, <2>1 DEF Typed
  <2>5. ObjectGoesOn(c)
    BY <1>1, <2>2, <2>4, SaysEnd
  <2>6. \A s \in Session : s = managed[c].id => ToWrite(s)'
    BY <1>t, <1>1, <1>2, <2>3, <2>4 DEF PurposeOf, ToWrite
  <2>7. DroppingStays /\ \A p \in Request : StillAbout(p)
    BY <1>t, <2>1, <2>3, MovesOn DEF StillAbout
  <2>. QED BY <1>0, <2>1, <2>2, <2>4, <2>5, <2>6, <2>7, SameEvictions, Tells
<1>3. CASE req[r].op # "send"
  <2>. DEFINE m == [managed[c] EXCEPT !.status = "closed", !.proc = "over"]
  <2>1. managed' = [managed EXCEPT ![c] = m] /\ req' = [req EXCEPT ![r] = Idle]
        /\ sessions' = [sessions EXCEPT ![c] = None]
    BY <1>t, <1>1, <1>3 DEF SendFails, Done, Typed
  <2>2. /\ m.actor = "over" /\ m.id = managed[c].id /\ m.sdk = managed[c].sdk
        /\ m.cmds = managed[c].cmds /\ m.status = "closed"
    BY <1>1 DEF Managed
  <2>. HIDE DEF m
  <2>3. managed'[c] = m /\ \A d \in Conn : d # c => managed'[d] = managed[d]
    BY <1>t, <2>1 DEF Typed
  <2>4. ObjectGoesOn(c)
    BY <1>1, <2>2, <2>3, SaysEnd
  <2>5. managed[c].id = c /\ c \notin Session
    BY <1>t, <1>1, <1>3, SessionAssumption DEF PurposeOf
  <2>6. \A i \in Id : sessions'[i] \in {None, sessions[i]}
    BY <1>t, <2>1 DEF Typed
  <2>7. DroppingStays /\ \A p \in Request : StillAbout(p)
    BY <1>t, <2>1, MovesOn DEF StillAbout, Idle
  <2>. QED BY <1>0, <2>3, <2>4, <2>5, <2>6, <2>7, SameEvictions, Tells
<1>. QED BY <1>2, <1>3

LEMMA DroppedRows == ASSUME Inv, Inv', RowInv, NEW r \in Request, Dropped(r) PROVE RowInv'
<1>t. Typed /\ PurposeOf(r) /\ req[r].pc = "dropping"
  BY DEF Inv, Purposes, Dropped, At
<1>0. UNCHANGED << sessions, disconnecting, locks, row, late, overlap, begun, faults >>
  BY DEF Dropped
<1>1. PICK c \in Conn : c = req[r].c /\ managed[c].actor = "over" /\ managed[c] \in Managed
  BY <1>t, ManagedParts DEF PurposeOf, Attached, Dropped
<1>. DEFINE m == [managed[c] EXCEPT !.status = "closed", !.proc = "over"]
<1>2. managed' = [managed EXCEPT ![c] = m] /\ req' = [req EXCEPT ![r] = Idle]
  BY <1>t, <1>1 DEF Dropped, Done, Typed
<1>3. /\ m.actor = "over" /\ m.id = managed[c].id /\ m.sdk = managed[c].sdk
      /\ m.cmds = managed[c].cmds /\ m.status = "closed"
  BY <1>1 DEF Managed
<1>. HIDE DEF m
<1>4. managed'[c] = m /\ \A d \in Conn : d # c => managed'[d] = managed[d]
  BY <1>t, <1>2 DEF Typed
<1>5. ObjectGoesOn(c)
  BY <1>1, <1>3, <1>4, SaysEnd
<1>6. managed[c].id = c /\ c \notin Session
  BY <1>t, <1>1, SessionAssumption DEF RowInv, Parting
<1>7. DroppingStays /\ \A p \in Request : StillAbout(p)
  BY <1>t, <1>2, MovesOn DEF StillAbout, Idle
<1>. QED BY <1>0, <1>4, <1>5, <1>6, <1>7, SameEvictions, Tells

\* Steps that write a row.
LEMMA OnGoes ==
  ASSUME RowInv, NEW c \in Conn, managed'[c].id = managed[c].id, managed'[c].sdk = managed[c].sdk,
         managed'[c].status = managed[c].status, managed'[c].actor = managed[c].actor,
         managed'[c].cmds = managed[c].cmds
  PROVE  ObjectGoesOn(c)
BY DEF ObjectGoesOn, RowInv, Parting

LEMMA WritesRows ==
  ASSUME Inv, Inv', RowInv, NEW w, \A c \in Conn : ObjectGoesOn(c) /\ managed'[c].status = managed[c].status,
         sessions' = sessions, disconnecting' = disconnecting, overlap' = overlap, DroppingStays,
         \A s \in Session : \/ s = w /\ (row'[s] # "running" \/ sessions[s] = None)
                            \/ row'[s] = row[s] /\ (sessions[s] # None /\ ToWrite(s) => ToWrite(s)')
  PROVE  RowInv'
<1>1. KeysStay /\ EvictionsStay
  BY SameEvictions DEF KeysStay
<1>2. ASSUME NEW s \in Session \ overlap' PROVE RowGoesOn(s)
  <2>1. CASE row'[s] # "running" \/ sessions'[s] = None
    BY <2>1 DEF RowGoesOn
  <2>2. CASE row'[s] = "running" /\ sessions'[s] # None
    <3>1. sessions[s] \in Conn /\ s \notin overlap
      BY <2>2, <1>2, SessionAssumption DEF Inv, Typed, Id
    <3>. QED BY <2>2, <3>1 DEF RowGoesOn
  <2>. QED BY <2>1, <2>2
<1>. QED BY <1>1, <1>2, RowsKept

LEMMA WroteNot ==
  ASSUME Typed, NEW s \in Session, NEW status, status # "running", Write(s, status)
  PROVE  row'[s] # "running" /\ \A t \in Session : t # s => row'[t] = row[t]
BY DEF Write, Typed

LEMMA SameToWrite ==
  ASSUME Typed, UNCHANGED << managed, sessions, disconnecting >>, NEW r \in Request, req' = Done(r), late' = late
  PROVE  /\ \A s \in Session : s # req[r].sid /\ ToWrite(s) => ToWrite(s)'
         /\ DroppingStays
<1>1. \A q \in Request : q # r => req'[q] = req[q]
  BY DEF Done, Typed
<1>2. req'[r].pc = "idle"
  BY DEF Done, Typed, Idle
<1>. QED BY <1>1, <1>2 DEF ToWrite, DroppingStays, Disconnecting

LEMMA PersistActorErrorRows ==
  ASSUME Inv, Inv', RowInv, NEW s \in Session, PersistActorError(s) PROVE RowInv'
<1>t. Typed
  BY DEF Inv
<1>1. row'[s] # "running" /\ \A t \in Session : t # s => row'[t] = row[t]
  BY <1>t, WroteNot DEF PersistActorError
<1>2. \A t \in Session : t # s /\ ToWrite(t) => ToWrite(t)'
  BY DEF PersistActorError, ToWrite, Disconnecting
<1>3. DroppingStays /\ \A c \in Conn : ObjectGoesOn(c) /\ managed'[c].status = managed[c].status
  BY SameGoesOn, NobodyMoves DEF PersistActorError
<1>. QED BY <1>1, <1>2, <1>3, WritesRows DEF PersistActorError

LEMMA FailureRecordedRows ==
  ASSUME Inv, Inv', RowInv, NEW r \in Request, FailureRecorded(r) PROVE RowInv'
<1>t. Typed /\ req[r].sid \in Session
  BY DEF Inv, Purposes, PurposeOf, FailureRecorded, At
<1>1. row'[req[r].sid] # "running" /\ \A t \in Session : t # req[r].sid => row'[t] = row[t]
  BY <1>t, WroteNot DEF FailureRecorded, RecordFailure
<1>2. DroppingStays /\ \A s \in Session : s # req[r].sid /\ ToWrite(s) => ToWrite(s)'
  BY <1>t, SameToWrite DEF FailureRecorded
<1>3. \A c \in Conn : ObjectGoesOn(c) /\ managed'[c].status = managed[c].status
  BY SameGoesOn DEF FailureRecorded
<1>. QED BY <1>1, <1>2, <1>3, WritesRows DEF FailureRecorded

LEMMA RepairRows == ASSUME Inv, Inv', RowInv, NEW r \in Request, Repair(r) PROVE RowInv'
<1>t. Typed /\ req[r].sid \in Session
  BY DEF Inv, Purposes, PurposeOf, Repair, At
<1>1. row'[req[r].sid] # "running" /\ \A t \in Session : t # req[r].sid => row'[t] = row[t]
  BY <1>t, WroteNot DEF Repair
<1>2. DroppingStays /\ \A s \in Session : s # req[r].sid /\ ToWrite(s) => ToWrite(s)'
  BY <1>t, SameToWrite DEF Repair
<1>3. \A c \in Conn : ObjectGoesOn(c) /\ managed'[c].status = managed[c].status
  BY SameGoesOn DEF Repair
<1>. QED BY <1>1, <1>2, <1>3, WritesRows DEF Repair

LEMMA DeleteRowRows == ASSUME Inv, Inv', RowInv, NEW r \in Request, DeleteRow(r) PROVE RowInv'
<1>t. Typed
  BY DEF Inv
<1>1. \A s \in Session : row'[s] = IF s = req[r].sid THEN "absent" ELSE row[s]
  BY <1>t DEF DeleteRow, Typed
<1>2. DroppingStays /\ \A s \in Session : s # req[r].sid /\ ToWrite(s) => ToWrite(s)'
  BY <1>t, SameToWrite DEF DeleteRow
<1>3. \A c \in Conn : ObjectGoesOn(c) /\ managed'[c].status = managed[c].status
  BY SameGoesOn DEF DeleteRow
<1>. QED BY <1>1, <1>2, <1>3, WritesRows DEF DeleteRow

LEMMA CreateRowRows == ASSUME Inv, Inv', RowInv, NEW c \in Conn, CreateRow(c) PROVE RowInv'
<1>t. Typed /\ managed[c] \in Managed /\ managed[c].proc = "creating"
  BY ManagedParts DEF Inv, CreateRow
<1>. DEFINE m == [managed[c] EXCEPT !.proc = "naming"]
<1>1. /\ m.actor = managed[c].actor /\ m.id = managed[c].id /\ m.sdk = managed[c].sdk /\ m.cmds = managed[c].cmds
      /\ m.proc = "naming" /\ m.status = managed[c].status
  BY <1>t DEF Managed
<1>2. managed'[c] = m /\ \A d \in Conn : d # c => managed'[d] = managed[d]
  BY <1>t DEF CreateRow, Typed
<1>. HIDE DEF m
<1>3. \A d \in Conn : ObjectGoesOn(d) /\ managed'[d].status = managed[d].status
  BY <1>1, <1>2, OnGoes, SameGoesOn
<1>4. \A s \in Session : row'[s] = IF s = managed[c].sdk THEN "idle" ELSE row[s]
  BY <1>t DEF CreateRow, Typed
<1>5. \A s \in Session : sessions[s] # None /\ ToWrite(s) => ToWrite(s)'
  <2>1. \A s \in Session : sessions[s] # None => sessions[s] \in Conn
    BY <1>t DEF Typed, Id
  <2>. QED BY <1>t, <1>1, <1>2, <2>1 DEF CreateRow, ToWrite, Disconnecting
<1>6. DroppingStays
  BY NobodyMoves DEF CreateRow
<1>. QED BY <1>3, <1>4, <1>5, <1>6, WritesRows DEF CreateRow

LEMMA FinalizeRows == ASSUME Inv, Inv', RowInv, NEW c \in Conn, Finalize(c) PROVE RowInv'
<1>t. /\ Typed /\ managed[c] \in Managed /\ managed[c].proc = "finalizing" /\ managed[c].inbox \in Seq(News)
      /\ managed[c].inbox # << >> /\ Head(managed[c].inbox) \in Settled
  <2>1. Typed /\ managed[c] \in Managed /\ managed[c].proc = "finalizing" /\ managed[c].inbox \in Seq(News)
    BY ManagedParts DEF Inv, Finalize
  <2>2. managed[c].inbox # << >> /\ managed[c].inbox[1] \in Settled
    BY <2>1 DEF Inv, NewsInOrder
  <2>. QED BY <2>1, <2>2
<1>. DEFINE id == managed[c].id
            m == [managed[c] EXCEPT !.proc = "waiting", !.inbox = Tail(@), !.interrupted = FALSE]
            M == [managed EXCEPT ![c] = m]
<1>1. managed' = M \/ \E d \in Conn : d = sessions[id] /\ managed' = [M EXCEPT ![d].timer = TRUE]
  <2>1. id \in Id
    BY <1>t, ManagedParts DEF Inv, IdsOwn
  <2>. QED BY <1>t, <2>1 DEF Finalize, Typed
<1>2. /\ m \in Managed /\ m.actor = managed[c].actor /\ m.id = managed[c].id /\ m.sdk = managed[c].sdk
      /\ m.cmds = managed[c].cmds /\ m.status = managed[c].status
  <2>1. m \in Managed
    BY <1>t, HeadTailProperties DEF Managed, ProcState
  <2>. QED BY <1>t, <2>1 DEF Managed
<1>. HIDE DEF m
<1>3. M \in [Conn -> Managed] /\ M[c] = m /\ \A d \in Conn : d # c => M[d] = managed[d]
  BY <1>t, <1>2 DEF Typed
<1>. HIDE DEF M
<1>4. \A d \in Conn : /\ managed'[d].actor = M[d].actor /\ managed'[d].id = M[d].id /\ managed'[d].sdk = M[d].sdk
                      /\ managed'[d].cmds = M[d].cmds /\ managed'[d].status = M[d].status /\ managed'[d].proc = M[d].proc
  <2>1. ASSUME NEW d \in Conn, managed' = [M EXCEPT ![d].timer = TRUE]
        PROVE  /\ managed'[d].actor = M[d].actor /\ managed'[d].id = M[d].id /\ managed'[d].sdk = M[d].sdk
               /\ managed'[d].cmds = M[d].cmds /\ managed'[d].status = M[d].status /\ managed'[d].proc = M[d].proc
               /\ \A b \in Conn : b # d => managed'[b] = M[b]
    <3>. DEFINE k == [M[d] EXCEPT !.timer = TRUE]
    <3>1. /\ k.actor = M[d].actor /\ k.id = M[d].id /\ k.sdk = M[d].sdk
          /\ k.cmds = M[d].cmds /\ k.status = M[d].status /\ k.proc = M[d].proc
      <4>1. M[d] \in Managed
        BY <1>3
      <4>. QED BY <4>1 DEF Managed
    <3>2. managed' = [M EXCEPT ![d] = k]
      BY <2>1
    <3>. HIDE DEF k
    <3>. QED BY <1>3, <3>1, <3>2
  <2>. QED BY <1>1, <2>1
<1>5. \A d \in Conn : ObjectGoesOn(d) /\ managed'[d].status = managed[d].status
  <2>1. \A d \in Conn : /\ managed'[d].actor = managed[d].actor /\ managed'[d].id = managed[d].id
                        /\ managed'[d].sdk = managed[d].sdk /\ managed'[d].cmds = managed[d].cmds
                        /\ managed'[d].status = managed[d].status
    BY <1>2, <1>3, <1>4
  <2>. QED BY <2>1, OnGoes
<1>6. DroppingStays
  BY NobodyMoves DEF Finalize
<1>7. ASSUME NEW s \in Session
      PROVE  \/ s = id /\ row'[s] # "running"
             \/ row'[s] = row[s] /\ (sessions[s] # None /\ ToWrite(s) => ToWrite(s)')
  <2>1. CASE s = id
    <3>1. Head(managed[c].inbox) # "running" /\ Write(id, Head(managed[c].inbox))
      BY <1>t, <2>1 DEF Finalize, Settled
    <3>. QED BY <1>t, <2>1, <3>1, WroteNot
  <2>2. CASE s # id
    <3>1. row'[s] = row[s]
      BY <1>t, <2>2 DEF Finalize, Write, Typed
    <3>2. sessions[s] # None => sessions[s] \in Conn /\ sessions[s] # c
      BY <1>t, <2>2 DEF Typed, Id, Inv, IdsOwn
    <3>3. sessions[s] # None => managed'[sessions[s]].proc = managed[sessions[s]].proc
      BY <3>2, <1>3, <1>4
    <3>. QED BY <3>1, <3>3 DEF Finalize, ToWrite, Disconnecting
  <2>. QED BY <2>1, <2>2
<1>. QED BY <1>5, <1>6, <1>7, WritesRows DEF Finalize

LEMMA SwapMissedRows ==
  ASSUME Inv, Inv', RowInv, NEW c \in Conn, SwapKey(c), sessions[c] = None PROVE RowInv'
<1>t. /\ Typed /\ managed[c] \in Managed /\ managed[c].id = c /\ managed[c].sdk \in Session
      /\ managed[c].proc = "naming" /\ c # None /\ c \notin Session
      /\ \A q \in Request : req'[q] = req[q] \/ (req'[q] = Idle /\ req[q].pc = "naming")
  BY ManagedParts, SwapParts, SessionAssumption DEF Inv
<1>. DEFINE m == [managed[c] EXCEPT !.proc = "waiting"]
<1>1. /\ m.actor = managed[c].actor /\ m.id = managed[c].id /\ m.sdk = managed[c].sdk /\ m.cmds = managed[c].cmds
      /\ m.status = managed[c].status
  BY <1>t DEF Managed
<1>2. managed'[c] = m /\ \A d \in Conn : d # c => managed'[d] = managed[d]
  BY <1>t DEF SwapKey, Typed
<1>. HIDE DEF m
<1>3. \A d \in Conn : ObjectGoesOn(d) /\ managed'[d].status = managed[d].status
  BY <1>1, <1>2, OnGoes, SameGoesOn
<1>u. UNCHANGED << sessions, overlap, disconnecting, late >>
  BY <1>t DEF SwapKey
<1>4. sessions[managed[c].sdk] = None
  <2>. SUFFICES ASSUME sessions[managed[c].sdk] # None PROVE FALSE
    OBVIOUS
  <2>1. /\ sessions[managed[c].sdk] \in Conn /\ managed[sessions[managed[c].sdk]].id = managed[c].sdk
        /\ managed[sessions[managed[c].sdk]].sdk = managed[c].sdk
    BY <1>t DEF Typed, Id, Inv, IdsOwn
  <2>2. sessions[managed[c].sdk] = c
    BY <1>t, <2>1 DEF Inv, Fresh
  <2>. QED BY <1>t, <2>1, <2>2
<1>5. DroppingStays
  BY <1>t DEF DroppingStays, Idle
<1>6. ASSUME NEW s \in Session, s # managed[c].sdk
      PROVE  row'[s] = row[s] /\ (sessions[s] # None /\ ToWrite(s) => ToWrite(s)')
  <2>1. row'[s] = row[s]
    BY <1>6, <1>t DEF SwapKey, Write, Typed
  <2>2. sessions[s] # None => sessions[s] \in Conn /\ sessions[s] # c
    BY <1>t DEF Typed, Id, Inv, IdsOwn
  <2>3. \A q \in Request : req[q].pc \in {"starting", "marking", "failing"} => req'[q] = req[q]
    BY <1>t
  <2>. QED BY <2>1, <2>2, <2>3, <1>2, <1>u DEF ToWrite, Disconnecting
<1>. QED BY <1>3, <1>4, <1>5, <1>6, <1>u, WritesRows

\* A session gets its id: what is alive under a number runs, and what is dead says so.
LEMMA SwapMadeRows ==
  ASSUME Inv, Inv', RowInv, NEW c \in Conn, SwapKey(c), sessions[c] = c PROVE RowInv'
<1>t. Typed /\ managed[c] \in Managed /\ None \notin Conn /\ Session \intersect Conn = {} /\ None \notin Session
  BY ManagedParts, SessionAssumption DEF Inv
<1>. DEFINE s == managed[c].sdk
            m == [managed[c] EXCEPT !.proc = "waiting", !.id = s]
<1>p. /\ s \in Session /\ managed[c].id = c /\ managed[c].actor \notin {"none", "starting"}
      /\ s # c /\ s \in Id /\ c \in Id
  BY <1>t, SwapParts DEF Id
<1>1. /\ managed' = [managed EXCEPT ![c] = m] /\ Write(s, "running")
      /\ sessions' = [sessions EXCEPT ![c] = None, ![s] = c]
      /\ overlap \subseteq overlap'
      /\ UNCHANGED << disconnecting, locks, late, begun, faults >>
  BY ZenonT(50), <1>t, <1>p DEF SwapKey
<1>2. /\ m.actor = managed[c].actor /\ m.id = s /\ m.sdk = s /\ m.cmds = managed[c].cmds
      /\ m.proc = "waiting" /\ m.status = managed[c].status
  BY <1>t DEF Managed
<1>r. \A q \in Request : req'[q] = req[q] \/ (req'[q] = Idle /\ req[q].pc = "naming")
  BY SwapParts
<1>i. /\ Parting /\ Origins /\ DeadSaySo /\ RowTold
      /\ IdsOwn /\ UnderNumber /\ Purposes
  BY DEF RowInv, Inv
<1>s. s = managed[c].sdk
  OBVIOUS
<1>. HIDE DEF m, s
<1>3. managed'[c] = m /\ \A d \in Conn : d # c => managed'[d] = managed[d]
  BY <1>t, <1>1 DEF Typed
<1>4. /\ sessions'[c] = None /\ sessions'[s] = c
      /\ \A i \in Id : i # c /\ i # s => sessions'[i] = sessions[i]
  BY <1>t, <1>p, <1>1 DEF Typed
<1>5. \A d \in Conn : /\ managed'[d].actor = managed[d].actor /\ managed'[d].sdk = managed[d].sdk
                      /\ managed'[d].status = managed[d].status /\ managed'[d].cmds = managed[d].cmds
  BY <1>2, <1>3, <1>s
<1>6. Parting'
  <2>1. \A d \in Conn : Registered(d)' => Registered(d)
    BY <1>p, <1>4, <1>t DEF Registered
  <2>2. ASSUME NEW q \in Request, req'[q].pc = "dropping" PROVE managed'[req'[q].c].id = req'[q].c
    <3>1. req'[q] = req[q] /\ req[q].c \in Conn
      BY <2>2, <1>r, <1>i DEF Idle, Purposes, PurposeOf, Attached
    <3>2. req[q].c # c
      BY <2>2, <3>1, <1>i DEF UnderNumber
    <3>. QED BY <2>2, <3>1, <3>2, <1>3, <1>i DEF Parting
  <2>3. \A d \in Conn : managed'[d].actor = "over" => managed'[d].cmds = << >>
    BY <1>5, <1>i DEF Parting
  <2>4. ASSUME NEW d \in Conn, NEW n \in DOMAIN managed'[d].cmds, managed'[d].cmds[n].kind = "disconnect", Registered(d)'
        PROVE  \E e \in disconnecting' : e.c = d /\ e.step = "disconnect"
    BY <2>1, <2>4, <1>1, <1>5, <1>i DEF Parting
  <2>. QED BY <2>2, <2>3, <2>4 DEF Parting
<1>7. Origins'
  <2>1. ASSUME NEW d \in Conn, managed'[d].id \in Conn PROVE managed'[d].sdk \notin Stored
    <3>1. d # c
      BY <2>1, <1>2, <1>3, <1>p, <1>t
    <3>. QED BY <2>1, <3>1, <1>3, <1>i DEF Origins
  <2>2. ASSUME NEW e \in disconnecting'
        PROVE  /\ e.id \in Session => managed'[e.c].id = e.id
               /\ e.id \in Conn => managed'[e.c].actor = "over" /\ managed'[e.c].sdk \notin Stored
    <3>1. e \in disconnecting /\ e.c \in Conn
      BY <1>1, <1>t DEF Typed, Evicting
    <3>2. e.id \in Session => e.c # c
      BY <3>1, <1>i, <1>p, <1>t DEF Origins
    <3>. QED BY <3>1, <3>2, <1>3, <1>5, <1>i DEF Origins
  <2>. QED BY <2>1, <2>2 DEF Origins
<1>8. DeadSaySo'
  <2>1. ASSUME NEW d \in Conn, sessions'[d] = d, managed'[d].actor = "over"
        PROVE  managed'[d].status \in {"error", "closed"}
    <3>1. sessions[d] = d
      BY <2>1, <1>4, <1>t, <1>p DEF Id
    <3>. QED BY <2>1, <3>1, <1>5, <1>i DEF DeadSaySo
  <2>2. ASSUME NEW x \in Session, sessions'[x] # None, managed'[sessions'[x]].actor = "over"
        PROVE  managed'[sessions'[x]].status # "running" \/ Disconnecting(x)'
    <3>1. CASE x = s
      BY <2>2, <3>1, <1>4, <1>5, <1>i DEF DeadSaySo
    <3>2. CASE x # s
      <4>1. sessions'[x] = sessions[x] /\ sessions[x] \in Conn
        BY <2>2, <3>2, <1>4, <1>t DEF Id, Typed
      <4>. QED BY <2>2, <4>1, <1>1, <1>5, <1>i DEF DeadSaySo, Disconnecting
    <3>. QED BY <3>1, <3>2
  <2>3. \A e \in disconnecting' : e.step = "persist" => managed'[e.c].status # "running"
    BY <1>1, <1>5, <1>i, <1>t DEF DeadSaySo, Typed, Evicting
  <2>. QED BY <2>1, <2>2, <2>3 DEF DeadSaySo
<1>9. RowTold'
  <2>. SUFFICES ASSUME NEW x \in Session, x \notin overlap', row'[x] = "running", sessions'[x] # None
                PROVE  Excused(x)' \/ ToWrite(x)'
    BY DEF RowTold
  <2>1. CASE x = s
    <3>1. managed[c].status \in {"running", "error", "closed"}
      <4>1. Alive(c) => managed[c].status = "running"
        BY <1>i DEF UnderNumber
      <4>2. managed[c].actor = "over" \/ Alive(c)
        BY <1>t, <1>p DEF Managed, Alive
      <4>. QED BY <4>1, <4>2, <1>i DEF DeadSaySo
    <3>2. s \notin Stored
      BY <1>p, <1>i, <1>s DEF Origins
    <3>. QED BY <2>1, <3>1, <3>2, <1>4, <1>5 DEF Excused
  <2>2. CASE x # s
    <3>1. sessions'[x] = sessions[x] /\ sessions[x] \in Conn /\ x # c
      BY <2>2, <1>4, <1>t DEF Id, Typed
    <3>2. sessions[x] # c
      BY <3>1, <1>i, <1>p, <1>t DEF IdsOwn, Id
    <3>3. row[x] = "running"
      BY <2>2, <1>1, <1>t DEF Write, Typed
    <3>4. Excused(x) \/ ToWrite(x)
      BY <3>1, <3>3, <1>1, <1>t DEF RowTold, RowInv
    <3>5. Excused(x) => Excused(x)'
      BY <3>1, <1>5 DEF Excused
    <3>6. ToWrite(x) => ToWrite(x)'
      <4>1. \A q \in Request : req[q].pc \in {"starting", "marking", "failing"} => req'[q] = req[q]
        BY <1>r
      <4>. QED BY <4>1, <3>1, <3>2, <1>1, <1>3 DEF ToWrite, Disconnecting
    <3>. QED BY <3>4, <3>5, <3>6
  <2>. QED BY <2>1, <2>2
<1>. QED BY <1>6, <1>7, <1>8, <1>9 DEF RowInv

\* A prompt is about to go to a session: the session runs, unless its agent is dead.
LEMMA MarkRunningRows == ASSUME Inv, Inv', RowInv, NEW r \in Request, MarkRunning(r) PROVE RowInv'
<1>t. Typed /\ req[r] \in Requested /\ PurposeOf(r) /\ req[r].pc = "marking" /\ req[r].sid \in Session
  BY RequestParts DEF Inv, Purposes, PurposeOf, MarkRunning, At
<1>1. PICK c \in Conn : c = req[r].c /\ managed[c].actor # "none" /\ managed[c] \in Managed
                        /\ managed[c].id = req[r].sid
  BY <1>t, ManagedParts DEF PurposeOf, Attached
<1>. PICK s \in Session : s = req[r].sid
  BY <1>t
<1>. DEFINE over == managed[c].actor = "over"
            status == IF over THEN "error" ELSE "running"
            pc == IF over THEN "failing" ELSE "sending"
            k == [managed[c] EXCEPT !.status = status]
            m == Enqueue(k, "query", r)
            cmd == [kind |-> "query", by |-> r]
            n == [req[r] EXCEPT !.pc = pc]
<1>2. /\ status \in Status /\ pc \in RequestPc /\ (~ over => status = "running" /\ pc = "sending")
      /\ (over => status = "error" /\ pc = "failing")
  BY DEF Status, Settled, RequestPc
<1>3. /\ Write(s, "running") /\ managed' = [managed EXCEPT ![c] = m] /\ req' = [req EXCEPT ![r] = n]
      /\ UNCHANGED << sessions, disconnecting, locks, late, overlap, begun, faults >>
  BY <1>t, <1>1 DEF MarkRunning, Typed
<1>o. over <=> managed[c].actor = "over"
  OBVIOUS
<1>. HIDE DEF over, status, pc
<1>4. /\ k \in Managed /\ k.actor = managed[c].actor /\ k.id = managed[c].id /\ k.sdk = managed[c].sdk
      /\ k.proc = managed[c].proc /\ k.status = status /\ k.cmds = managed[c].cmds
  BY <1>1, <1>2 DEF Managed
<1>. HIDE DEF k
<1>5. /\ m.actor = managed[c].actor /\ m.id = managed[c].id /\ m.sdk = managed[c].sdk
      /\ m.proc = managed[c].proc /\ m.status = status /\ cmd.kind = "query" /\ cmd \in Command
      /\ over => m.cmds = managed[c].cmds
      /\ ~ over => m.cmds = Append(managed[c].cmds, cmd)
  BY <1>4, <1>o, EnqueueParts
<1>6. n.pc = pc /\ n.sid = s
  BY <1>t, <1>2, RequestMoves
<1>q. s = req[r].sid /\ s \in Session /\ managed[c].id = s /\ managed[c].cmds \in Seq(Command)
  BY <1>1, <1>t, ManagedParts DEF Inv
<1>. HIDE DEF m, cmd, n
<1>7. managed'[c] = m /\ \A d \in Conn : d # c => managed'[d] = managed[d]
  BY <1>t, <1>3 DEF Typed
<1>8. req'[r] = n /\ \A q \in Request : q # r => req'[q] = req[q]
  BY <1>t, <1>3 DEF Typed
<1>9. ObjectGoesOn(c)
  <2>1. \A j \in DOMAIN managed'[c].cmds : managed'[c].cmds[j].kind = "disconnect" =>
          \E i \in DOMAIN managed[c].cmds : managed[c].cmds[i].kind = "disconnect"
    <3>1. CASE over
      BY <1>5, <1>7, <3>1
    <3>2. CASE ~ over
      <4>1. ASSUME NEW j \in DOMAIN managed'[c].cmds, managed'[c].cmds[j].kind = "disconnect"
            PROVE  \E i \in DOMAIN managed[c].cmds : managed[c].cmds[i].kind = "disconnect"
        <5>1. managed'[c].cmds = Append(managed[c].cmds, cmd)
          BY <1>5, <1>7, <3>2
        <5>2. \/ j \in DOMAIN managed[c].cmds /\ managed'[c].cmds[j] = managed[c].cmds[j]
              \/ managed'[c].cmds[j] = cmd
          BY <1>5, <1>q, <4>1, <5>1, AppendProperties, LenProperties
        <5>. QED BY <1>5, <4>1, <5>2
      <4>. QED BY <4>1
    <3>. QED BY <3>1, <3>2
  <2>2. over => managed'[c].cmds = << >> /\ managed'[c].status = "error"
    BY <1>1, <1>2, <1>5, <1>7, <1>o DEF RowInv, Parting
  <2>. QED BY <1>5, <1>7, <1>o, <2>1, <2>2 DEF ObjectGoesOn
<1>10. (\A d \in Conn : ObjectGoesOn(d)) /\ KeysStay /\ EvictionsStay
  BY <1>3, <1>7, <1>9, SameGoesOn, SameEvictions DEF KeysStay
<1>11. DroppingStays
  <2>1. pc # "dropping"
    BY <1>2
  <2>. QED BY <1>6, <1>8, <2>1 DEF DroppingStays
<1>12. ASSUME s \notin overlap, sessions[s] # None, ~ ToWrite(s)' PROVE managed'[sessions[s]].status = "running"
  <2>1. ~ over
    BY <1>2, <1>6, <1>8, <1>12 DEF ToWrite
  <2>2. Alive(c) /\ managed'[c].status = "running"
    BY <1>1, <1>2, <1>5, <1>7, <1>o, <2>1 DEF Alive, Managed
  <2>3. sessions[s] = c
    <3>. SUFFICES ASSUME sessions[s] # c PROVE FALSE
      OBVIOUS
    <3>1. \A q \in Request : req[q].pc = "dropping" => req[q].c # c
      BY <1>q, SessionAssumption DEF RowInv, Parting
    <3>2. c \in Evicted
      BY <1>1, <1>q, <1>12, <2>2, <3>1 DEF Inv, OneActor, At
    <3>3. PICK e \in disconnecting : e.c = c
      BY <3>2 DEF Evicted
    <3>4. e.id \in Id
      BY <1>t DEF Typed, Evicting
    <3>5. e.id = s
      BY <1>o, <1>q, <2>1, <3>3, <3>4 DEF RowInv, Origins, Id
    <3>. QED BY <1>3, <1>12, <3>5 DEF ToWrite, Disconnecting
  <2>. QED BY <2>2, <2>3
<1>13. ASSUME NEW x \in Session \ overlap' PROVE RowGoesOn(x)
  <2>1. CASE x = s
    BY <1>3, <1>12, <1>13, <2>1 DEF RowGoesOn
  <2>2. CASE x # s
    <3>1. row'[x] = row[x]
      BY <1>3, <1>t, <1>q, <2>2 DEF Write, Typed
    <3>2. sessions[x] # None => sessions[x] \in Conn /\ sessions[x] # c
      BY <1>t, <1>q, <2>2 DEF Typed, Id, Inv, IdsOwn
    <3>3. sessions[x] # None => managed'[sessions[x]] = managed[sessions[x]]
      BY <1>7, <3>2
    <3>4. \A q \in Request : req[q].sid = x => req'[q] = req[q]
      BY <1>8, <1>q, <2>2
    <3>5. sessions[x] # None /\ ToWrite(x) => ToWrite(x)'
      BY <1>3, <3>3, <3>4 DEF ToWrite, Disconnecting
    <3>. QED BY <1>3, <1>13, <3>1, <3>3, <3>5 DEF RowGoesOn
  <2>. QED BY <2>1, <2>2
<1>. QED BY <1>10, <1>11, <1>13, RowsKept

\* Steps after which a dead session may no longer say that it runs, and in which a
\* session may be made: whoever makes it will write.
LEMMA DrainsOn ==
  ASSUME Inv, RowInv, NEW d \in Conn, managed'[d].actor = managed[d].actor, managed'[d].id = managed[d].id,
         managed'[d].sdk = managed[d].sdk, managed'[d].cmds = managed[d].cmds,
         \/ managed'[d].status = managed[d].status
         \/ managed[d].actor = "over" /\ managed[d].status = "running" /\ managed'[d].status # "running",
         \A i \in Id : sessions'[i] = d => sessions[i] = d
  PROVE  ObjectGoesOn(d)
<1>1. CASE managed'[d].status = managed[d].status
  BY <1>1, OnGoes
<1>2. CASE managed[d].actor = "over" /\ managed[d].status = "running" /\ managed'[d].status # "running"
  <2>1. managed[d].id \in Session \/ ~ Registered(d)'
    <3>. SUFFICES ASSUME NEW i \in Id, sessions'[i] = d, managed[d].id \notin Session PROVE FALSE
      BY DEF Registered
    <3>1. sessions[i] = d /\ managed[d].id = i
      BY SessionAssumption DEF Inv, IdsOwn
    <3>2. i = d
      BY <3>1 DEF Id, Inv, IdsOwn
    <3>. QED BY <1>2, <3>1, <3>2 DEF RowInv, DeadSaySo
  <2>2. managed'[d].cmds = << >>
    BY <1>2 DEF RowInv, Parting
  <2>. QED BY <1>2, <2>1, <2>2, EmptySeq DEF ObjectGoesOn
<1>. QED BY <1>1, <1>2

LEMMA RestRows ==
  ASSUME Inv, Inv', RowInv, KeysStay, EvictionsStay, DroppingStays, \A r \in Request : StillAbout(r),
         \A d \in Conn : \/ New(d)
                         \/ /\ ObjectGoesOn(d) /\ managed'[d].proc = managed[d].proc
                            /\ \/ managed'[d].status = managed[d].status
                               \/ managed[d].actor = "over" /\ managed[d].status = "running",
         \A x \in Session : row'[x] # "running" \/ row'[x] = row[x],
         \A x \in Session : sessions'[x] # None /\ New(sessions'[x]) => ToWrite(x)',
         late' = late, overlap' = overlap
  PROVE  RowInv'
<1>c. None \notin Conn /\ None \notin Session /\ Session \subseteq Id
  BY SessionAssumption DEF Id
<1>1. \A d \in Conn : New(d) \/ ObjectGoesOn(d)
  OBVIOUS
<1>2. ASSUME NEW x \in Session \ overlap' PROVE RowGoesOn(x)
  <2>. SUFFICES ASSUME row'[x] = "running", sessions'[x] # None, ~ ToWrite(x)', managed'[sessions'[x]].status # "running"
                PROVE  /\ row[x] = "running" /\ sessions[x] = sessions'[x] /\ ~ ToWrite(x)
                       /\ managed'[sessions[x]].status = managed[sessions[x]].status
    BY DEF RowGoesOn
  <2>1. sessions[x] = sessions'[x] /\ sessions[x] \in Conn /\ managed[sessions[x]].actor # "none"
    BY <1>c DEF KeysStay, Inv, Typed, IdsOwn
  <2>. PICK d \in Conn : d = sessions[x]
    BY <2>1
  <2>goes. /\ ObjectGoesOn(d) /\ managed'[d].proc = managed[d].proc
           /\ \/ managed'[d].status = managed[d].status
              \/ managed[d].actor = "over" /\ managed[d].status = "running"
    <3>1. ~ New(d)
      BY <2>1 DEF New
    <3>. QED BY <3>1
  <2>status. managed'[d].status = managed[d].status
    <3>1. managed[d].actor = "over" => managed'[d].actor = "over"
      BY <2>goes DEF ObjectGoesOn
    <3>. QED BY <2>1, <2>goes, <3>1, DeadEvicted
  <2>calm. ~ Disconnecting(x)
    BY <2>1 DEF ToWrite, Disconnecting, EvictionsStay, New
  <2>nobody. ASSUME NEW r \in Request, req[r].sid = x, req[r].pc \in {"starting", "marking", "failing"} PROVE FALSE
    <3>1. StillAbout(r) /\ x # None /\ x \notin overlap
      BY <1>c, <1>2
    <3>. QED BY <2>1, <2>status, <2>nobody, <3>1 DEF StillAbout, ToWrite
  <2>. QED BY <2>1, <2>goes, <2>status, <2>calm, <2>nobody DEF ToWrite
<1>. QED BY <1>1, <1>2, RowsKept

Drains(M) ==
  \A d \in Conn : /\ M[d].actor = managed[d].actor /\ M[d].id = managed[d].id /\ M[d].sdk = managed[d].sdk
                  /\ M[d].cmds = managed[d].cmds /\ M[d].proc = managed[d].proc
                  /\ \/ M[d].status = managed[d].status
                     \/ managed[d].actor = "over" /\ managed[d].status = "running" /\ M[d].status # "running"

LEMMA QuitsRows ==
  ASSUME Inv, Inv', RowInv, Drains(managed'), \A i \in Id : sessions'[i] \in {None, sessions[i]},
         EvictionsStay, DroppingStays, \A r \in Request : StillAbout(r),
         \A x \in Session : row'[x] # "running" \/ row'[x] = row[x], late' = late, overlap' = overlap
  PROVE  RowInv'
<1>c. None \notin Conn /\ Session \subseteq Id
  BY SessionAssumption DEF Id
<1>1. \A d \in Conn : ObjectGoesOn(d)
  BY <1>c, DrainsOn DEF Drains
<1>2. ASSUME NEW x \in Session PROVE ~ New(sessions'[x]) \/ sessions'[x] = None
  BY <1>c DEF New, Inv, IdsOwn
<1>3. KeysStay
  BY DEF KeysStay
<1>4. \A d \in Conn : /\ ObjectGoesOn(d) /\ managed'[d].proc = managed[d].proc
                      /\ \/ managed'[d].status = managed[d].status
                         \/ managed[d].actor = "over" /\ managed[d].status = "running"
  BY <1>1 DEF Drains
<1>. QED BY <1>2, <1>3, <1>4, RestRows

\* A session is made for the request that has come so far.
LEMMA OpensRows ==
  ASSUME Inv, Inv', RowInv, NEW S \in [Id -> Conn \union {None}], NEW M \in [Conn -> Managed],
         NEW r \in Opening, req[r].pc \in {"capacity", "evicting"}, Open(r, S, M), Drains(M),
         \A i \in Id : S[i] \in {None, sessions[i]},
         disconnecting' \subseteq disconnecting,
         \A e \in disconnecting \ disconnecting' : S[e.id] = None /\ e.step # "disconnect",
         \A x \in Session : row'[x] # "running" \/ row'[x] = row[x], late' = late, overlap' = overlap
  PROVE  RowInv'
<1>t. Typed /\ None \notin Conn /\ Session \subseteq Id /\ Conn \subseteq Id /\ Session \intersect Conn = {}
      /\ None \notin Session /\ r \in Request
  BY SessionAssumption DEF Inv, Id, Opening
<1>. PICK q \in Requested : q = req[r]
  BY <1>t, RequestParts
<1>p. q.op \in {"send", "new"} /\ (q.op = "send" => q.sid \in Session) /\ (q.op = "new" => q.sid = None)
  BY <1>t DEF Inv, Purposes, PurposeOf, Opening
<1>. PICK c \in Conn : c = Cardinality(Used) + 1 /\ managed[c].actor = "none"
  BY NextNumber
<1>. PICK i \in Id : i = IF q.op = "new" THEN c ELSE q.sid
  BY <1>t, <1>p
<1>. PICK k \in Session \union {None} : k = IF q.op = "new" THEN None ELSE i
  BY <1>p
<1>. DEFINE w == IF q.op = "new" THEN "running" ELSE Resumed(q.meta)
            m == [Blank EXCEPT !.id = i, !.actor = "starting", !.sdk = k, !.status = w]
            g == [q EXCEPT !.pc = "starting", !.c = c]
<1>1. m.id = i /\ m.actor = "starting" /\ m.sdk = k /\ m.cmds = << >>
  BY DEF Blank
<1>2. g.pc = "starting" /\ g.sid = q.sid
  BY DEF Requested
<1>3. sessions' = [S EXCEPT ![i] = c] /\ managed' = [M EXCEPT ![c] = m] /\ req' = [req EXCEPT ![r] = g]
  <2>1. req' = [req EXCEPT ![r].pc = "starting", ![r].c = c]
    BY DEF Open
  <2>2. sessions' = [S EXCEPT ![i] = c] /\ managed' = [M EXCEPT ![c] = m]
    BY DEF Open
  <2>. QED BY <1>t, <2>1, <2>2 DEF Typed
<1>. HIDE DEF m, g
<1>4. /\ sessions'[i] = c /\ \A j \in Id : j # i => sessions'[j] = S[j]
      /\ managed'[c] = m /\ \A d \in Conn : d # c => managed'[d] = M[d]
      /\ req'[r] = g /\ \A p \in Request : p # r => req'[p] = req[p]
  BY <1>t, <1>3 DEF Typed
<1>5. New(c) /\ \A d \in Conn : New(d) => d = c
  <2>1. i \in Conn => k = None
    BY <1>t, <1>p
  <2>2. \A d \in Conn : d # c => managed'[d].actor = managed[d].actor
    BY <1>4 DEF Drains
  <2>. QED BY <1>1, <1>4, <2>1, <2>2 DEF New
<1>6. ASSUME NEW d \in Conn, d # c
      PROVE  /\ ObjectGoesOn(d) /\ managed'[d].proc = managed[d].proc
             /\ \/ managed'[d].status = managed[d].status
                \/ managed[d].actor = "over" /\ managed[d].status = "running"
  <2>1. managed'[d] = M[d] /\ \A j \in Id : sessions'[j] = d => sessions[j] = d
    BY <1>t, <1>4, <1>6
  <2>. QED BY <2>1, DrainsOn DEF Drains
<1>7. KeysStay
  BY <1>4, <1>5 DEF KeysStay
<1>8. EvictionsStay
  <2>1. ASSUME NEW e \in disconnecting
        PROVE  /\ (\E f \in disconnecting' : f.id = e.id) \/ sessions'[e.id] = None \/ New(sessions'[e.id])
               /\ e.step = "disconnect" => \E f \in disconnecting' : f.c = e.c /\ f.step = "disconnect"
    <3>1. CASE e \in disconnecting'
      BY <3>1
    <3>2. CASE e \notin disconnecting'
      <4>1. S[e.id] = None /\ e.step # "disconnect" /\ e.id \in Id
        BY <1>t, <3>2 DEF Typed, Evicting
      <4>. QED BY <1>4, <1>5, <4>1
    <3>. QED BY <3>1, <3>2
  <2>. QED BY <2>1 DEF EvictionsStay
<1>9. DroppingStays
  BY <1>2, <1>4 DEF DroppingStays
<1>10. \A p \in Request : StillAbout(p)
  BY <1>4 DEF StillAbout
<1>11. ASSUME NEW x \in Session, sessions'[x] # None, New(sessions'[x]) PROVE ToWrite(x)'
  <2>1. x = i
    <3>. SUFFICES ASSUME x # i PROVE FALSE
      OBVIOUS
    <3>1. sessions'[x] = sessions[x] /\ x \in Id
      BY <1>t, <1>4, <1>11
    <3>2. managed[sessions[x]].actor # "none"
      BY <1>11, <3>1 DEF Inv, IdsOwn
    <3>. QED BY <1>11, <3>1, <3>2 DEF New
  <2>2. q.sid = x
    BY <1>t, <1>p, <2>1
  <2>. QED BY <1>2, <1>4, <1>t, <2>2 DEF ToWrite
<1>. QED BY <1>5, <1>6, <1>7, <1>8, <1>9, <1>10, <1>11, RestRows

\* The first half of EnsureCapacity: there is room.
LEMMA HasSlotRows ==
  ASSUME Inv, Inv', RowInv, NEW r \in Request, At(r, "capacity"), Open(r, sessions, managed),
         UNCHANGED << disconnecting, locks, row, late, overlap, begun, faults >>
  PROVE  RowInv'
<1>1. r \in Opening /\ req[r].pc = "capacity"
  BY DEF Opening, At
<1>2. sessions \in [Id -> Conn \union {None}] /\ managed \in [Conn -> Managed]
  BY DEF Inv, Typed
<1>3. Drains(managed)
  BY DEF Drains
<1>. QED BY <1>1, <1>2, <1>3, OpensRows

LEMMA LeavesRows ==
  ASSUME Inv, Inv', RowInv, NEW M \in [Conn -> Managed], NEW e \in disconnecting, e.step \in {"drain", "persist"},
         Leave(e, M), Drains(M), \A x \in Session : row'[x] # "running" \/ row'[x] = row[x],
         late' = late, overlap' = overlap
  PROVE  RowInv'
<1>t. Typed /\ e.c \in Conn /\ e.id \in Id /\ e.by \in Request \union {None} /\ None \notin Request /\ None \notin Id
  BY SessionAssumption DEF Inv, Typed, Evicting, Id
<1>. DEFINE S == [sessions EXCEPT ![e.id] = None]
<1>1. /\ S \in [Id -> Conn \union {None}] /\ S[e.id] = None /\ \A i \in Id : S[i] \in {None, sessions[i]}
  BY <1>t DEF Typed
<1>2. disconnecting' = disconnecting \ {e}
  BY DEF Leave
<1>s. S = [sessions EXCEPT ![e.id] = None]
  OBVIOUS
<1>. HIDE DEF S
<1>3. CASE e.by # None /\ req[e.by].op # "delete"
  <2>. PICK r \in Request : r = e.by
    BY <1>t, <1>3
  <2>1. Open(r, S, M)
    BY <1>3 DEF Leave, S
  <2>2. req[r].pc = "evicting" /\ r \in Opening
    BY <1>3 DEF Inv, EvictionsMean, Opening
  <2>3. disconnecting' \subseteq disconnecting
        /\ \A f \in disconnecting \ disconnecting' : S[f.id] = None /\ f.step # "disconnect"
    BY <1>1, <1>2
  <2>. QED BY <1>1, <2>1, <2>2, <2>3, OpensRows
<1>4. CASE ~ (e.by # None /\ req[e.by].op # "delete")
  <2>1. /\ sessions' = S /\ managed' = M
        /\ req' = IF e.by = None THEN req ELSE [req EXCEPT ![e.by].pc = "deleting"]
    BY <1>4 DEF Leave, S
  <2>2. EvictionsStay
    <3>1. \A f \in disconnecting : f = e \/ f \in disconnecting'
      BY <1>2
    <3>2. \A f \in disconnecting' : f \in disconnecting
      BY <1>2
    <3>. QED BY <1>1, <2>1, <3>1, <3>2 DEF EvictionsStay
  <2>3. DroppingStays /\ \A p \in Request : StillAbout(p)
    <3>1. CASE e.by = None
      BY <2>1, <3>1, NobodyMoves
    <3>2. ASSUME e.by # None PROVE DroppingStays /\ \A p \in Request : StillAbout(p)
      <4>. PICK r \in Request : r = e.by
        BY <1>t, <3>2
      <4>1. req[r].pc = "evicting" /\ req[r] \in Requested
        BY <1>t, <3>2, RequestParts DEF Inv, EvictionsMean
      <4>. DEFINE q == [req[r] EXCEPT !.pc = "deleting"]
      <4>2. q.pc = "deleting"
        BY <4>1 DEF Requested
      <4>3. req' = [req EXCEPT ![r] = q]
        BY <1>t, <2>1, <3>2 DEF Typed
      <4>. HIDE DEF q
      <4>. QED BY <4>1, <4>2, <4>3, MovesOn DEF StillAbout
    <3>. QED BY <3>1, <3>2
  <2>4. Drains(managed') /\ \A i \in Id : sessions'[i] \in {None, sessions[i]}
    BY <1>1, <2>1 DEF Drains
  <2>. QED BY <2>2, <2>3, <2>4, QuitsRows
<1>. QED BY <1>3, <1>4

LEMMA DrainedRows == ASSUME Inv, Inv', RowInv, NEW e \in disconnecting, Drained(e) PROVE RowInv'
<1>. PICK c \in Conn : c = e.c
  BY DEF Inv, Typed, Evicting
<1>t. Typed /\ managed[c].actor = "over" /\ e.step = "drain"
  BY DEF Inv, EvictionsMean, Drained
<1>. DEFINE m == [managed[c] EXCEPT !.status = Drained0(c)]
            M == [managed EXCEPT ![c].status = Drained0(c)]
<1>1. /\ m \in Managed /\ m.actor = "over" /\ m.id = managed[c].id /\ m.sdk = managed[c].sdk
      /\ m.proc = managed[c].proc /\ m.cmds = managed[c].cmds /\ m.status = Drained0(c)
  <2>1. managed[c] \in Managed
    BY <1>t, ManagedParts
  <2>2. m.status = Drained0(c)
    BY <2>1 DEF Managed
  <2>. QED BY <1>t, <2>2, DrainedParts
<1>2. M = [managed EXCEPT ![c] = m]
  BY <1>t DEF Typed
<1>3. /\ \/ /\ Step(e, "persist") /\ managed' = M /\ UNCHANGED << sessions, locks, req >>
            /\ Drained0(c) \in {"interrupted", "error"}
         \/ Leave(e, M)
      /\ UNCHANGED << row, late, overlap, begun, faults >>
  BY DEF Drained, Drained0
<1>. HIDE DEF m
<1>4. M \in [Conn -> Managed] /\ M[c] = m /\ \A d \in Conn : d # c => M[d] = managed[d]
  BY <1>t, <1>1, <1>2 DEF Typed
<1>. HIDE DEF M
<1>5. Drains(M)
  <2>1. \/ Drained0(c) = managed[c].status
        \/ managed[c].status = "running" /\ Drained0(c) # "running"
    BY DEF Drained0
  <2>. QED BY <1>t, <1>1, <1>4, <2>1 DEF Drains
<1>6. CASE /\ Step(e, "persist") /\ managed' = M /\ UNCHANGED << sessions, locks, req >>
           /\ Drained0(c) \in {"interrupted", "error"}
  <2>1. managed'[e.c].status # "running"
    BY <1>1, <1>4, <1>6
  <2>2. EvictionsStay
    BY <1>t, <1>6, <2>1, EvictionStepped
  <2>. QED BY <1>3, <1>5, <1>6, <2>2, NobodyMoves, QuitsRows
<1>7. CASE Leave(e, M)
  BY <1>t, <1>3, <1>4, <1>5, <1>7, LeavesRows
<1>. QED BY <1>3, <1>6, <1>7

LEMMA PersistRows == ASSUME Inv, Inv', RowInv, NEW e \in disconnecting, Persist(e) PROVE RowInv'
<1>t. Typed /\ e.step = "persist" /\ managed[e.c].status # "running"
  BY DEF Inv, RowInv, DeadSaySo, Persist
<1>1. \A x \in Session : row'[x] # "running" \/ row'[x] = row[x]
  BY <1>t DEF Persist, Write, Typed
<1>2. managed \in [Conn -> Managed] /\ Leave(e, managed) /\ late' = late /\ overlap' = overlap
  BY <1>t DEF Typed, Persist
<1>3. Drains(managed)
  BY DEF Drains
<1>. QED BY <1>t, <1>1, <1>2, <1>3, LeavesRows

LEMMA EnsureCapacityRows == ASSUME Inv, Inv', RowInv, NEW r \in Request, EnsureCapacity(r) PROVE RowInv'
<1>t. At(r, "capacity") /\ UNCHANGED << locks, row, late, overlap, begun, faults >>
  BY DEF EnsureCapacity
<1>1. CASE Open(r, sessions, managed) /\ UNCHANGED disconnecting
  BY <1>t, <1>1, HasSlotRows
<1>2. ASSUME NEW c \in Active, managed[c].status # "running", Evict(managed, c, r),
             req' = [req EXCEPT ![r].pc = "evicting"], UNCHANGED sessions
      PROVE  RowInv'
  BY <1>t, <1>2, WaitsRows
<1>3. CASE req' = Done(r) /\ UNCHANGED << sessions, managed, disconnecting >>
  BY <1>t, <1>3, WaitsRows
<1>. QED BY <1>1, <1>2, <1>3 DEF EnsureCapacity

LEMMA ServerRestartsRows == ASSUME Inv, ServerRestarts PROVE RowInv'
<1>t. None \notin Conn /\ None \notin Id /\ Session \subseteq Id /\ Conn \subseteq Id
  BY SessionAssumption DEF Id
<1>1. /\ sessions' = [i \in Id |-> None] /\ disconnecting' = {} /\ req' = [r \in Request |-> Idle]
  BY DEF ServerRestarts
<1>2. \A c \in Conn : managed'[c].cmds = << >> /\ managed'[c].id = None
  <2>. SUFFICES ASSUME NEW c \in Conn PROVE managed'[c].cmds = << >> /\ managed'[c].id = None
    OBVIOUS
  <2>. PICK k : k = managed[c].sdk
    OBVIOUS
  <2>1. CASE managed'[c] = Blank
    BY <2>1 DEF Blank
  <2>2. CASE managed'[c] = [Blank EXCEPT !.actor = "over", !.sdk = k]
    BY <2>2 DEF Blank
  <2>. QED BY <2>1, <2>2 DEF ServerRestarts
<1>3. \A r \in Request : req'[r].pc = "idle"
  BY <1>1 DEF Idle
<1>4. Parting'
  BY <1>2, <1>3, EmptySeq DEF Parting
<1>5. Origins' /\ DeadSaySo' /\ RowTold'
  BY <1>1, <1>2, <1>t DEF Origins, DeadSaySo, RowTold
<1>. QED BY <1>4, <1>5 DEF RowInv

LEMMA InitRows == Init => RowInv
<1>. SUFFICES ASSUME Init PROVE RowInv
  OBVIOUS
<1>t. None \notin Conn /\ None \notin Id /\ Session \subseteq Id /\ Conn \subseteq Id
  BY SessionAssumption DEF Id
<1>1. /\ sessions = [i \in Id |-> None] /\ disconnecting = {} /\ req = [r \in Request |-> Idle]
      /\ managed = [c \in Conn |-> Blank]
  BY DEF Init
<1>2. \A c \in Conn : managed[c].cmds = << >> /\ managed[c].id = None
  BY <1>1 DEF Blank
<1>3. \A r \in Request : req[r].pc = "idle"
  BY <1>1 DEF Idle
<1>4. Parting
  BY <1>2, <1>3, EmptySeq DEF Parting
<1>5. Origins /\ DeadSaySo /\ RowTold
  BY <1>1, <1>2, <1>t DEF Origins, DeadSaySo, RowTold
<1>. QED BY <1>4, <1>5 DEF RowInv

LEMMA SwapKeyRows == ASSUME Inv, Inv', RowInv, NEW c \in Conn, SwapKey(c) PROVE RowInv'
BY SwapParts, SwapMissedRows, SwapMadeRows

LEMMA ProceedRows == ASSUME Inv, Inv', RowInv, NEW r \in Request, Proceed(r) PROVE RowInv'
BY LookUpRows, AcquireLockRows, EnsureCapacityRows, StartedRows, MarkRunningRows, SendFailsRows,
   FailureRecordedRows, NamingFailsRows, DroppedRows, InterruptRows, InterruptUnheardRows, RepairRows,
   DeleteRowRows DEF Proceed

LEMMA EvictionRows == ASSUME Inv, Inv', RowInv, Eviction PROVE RowInv'
BY HangUpRows, DisconnectedRows, DisconnectTimesOutRows, DrainedRows, PersistRows DEF Eviction

LEMMA InboxRows == ASSUME Inv, Inv', RowInv, NEW c \in Conn, Inbox(c) PROVE RowInv'
BY ProcessInboxRows, CreateRowRows, SwapKeyRows, FinalizeRows DEF Inbox

LEMMA ActorRows == ASSUME Inv, Inv', RowInv, NEW c \in Conn, Actor(c) PROVE RowInv'
BY ActorSendsRows, ActorInterruptedRows, ActorLeavesRows, TurnEndsRows DEF Actor

LEMMA RowsStep == Inv /\ RowInv /\ [Next]_vars => RowInv'
<1>. SUFFICES ASSUME Inv, RowInv, [Next]_vars PROVE RowInv'
  OBVIOUS
<1>0. Inv'
  BY InvStep
<1>1. ASSUME NEW c \in Conn,
             \/ Actor(c) \/ Inbox(c) \/ FirstMessage(c) \/ AskUser(c) \/ AnswerUser(c)
             \/ ActorCrashes(c) \/ TimerFires(c) \/ Patrol(c)
      PROVE  RowInv'
  BY <1>0, <1>1, ActorRows, InboxRows, FirstMessageRows, AskUserRows, AnswerUserRows, ActorCrashesRows,
     TimerFiresRows, PatrolRows
<1>2. ASSUME NEW r \in Request, Proceed(r) \/ StartFails(r) \/ NewArrives(r)
      PROVE  RowInv'
  BY <1>0, <1>2, ProceedRows, StartFailsRows, NewArrivesRows
<1>3. ASSUME NEW r \in Request, NEW s \in Session,
             SendArrives(r, s) \/ InterruptArrives(r, s) \/ DeleteArrives(r, s)
      PROVE  RowInv'
  BY <1>0, <1>3, SendArrivesRows, InterruptArrivesRows, DeleteArrivesRows
<1>. QED BY <1>0, <1>1, <1>2, <1>3, EvictionRows, PersistActorErrorRows, ServerRestartsRows, UnchangedRows DEF Next

\* When nobody works on a session that is in the registry, its row says running only
\* if the session runs: whoever changed its status has written it down.  The exception
\* is a session that died while it was still known by its number.
THEOREM RowsFollow == Spec => []RowFollows
<1>1. Inv /\ RowInv => RowFollows
  <2>. SUFFICES ASSUME Inv, RowInv, NEW s \in Session, Quiet(s), sessions[s] # None, s \notin overlap, row[s] = "running"
                PROVE  Excused(s)
    BY DEF RowFollows, Excused
  <2>1. sessions[s] \in Conn /\ managed[sessions[s]].id = s /\ managed[sessions[s]].sdk = s
    BY DEF Inv, Typed, IdsOwn, Id
  <2>2. ~ ToWrite(s)
    BY <2>1 DEF Quiet, ToWrite, At
  <2>. QED BY <2>2 DEF RowInv, RowTold
<1>. QED BY <1>1, InitInv, InitRows, InvStep, RowsStep, PTL DEF Spec
================================================================================
