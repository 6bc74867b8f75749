----------------------------- MODULE Services_proofs -----------------------------
(***************************************************************************)
(* What holds of a session and of a project for any commands, viewers,     *)
(* writers and clients: the actor of a session, its transcript in the      *)
(* database, what its viewers get to see and in which turns; the migration *)
(* of a project, its import, and the stream of its changes.                *)
(***************************************************************************)
EXTENDS SessionActor, SessionFeed, TurnProjection, AgentSessionStore, ProjectMigrations, ProjectInstall,
        ProjectEvents, Numbers_proofs

-------------------------------------------------------------------------------
(* The actor.  Raises is any set of awaits that may raise.                   *)

\* No command twice.
Once(s) == \A i, j \in DOMAIN s : s[i] = s[j] => i = j

\* A command is in one place at a time, and no prompt that waits there has gone
\* out yet.
OnePlace ==
  /\ Range(queue) \union sent \subseteq asked
  /\ Once(queue)
  /\ \A c \in {cur, aside, got} : c # NoCmd => c \in asked /\ c \notin Range(queue)
  /\ cur = aside \/ cur = got => cur = NoCmd
  /\ aside = got => aside = NoCmd
  /\ \A c \in Range(queue) \union {aside, got} : c \notin sent
  /\ apc = "querying" => cur \notin sent
  /\ apc \in DriveStates => cur \in sent

ActorInv == TypeOK /\ SentWhenDone /\ OnePlace

\* The exceptions after which the code forgets a command do not occur.
Gentle == Raises \intersect {"stream", "hangup", "cancel"} = {}

--------------------------------------------------------------------------------
LEMMA AppendOne ==
  ASSUME NEW S, NEW s \in Seq(S), NEW x \in S
  PROVE  /\ Append(s, x) \in Seq(S)
         /\ Range(Append(s, x)) = Range(s) \union {x}
         /\ Once(s) /\ x \notin Range(s) => Once(Append(s, x))
<1>1. /\ Append(s, x) \in Seq(S)
      /\ Len(s) \in Nat
      /\ DOMAIN s = 1 .. Len(s)
      /\ DOMAIN Append(s, x) = 1 .. (Len(s) + 1)
      /\ \A i \in 1 .. Len(s) : Append(s, x)[i] = s[i]
      /\ Append(s, x)[Len(s) + 1] = x
  BY AppendProperties, LenProperties
<1>2. Range(Append(s, x)) = Range(s) \union {x}
  BY <1>1 DEF Range
<1>3. ASSUME Once(s), x \notin Range(s) PROVE Once(Append(s, x))
  BY <1>1, <1>3 DEF Once, Range
<1> QED BY <1>1, <1>2, <1>3

LEMMA TakeOne ==
  ASSUME NEW S, NEW s \in Seq(S), s # << >>
  PROVE  /\ Head(s) \in S /\ Tail(s) \in Seq(S)
         /\ Range(s) = {Head(s)} \union Range(Tail(s))
         /\ Once(s) => Once(Tail(s)) /\ Head(s) \notin Range(Tail(s))
<1>1. /\ Tail(s) \in Seq(S) /\ Head(s) \in S /\ Head(s) = s[1]
      /\ Len(s) \in Nat \ {0}
      /\ DOMAIN s = 1 .. Len(s)
      /\ DOMAIN Tail(s) = 1 .. (Len(s) - 1)
      /\ \A i \in 1 .. (Len(s) - 1) : Tail(s)[i] = s[i + 1]
  BY HeadTailProperties, LenProperties, EmptySeq
<1>2. Range(s) = {Head(s)} \union Range(Tail(s))
  <2>1. Range(s) \subseteq {Head(s)} \union Range(Tail(s))
    <3>1. SUFFICES ASSUME NEW i \in 1 .. Len(s), i # 1
                   PROVE  s[i] \in Range(Tail(s))
      BY <1>1 DEF Range
    <3>2. i - 1 \in 1 .. (Len(s) - 1) /\ Tail(s)[i - 1] = s[i]
      BY <1>1, <3>1
    <3> QED BY <1>1, <3>2 DEF Range
  <2>2. Head(s) \in Range(s)
    BY <1>1 DEF Range
  <2>3. Range(Tail(s)) \subseteq Range(s)
    <3>1. SUFFICES ASSUME NEW i \in 1 .. (Len(s) - 1)
                   PROVE  Tail(s)[i] \in Range(s)
      BY <1>1 DEF Range
    <3>2. i + 1 \in 1 .. Len(s) /\ Tail(s)[i] = s[i + 1]
      BY <1>1
    <3> QED BY <1>1, <3>2 DEF Range
  <2> QED BY <2>1, <2>2, <2>3
<1>3. ASSUME Once(s) PROVE Once(Tail(s)) /\ Head(s) \notin Range(Tail(s))
  BY <1>1, <1>3 DEF Once, Range
<1> QED BY <1>1, <1>2, <1>3

LEMMA EmptyRange == Range(<< >>) = {} /\ Once(<< >>)
BY EmptySeq, LenProperties DEF Range, Once

--------------------------------------------------------------------------------
LEMMA InitActor == Init => ActorInv
BY EmptyRange, EmptySeq, NoCmdAssumption
   DEF Init, ActorInv, TypeOK, SentWhenDone, OnePlace, Held, AwaitStates, DriveStates, Is

LEMMA NextKeepsActor == ActorInv /\ [Next]_vars => ActorInv'
<1> SUFFICES ASSUME ActorInv, [Next]_vars PROVE ActorInv'
  OBVIOUS
<1> USE NoCmdAssumption, KindAssumption
<1> USE DEF ActorInv, TypeOK, SentWhenDone, OnePlace, Held, AwaitStates, DriveStates, Kind, Is, Opt
<1>enq. ASSUME NEW c \in Cmd, Enqueue(c) PROVE ActorInv'
  <2>1. CASE apc = "ended"
    BY <1>enq, <2>1 DEF Enqueue, Mark
  <2>2. CASE apc # "ended"
    <3>1. /\ queue' \in Seq(Cmd)
          /\ Range(queue') = Range(queue) \union {c}
          /\ Once(queue')
      <4>1. c \notin Range(queue) /\ queue' = Append(queue, c)
        BY <1>enq, <2>2 DEF Enqueue
      <4> QED BY <4>1, AppendOne
    <3>2. /\ UNCHANGED << apc, cur, aside, got, msg, sent, done >>
          /\ asked' = asked \union {c} /\ c \notin asked
      BY <1>enq, <2>2 DEF Enqueue, Mark
    <3>3. TypeOK'
      BY <1>enq, <2>2, <3>1, <3>2
    <3>4. OnePlace'
      BY <1>enq, <3>1, <3>2
    <3> QED BY <3>2, <3>3, <3>4
  <2> QED BY <2>1, <2>2
<1>get. CASE Get
  BY <1>get, TakeOne DEF Get
<1>connected. CASE Connected
  BY <1>connected DEF Connected, Mark
<1>connectraises. CASE ConnectRaises
  BY <1>connectraises, EmptyRange, EmptySeq DEF ConnectRaises, Mark, End
<1>take. CASE Take
  BY <1>take, TakeOne DEF Take, Mark, Acked, Handle
<1>querysent. CASE QuerySent
  BY <1>querysent DEF QuerySent, Mark
<1>queryraises. CASE QueryRaises
  BY <1>queryraises DEF QueryRaises, Mark, Unwind
<1>wake. CASE Wake
  BY <1>wake DEF Wake, Mark, Dispatch
<1>endofstream. CASE EndOfStream
  <2> DEFINE next == IF aside # NoCmd THEN aside ELSE got
  <2>1. CASE aside # NoCmd /\ got # NoCmd
    <3>1. /\ queue' \in Seq(Cmd)
          /\ Range(queue') = Range(queue) \union {got}
          /\ Once(queue')
      BY <1>endofstream, <2>1, AppendOne DEF EndOfStream
    <3> QED BY <1>endofstream, <2>1, <3>1 DEF EndOfStream, Mark, Handle, Acked
  <2>2. CASE aside = NoCmd \/ got = NoCmd
    <3>1. queue' = queue /\ Handle(next) /\ Mark(Acked(next), {cur})
          /\ aside' = NoCmd /\ got' = NoCmd /\ msg' = "none" /\ asked' = asked
          /\ apc = "driving"
      BY <1>endofstream, <2>2 DEF EndOfStream
    <3>2. next # NoCmd => /\ next \in Cmd \ sent
                          /\ next \in asked \ Range(queue)
                          /\ next # cur
      BY <3>1
    <3> HIDE DEF next
    <3>3. TypeOK'
      BY <3>1, <3>2 DEF Handle, Mark, Acked
    <3>4. SentWhenDone' /\ OnePlace'
      BY <3>1, <3>2 DEF Handle, Mark, Acked
    <3> QED BY <3>3, <3>4
  <2> QED BY <2>1, <2>2
<1>streamerror. CASE StreamError
  BY <1>streamerror DEF StreamError, Mark, Unwind
<1>interrupted. CASE Interrupted
  BY <1>interrupted DEF Interrupted, Mark
<1>interruptraises. CASE InterruptRaises
  BY <1>interruptraises DEF InterruptRaises, Mark, Unwind
<1>hungup. CASE HungUp
  <2>1. /\ apc' = "closing" /\ cur' = NoCmd /\ aside' = NoCmd /\ got' = NoCmd
        /\ msg' = "none" /\ UNCHANGED << queue, asked >>
        /\ sent' = sent \union Opt(aside) \union {got}
        /\ done' = done \union Opt(aside) \union {got} \union {cur}
    BY <1>hungup DEF HungUp, Mark, Handle, Acked
  <2>2. TypeOK' /\ SentWhenDone'
    BY <1>hungup, <2>1 DEF HungUp
  <2>3. OnePlace'
    BY <1>hungup, <2>1 DEF HungUp
  <2> QED BY <2>2, <2>3
<1>hangupraises. CASE HangUpRaises
  BY <1>hangupraises DEF HangUpRaises, Mark, Unwind
<1>closed. CASE Closed
  BY <1>closed, EmptyRange, EmptySeq DEF Closed, Mark, End
<1>stream. ASSUME NEW m \in {"message", "end", "error"}, Stream(m) PROVE ActorInv'
  BY <1>stream DEF Stream
<1>cancelled. CASE Cancelled
  BY ZenonT(50), <1>cancelled, EmptyRange, EmptySeq DEF Cancelled, End, Unwind, Mark
<1>still. CASE UNCHANGED vars
  BY <1>still DEF vars
<1> QED
  BY <1>enq, <1>get, <1>connected, <1>connectraises, <1>take, <1>querysent,
     <1>queryraises, <1>wake, <1>endofstream, <1>streamerror, <1>interrupted,
     <1>interruptraises, <1>hungup, <1>hangupraises, <1>closed, <1>stream,
     <1>cancelled, <1>still
  DEF Next, Step, StreamMessage, StreamEnds, StreamFails

LEMMA ActorInvariance == Spec => []ActorInv
<1> QED BY InitActor, NextKeepsActor, PTL DEF Spec

\* The values have their types, and the actor holds a command only at the awaits
\* where the code has one in a local variable, whatever raises and whenever.
THEOREM TypeCorrect == Spec => []TypeOK
<1>1. ActorInv => TypeOK
  BY DEF ActorInv
<1> QED BY <1>1, ActorInvariance, PTL

\* complete() keeps its contract: no command has done set and sent unset, so no
\* caller of send_query sleeps through the end of its turn.
THEOREM DoneWakesSenders == Spec => []SentWhenDone
<1>1. ActorInv => SentWhenDone
  BY DEF ActorInv
<1> QED BY <1>1, ActorInvariance, PTL

\* A prompt goes out once, and not after its caller was refused, whatever raises:
\* a query that waits in the queue or aside has not been completed.
THEOREM PromptsGoOutOnce == Spec => SentOnce
<1>1. ActorInv /\ [Next]_vars => [apc = "querying" /\ apc' = "driving" => cur \notin sent]_vars
  BY DEF ActorInv, OnePlace
<1> QED BY <1>1, ActorInvariance, PTL DEF Spec, SentOnce

--------------------------------------------------------------------------------
\* A stream that does not raise delivers no error.
NoError == msg # "error"

LEMMA NextKeepsNoError == Gentle /\ NoError /\ [Next]_vars => NoError'
<1> SUFFICES ASSUME Gentle, NoError, [Next]_vars PROVE NoError'
  OBVIOUS
<1> USE DEF NoError
<1>1. CASE Step
  BY <1>1 DEF Step, Connected, ConnectRaises, Take, QuerySent, QueryRaises, Unwind, Wake,
              EndOfStream, StreamError, Interrupted, InterruptRaises, HungUp,
              HangUpRaises, Closed
<1>2. CASE StreamMessage \/ StreamEnds \/ StreamFails
  BY <1>2 DEF StreamMessage, StreamEnds, StreamFails, Stream, Gentle
<1>3. CASE Get \/ Cancelled \/ \E c \in Cmd : Enqueue(c)
  BY <1>3 DEF Get, Cancelled, Enqueue, Unwind
<1>4. CASE UNCHANGED vars
  BY <1>4 DEF vars
<1> QED BY <1>1, <1>2, <1>3, <1>4 DEF Next

LEMMA NextKeepsHeld ==
  ASSUME Gentle, ActorInv, NoError, NoneMislaid, [Next]_vars
  PROVE  NoneMislaid'
<1> USE NoCmdAssumption
<1> USE DEF NoneMislaid, Held, Is, Opt, Mark
<1>q. queue \in Seq(Cmd)
  BY DEF ActorInv, TypeOK
<1>i. /\ apc \notin DriveStates => aside = NoCmd /\ got = NoCmd
      /\ apc \notin DriveStates \union {"querying"} => cur = NoCmd
      /\ NoCmd \notin asked
      /\ {cur, aside, got} \subseteq Cmd \union {NoCmd}
  BY DEF ActorInv, TypeOK
<1>connected. CASE Connected
  BY <1>q, <1>i, <1>connected DEF Connected
<1>connectraises. CASE ConnectRaises
  BY <1>q, <1>i, <1>connectraises DEF ConnectRaises, End, DriveStates
<1>take. CASE Take
  BY <1>q, <1>i, <1>take, TakeOne DEF Take, Handle, Acked, DriveStates
<1>querysent. CASE QuerySent
  BY <1>q, <1>i, <1>querysent DEF QuerySent, DriveStates
<1>queryraises. CASE QueryRaises
  BY <1>q, <1>i, <1>queryraises DEF QueryRaises, Unwind, DriveStates
<1>wake. CASE Wake
  BY <1>q, <1>i, <1>wake DEF Wake, Dispatch
<1>endofstream. CASE EndOfStream
  BY <1>q, <1>i, <1>endofstream, AppendOne DEF EndOfStream, Handle, Acked
<1>interrupted. CASE Interrupted
  BY <1>q, <1>i, <1>interrupted DEF Interrupted
<1>interruptraises. CASE InterruptRaises
  BY <1>q, <1>i, <1>interruptraises DEF InterruptRaises, Unwind
<1>hungup. CASE HungUp
  BY <1>q, <1>i, <1>hungup DEF HungUp, Handle, Acked
<1>closed. CASE Closed
  BY <1>q, <1>i, <1>closed DEF Closed, End, DriveStates
<1>enq. ASSUME NEW c \in Cmd, Enqueue(c) PROVE NoneMislaid'
  <2>1. CASE apc = "ended"
    BY <1>enq, <2>1 DEF Enqueue
  <2>2. CASE apc # "ended"
    <3>1. Range(queue') = Range(queue) \union {c}
      <4>1. queue' = Append(queue, c)
        BY <1>enq, <2>2 DEF Enqueue
      <4> QED BY <1>q, <4>1, AppendOne
    <3> QED BY <1>enq, <2>2, <3>1 DEF Enqueue
  <2> QED BY <2>1, <2>2
<1>get. CASE Get
  BY <1>q, <1>i, <1>get, TakeOne DEF Get
<1>stream. ASSUME NEW m \in {"message", "end", "error"}, Stream(m) PROVE NoneMislaid'
  BY <1>stream DEF Stream
<1>no. ~ StreamError /\ ~ HangUpRaises /\ ~ Cancelled
  BY DEF Gentle, NoError, StreamError, HangUpRaises, Cancelled
<1>still. CASE UNCHANGED vars
  BY <1>still DEF vars
<1> QED
  BY <1>connected, <1>connectraises, <1>take, <1>querysent, <1>queryraises, <1>wake,
     <1>endofstream, <1>interrupted, <1>interruptraises, <1>hungup, <1>closed,
     <1>enq, <1>get, <1>stream, <1>no, <1>still
  DEF Next, Step, StreamMessage, StreamEnds, StreamFails

\* No command is mislaid when the response stream, the interrupt of a disconnect
\* and the task itself raise nothing; connecting, sending a prompt and
\* interrupting may.
THEOREM NothingMislaid == Gentle => (Spec => []NoneMislaid)
<1> SUFFICES ASSUME Gentle PROVE Spec => []NoneMislaid
  OBVIOUS
<1> DEFINE All == ActorInv /\ NoError /\ NoneMislaid
<1>1. Init => All
  BY InitActor DEF Init, NoError, NoneMislaid
<1>2. All /\ [Next]_vars => All'
  BY NextKeepsActor, NextKeepsNoError, NextKeepsHeld
<1>3. All => NoneMislaid
  OBVIOUS
<1> QED BY <1>1, <1>2, <1>3, PTL DEF Spec

\* Then nobody still waits for a command when the task is over: what had not been
\* answered was in the queue, and the queue was drained.
THEOREM NobodyLeftBehind == Gentle => (Spec => []Released)
<1> SUFFICES ASSUME Gentle PROVE Spec => []Released
  OBVIOUS
<1>1. ActorInv /\ NoneMislaid => Released
  BY EmptyRange, NoCmdAssumption
  DEF ActorInv, TypeOK, SentWhenDone, NoneMislaid, Held, Released, DriveStates
<1>2. Spec => []NoneMislaid
  BY NothingMislaid
<1> QED BY <1>1, <1>2, ActorInvariance, PTL

-------------------------------------------------------------------------------
(* The transcript.                                                           *)

AppendType ==
  [pc : {"idle", "read", "inserted", "again", "gave up", "done", "failed"}, start : Nat,
   tries : Nat, fresh : SUBSET Nat, before : Nat]

StoreTypeOK ==
  /\ \E M \in Nat : DOMAIN rows \subseteq 0 .. M
  /\ rows = [n \in DOMAIN rows |-> rows[n]]
  /\ summary \in Seq(Writer)
  /\ append \in [Writer -> AppendType]

\* No entry is there twice.
RowsDistinct == \A m, n \in DOMAIN rows : rows[m] = rows[n] => m = n

\* The transaction that has inserted has the transcript to itself.
OneInserting == \A w \in Writer : append[w].pc = "inserted" <=> writing = w

\* What it has inserted is still new, and its numbers still free.
InsertedFresh ==
  \A w \in Writer : append[w].pc = "inserted" => append[w].fresh = Fresh(w) /\ Taken(w) = {}

\* A call that returned has its entries, those it brought at its numbers.
DoneThere ==
  \A w \in Writer : append[w].pc = "done" =>
    /\ \A i \in DOMAIN Entries(w) : \E n \in DOMAIN rows : rows[n] = Entries(w)[i]
    /\ \A i \in append[w].fresh :
         /\ i \in DOMAIN Entries(w)
         /\ Number(w, i) \in DOMAIN rows /\ rows[Number(w, i)] = Entries(w)[i]

RowsOfSummary == \A n \in DOMAIN rows : \E w \in Range(summary) : rows[n] \in Range(Entries(w))

SummaryIsDone == Range(summary) = {w \in Writer : append[w].pc = "done"}

\* A number that was read is above all rows, unless another call was committed since.
ReadAbove ==
  \A w \in Writer :
    /\ append[w].pc = "idle" => append[w].tries = 0 /\ append[w].before = 0
    /\ append[w].tries <= Len(summary) - append[w].before
    /\ append[w].pc = "read" =>
         \/ \A n \in DOMAIN rows : n < append[w].start
         \/ append[w].tries + 1 <= Len(summary) - append[w].before

StoreInv ==
  /\ StoreTypeOK /\ RowsDistinct /\ OneInserting /\ InsertedFresh /\ DoneThere /\ RowsOfSummary
  /\ SummaryIsDone /\ ReadAbove

LEMMA InitStore == StoreRowsInit => StoreInv
<1>. SUFFICES ASSUME StoreRowsInit PROVE StoreInv
  OBVIOUS
<1>1. DOMAIN rows = {} /\ summary = << >> /\ Range(summary) = {}
  BY DEF StoreRowsInit, Range
<1>2. StoreTypeOK
  <2>1. rows = [n \in DOMAIN rows |-> rows[n]]
    BY DEF StoreRowsInit
  <2>. QED BY <1>1, <2>1 DEF StoreRowsInit, StoreTypeOK, NotBegun, AppendType
<1>3. OneInserting /\ InsertedFresh /\ DoneThere /\ SummaryIsDone
  BY <1>1, StoreAssumption DEF StoreRowsInit, NotBegun, OneInserting, InsertedFresh, DoneThere, SummaryIsDone
<1>4. RowsDistinct /\ RowsOfSummary
  BY <1>1 DEF RowsDistinct, RowsOfSummary
<1>5. ReadAbove
  BY <1>1 DEF StoreRowsInit, NotBegun, ReadAbove
<1>. QED BY <1>2, <1>3, <1>4, <1>5 DEF StoreInv

LEMMA NextSeqAbove ==
  ASSUME StoreTypeOK, NEW w \in Writer
  PROVE  NextSeq(w) \in Nat /\ \A n \in DOMAIN rows : n < NextSeq(w)
<1>1. PICK M \in Nat : DOMAIN rows \subseteq 0 .. M
  BY DEF StoreTypeOK
<1>2. CASE DOMAIN rows = {}
  BY <1>2 DEF NextSeq
<1>3. CASE DOMAIN rows # {}
  <2>1. Max(DOMAIN rows) \in DOMAIN rows /\ \A n \in DOMAIN rows : n <= Max(DOMAIN rows)
    BY <1>1, <1>3, MaxIsGreatest
  <2>. HIDE DEF Max
  <2>. QED BY <1>1, <1>3, <2>1 DEF NextSeq
<1>. QED BY <1>2, <1>3

LEMMA RangeAppend ==
  ASSUME NEW S, NEW s \in Seq(S), NEW e \in S
  PROVE  Range(Append(s, e)) = Range(s) \union {e}
<1>1. /\ DOMAIN Append(s, e) = 1 .. Len(s) + 1 /\ DOMAIN s = 1 .. Len(s) /\ Len(s) \in Nat
      /\ Append(s, e)[Len(s) + 1] = e /\ \A i \in 1 .. Len(s) : Append(s, e)[i] = s[i]
  OBVIOUS
<1>2. ASSUME NEW x \in Range(Append(s, e)) PROVE x \in Range(s) \union {e}
  <2>1. PICK i \in 1 .. Len(s) + 1 : x = Append(s, e)[i]
    BY <1>1 DEF Range
  <2>2. CASE i = Len(s) + 1
    BY <2>1, <2>2, <1>1
  <2>3. CASE i # Len(s) + 1
    <3>1. i \in 1 .. Len(s)
      BY <2>3, <1>1
    <3>. QED BY <3>1, <2>1, <1>1 DEF Range
  <2>. QED BY <2>2, <2>3
<1>3. ASSUME NEW x \in Range(s) PROVE x \in Range(Append(s, e))
  <2>1. PICK i \in 1 .. Len(s) : x = s[i]
    BY <1>1 DEF Range
  <2>2. i \in 1 .. Len(s) + 1 /\ Append(s, e)[i] = x
    BY <2>1, <1>1
  <2>. QED BY <2>2, <1>1 DEF Range
<1>4. e \in Range(Append(s, e))
  <2>1. Len(s) + 1 \in 1 .. Len(s) + 1
    BY <1>1
  <2>. QED BY <2>1, <1>1 DEF Range
<1>. QED BY <1>2, <1>3, <1>4

\* The first entry of a call that is like another one.
LEMMA FirstAlike ==
  ASSUME NEW w \in Writer, NEW i \in DOMAIN Entries(w)
  PROVE  \E k \in DOMAIN Entries(w) :
           Entries(w)[k] = Entries(w)[i] /\ \A j \in 1 .. k - 1 : Entries(w)[j] # Entries(w)[k]
<1>1. PICK n \in Nat : DOMAIN Entries(w) = 1 .. n
  BY StoreAssumption DEF Entries
<1>. DEFINE S == {j \in 1 .. n : Entries(w)[j] = Entries(w)[i]}
<1>2. S \in SUBSET (1 .. n) /\ i \in S
  BY <1>1
<1>3. PICK k \in S : \A t \in S : k <= t
  <2>. HIDE DEF S
  <2>. QED BY <1>2, LeastNumber
<1>4. \A j \in 1 .. k - 1 : Entries(w)[j] # Entries(w)[k]
  <2>. SUFFICES ASSUME NEW j \in 1 .. k - 1, Entries(w)[j] = Entries(w)[k] PROVE FALSE
    OBVIOUS
  <2>1. j \in S
    BY <1>3
  <2>. QED BY <2>1, <1>3
<1>. QED BY <1>1, <1>3, <1>4

\* What a step of one call that leaves rows and summary alone has to keep.
LEMMA QuietStep ==
  ASSUME StoreInv, NEW w \in Writer, UNCHANGED << rows, summary >>, StoreTypeOK', OneInserting',
         \A v \in Writer : v # w => append'[v] = append[v],
         append'[w].pc = "inserted" => append'[w].fresh = Fresh(w) /\ Taken(w)' = {},
         append[w].pc # "done", append'[w].pc # "done",
         append'[w].pc # "idle",
         append'[w].tries <= Len(summary) - append'[w].before,
         append'[w].pc = "read" => \/ \A n \in DOMAIN rows : n < append'[w].start
                                   \/ append'[w].tries + 1 <= Len(summary) - append'[w].before
  PROVE  StoreInv'
<1>1. RowsDistinct' /\ RowsOfSummary'
  BY DEF StoreInv, RowsDistinct, RowsOfSummary
<1>2. InsertedFresh'
  <2>. SUFFICES ASSUME NEW v \in Writer, append'[v].pc = "inserted"
                PROVE  append'[v].fresh = Fresh(v)' /\ Taken(v)' = {}
    BY DEF InsertedFresh
  <2>1. Fresh(v)' = Fresh(v)
    BY DEF Fresh, Entries
  <2>2. CASE v = w
    BY <2>1, <2>2
  <2>3. CASE v # w
    BY <2>1, <2>3 DEF StoreInv, InsertedFresh, Taken, Number
  <2>. QED BY <2>2, <2>3
<1>3. DoneThere' /\ SummaryIsDone'
  BY DEF StoreInv, DoneThere, SummaryIsDone, Number, Entries
<1>4. ReadAbove'
  BY DEF StoreInv, ReadAbove
<1>. QED BY <1>1, <1>2, <1>3, <1>4 DEF StoreInv

LEMMA StoreStep == StoreInv /\ [StoreNext]_transcript => StoreInv'
<1>. SUFFICES ASSUME StoreInv, [StoreNext]_transcript PROVE StoreInv'
  OBVIOUS
<1>t. StoreTypeOK /\ RowsDistinct /\ OneInserting /\ InsertedFresh /\ DoneThere /\ RowsOfSummary
      /\ SummaryIsDone /\ ReadAbove
  BY DEF StoreInv
<1>c. /\ append \in [Writer -> AppendType] /\ Len(summary) \in Nat
      /\ \A w \in Writer : append[w] \in AppendType
  BY <1>t DEF StoreTypeOK
<1>e. ASSUME NEW a \in AppendType, NEW p, NEW q
      PROVE  /\ [a EXCEPT !.pc = p, !.fresh = q] =
                    [pc |-> p, start |-> a.start, tries |-> a.tries, fresh |-> q, before |-> a.before]
             /\ [a EXCEPT !.tries = q, !.pc = p] =
                    [pc |-> p, start |-> a.start, tries |-> q, fresh |-> a.fresh, before |-> a.before]
  <2>1. a = [pc |-> a.pc, start |-> a.start, tries |-> a.tries, fresh |-> a.fresh, before |-> a.before]
    BY DEF AppendType
  <2>. DEFINE x(c, d, e, f, g) == [pc |-> c, start |-> d, tries |-> e, fresh |-> f, before |-> g]
  <2>2. /\ [a EXCEPT !.pc = p] = x(p, a.start, a.tries, a.fresh, a.before)
        /\ [a EXCEPT !.tries = q] = x(a.pc, a.start, q, a.fresh, a.before)
    BY <2>1
  <2>3. /\ [x(p, a.start, a.tries, a.fresh, a.before) EXCEPT !.fresh = q] = x(p, a.start, a.tries, q, a.before)
        /\ [x(a.pc, a.start, q, a.fresh, a.before) EXCEPT !.pc = p] = x(p, a.start, q, a.fresh, a.before)
    OBVIOUS
  <2>. HIDE DEF x
  <2>6. [[a EXCEPT !.pc = p] EXCEPT !.fresh = q] = x(p, a.start, a.tries, q, a.before)
    BY <2>2, <2>3, Zenon
  <2>7. [[a EXCEPT !.tries = q] EXCEPT !.pc = p] = x(p, a.start, q, a.fresh, a.before)
    BY <2>2, <2>3, Zenon
  <2>8. /\ [a EXCEPT !.pc = p, !.fresh = q] = x(p, a.start, a.tries, q, a.before)
        /\ [a EXCEPT !.tries = q, !.pc = p] = x(p, a.start, q, a.fresh, a.before)
    BY <2>6, <2>7
  <2>. QED BY <2>8 DEF x
<1>1. ASSUME NEW w \in Writer, ReadSeq(w) PROVE StoreInv'
  <2>. DEFINE b == IF append[w].pc = "idle" THEN Len(summary) ELSE append[w].before
              new == [append[w] EXCEPT !.pc = "read", !.start = NextSeq(w), !.before = b]
  <2>1. /\ append[w].pc \in {"idle", "again"} /\ append' = [append EXCEPT ![w] = new]
        /\ UNCHANGED << rows, summary, writing >>
    BY <1>1, <1>c DEF ReadSeq
  <2>2. NextSeq(w) \in Nat /\ \A n \in DOMAIN rows : n < NextSeq(w)
    BY <1>t, NextSeqAbove
  <2>3. b \in Nat
    BY <1>c DEF AppendType
  <2>4. /\ new \in AppendType /\ new.pc = "read" /\ new.start = NextSeq(w) /\ new.before = b
        /\ new.tries = append[w].tries
    <3>1. new = [pc |-> "read", start |-> NextSeq(w), tries |-> append[w].tries,
                 fresh |-> append[w].fresh, before |-> b]
      <4>. HIDE DEF b
      <4>. DEFINE x(p, q, r) == [pc |-> p, start |-> q, tries |-> append[w].tries,
                                fresh |-> append[w].fresh, before |-> r]
      <4>0. append[w] = x(append[w].pc, append[w].start, append[w].before)
        BY <1>c DEF AppendType
      <4>1. [append[w] EXCEPT !.pc = "read"] = x("read", append[w].start, append[w].before)
        BY <4>0
      <4>2. /\ [x("read", append[w].start, append[w].before) EXCEPT !.start = NextSeq(w)]
                 = x("read", NextSeq(w), append[w].before)
            /\ [x("read", NextSeq(w), append[w].before) EXCEPT !.before = b] = x("read", NextSeq(w), b)
        OBVIOUS
      <4>. HIDE DEF x
      <4>3. [[[append[w] EXCEPT !.pc = "read"] EXCEPT !.start = NextSeq(w)] EXCEPT !.before = b] = x("read", NextSeq(w), b)
        BY <4>1, <4>2, Zenon
      <4>4. new = x("read", NextSeq(w), b)
        BY <4>3
      <4>. QED BY <4>4 DEF x
    <3>. HIDE DEF new
    <3>. QED BY <3>1, <2>2, <2>3, <1>c DEF AppendType
  <2>. HIDE DEF new
  <2>5. append'[w] = new /\ (\A v \in Writer : v # w => append'[v] = append[v])
        /\ append' \in [Writer -> AppendType]
    BY <2>1, <2>4, <1>c
  <2>6. StoreTypeOK' /\ OneInserting'
    BY <2>1, <2>4, <2>5, <1>t DEF StoreTypeOK, OneInserting
  <2>7. new.tries <= Len(summary) - new.before
    <3>1. append[w].tries <= Len(summary) - append[w].before
          /\ (append[w].pc = "idle" => append[w].tries = 0)
      BY <1>t DEF ReadAbove
    <3>2. CASE append[w].pc = "idle"
      BY <3>1, <3>2, <2>4, <1>c
    <3>3. CASE append[w].pc # "idle"
      BY <3>1, <3>3, <2>4
    <3>. QED BY <3>2, <3>3
  <2>. QED BY <2>1, <2>2, <2>4, <2>5, <2>6, <2>7, QuietStep
<1>2. ASSUME NEW w \in Writer, InsertEntries(w) PROVE StoreInv'
  <2>. DEFINE new == [append[w] EXCEPT !.pc = "inserted", !.fresh = Fresh(w)]
  <2>1. /\ append[w].pc = "read" /\ writing = NoWriter /\ Taken(w) = {} /\ writing' = w
        /\ append' = [append EXCEPT ![w] = new] /\ UNCHANGED << rows, summary >>
    BY <1>2, <1>c DEF InsertEntries
  <2>2. Fresh(w) \in SUBSET Nat
    BY StoreAssumption DEF Fresh, Entries
  <2>3. /\ new \in AppendType /\ new.pc = "inserted" /\ new.fresh = Fresh(w)
        /\ new.tries = append[w].tries /\ new.before = append[w].before /\ new.start = append[w].start
    <3>1. new = [pc |-> "inserted", start |-> append[w].start, tries |-> append[w].tries,
                 fresh |-> Fresh(w), before |-> append[w].before]
      BY <1>c, <1>e
    <3>. HIDE DEF new
    <3>. QED BY <3>1, <2>2, <1>c DEF AppendType
  <2>. HIDE DEF new
  <2>4. append'[w] = new /\ (\A v \in Writer : v # w => append'[v] = append[v])
        /\ append' \in [Writer -> AppendType]
    BY <2>1, <2>3, <1>c
  <2>5. StoreTypeOK'
    BY <2>1, <2>4, <1>t DEF StoreTypeOK
  <2>6. OneInserting'
    BY <2>1, <2>3, <2>4, <1>t, StoreAssumption DEF OneInserting
  <2>7. Taken(w)' = {}
    <3>1. Fresh(w)' = Fresh(w)
      BY <2>1 DEF Fresh, Entries
    <3>. QED BY <3>1, <2>1, <2>3, <2>4 DEF Taken, Number
  <2>. QED BY <2>1, <2>3, <2>4, <2>5, <2>6, <2>7, <1>t, QuietStep DEF ReadAbove
<1>3. ASSUME NEW w \in Writer, SeqRace(w) PROVE StoreInv'
  <2>. DEFINE p == IF append[w].tries + 1 = MaxTries THEN "gave up" ELSE "again"
              new == [append[w] EXCEPT !.tries = append[w].tries + 1, !.pc = p]
  <2>1. /\ append[w].pc = "read" /\ writing = NoWriter
        /\ append' = [append EXCEPT ![w] = new] /\ UNCHANGED << rows, summary, writing >>
    BY <1>3, <1>c DEF SeqRace
  <2>tried. append[w].tries + 1 <= Len(summary) - append[w].before
    <3>1. PICK i \in DOMAIN Entries(w) : Number(w, i) \in DOMAIN rows
      BY <1>3 DEF SeqRace
    <3>0. PICK n \in Nat : DOMAIN Entries(w) = 1 .. n
      BY StoreAssumption DEF Entries
    <3>2. i \in Nat /\ i >= 1 /\ append[w].start \in Nat
      <4>1. append[w] \in AppendType
        BY <1>c
      <4>2. append[w].start \in Nat
        BY <4>1 DEF AppendType
      <4>. QED BY <3>0, <4>2
    <3>3. ~ (Number(w, i) < append[w].start)
      BY <3>2 DEF Number
    <3>. QED BY <2>1, <3>1, <3>3, <1>t DEF ReadAbove
  <2>new. /\ new \in AppendType /\ new.pc \in {"gave up", "again"} /\ new.tries = append[w].tries + 1
          /\ new.before = append[w].before
    <3>1. new = [pc |-> p, start |-> append[w].start, tries |-> append[w].tries + 1,
                 fresh |-> append[w].fresh, before |-> append[w].before]
      <4>. HIDE DEF p
      <4>. QED BY <1>c, <1>e
    <3>2. p \in {"gave up", "again"} /\ append[w].tries + 1 \in Nat
      <4>1. append[w] \in AppendType
        BY <1>c
      <4>2. append[w].tries \in Nat
        BY <4>1 DEF AppendType
      <4>. QED BY <4>2
    <3>. HIDE DEF new, p
    <3>. QED BY <3>1, <3>2, <1>c DEF AppendType
  <2>. HIDE DEF new
  <2>one. append'[w] = new /\ (\A v \in Writer : v # w => append'[v] = append[v])
          /\ append' \in [Writer -> AppendType]
    BY <2>1, <2>new, <1>c
  <2>types. StoreTypeOK' /\ OneInserting'
    BY <2>1, <2>new, <2>one, <1>t DEF StoreTypeOK, OneInserting
  <2>. QED BY <2>1, <2>tried, <2>new, <2>one, <2>types, <1>t, QuietStep
<1>4. ASSUME NEW w \in Writer, Rollback(w) PROVE StoreInv'
  <2>. DEFINE new == [append[w] EXCEPT !.pc = "failed"]
  <2>1. /\ append[w].pc \in {"read", "inserted"} /\ writing' = IF writing = w THEN NoWriter ELSE writing
        /\ append' = [append EXCEPT ![w] = new] /\ UNCHANGED << rows, summary >>
    BY <1>4, <1>c DEF Rollback
  <2>new. /\ new \in AppendType /\ new.pc = "failed"
          /\ new.tries = append[w].tries /\ new.before = append[w].before
    BY <1>c DEF AppendType
  <2>. HIDE DEF new
  <2>one. append'[w] = new /\ (\A v \in Writer : v # w => append'[v] = append[v])
          /\ append' \in [Writer -> AppendType]
    BY <2>1, <2>new, <1>c
  <2>types. StoreTypeOK'
    BY <2>1, <2>one, <1>t DEF StoreTypeOK
  <2>alone. OneInserting'
    BY <2>1, <2>new, <2>one, <1>t, StoreAssumption DEF OneInserting
  <2>. QED BY <2>1, <2>new, <2>one, <2>types, <2>alone, <1>t, QuietStep DEF ReadAbove
<1>5. ASSUME NEW w \in Writer, Commit(w) PROVE StoreInv'
  <2>. DEFINE f == append[w].fresh
              st == append[w].start
              added == {Number(w, i) : i \in f}
              new == [append[w] EXCEPT !.pc = "done"]
  <2>1. /\ append[w].pc = "inserted"
        /\ rows' = [n \in DOMAIN rows \union added |->
                      IF n \in added THEN Entries(w)[n - st + 1] ELSE rows[n]]
        /\ summary' = Append(summary, w) /\ writing' = NoWriter
        /\ append' = [append EXCEPT ![w] = new]
    BY <1>5, <1>c DEF Commit
  <2>2. /\ new \in AppendType /\ new.pc = "done" /\ new.fresh = f /\ new.start = st
        /\ new.tries = append[w].tries /\ new.before = append[w].before
    BY <1>c DEF AppendType
  <2>3. f = Fresh(w) /\ Taken(w) = {} /\ writing = w
    BY <2>1, <1>t DEF InsertedFresh, OneInserting
  <2>4. PICK n \in Nat : DOMAIN Entries(w) = 1 .. n
    BY StoreAssumption DEF Entries
  <2>5. st \in Nat /\ \A i \in f : i \in 1 .. n /\ i \in Nat /\ i >= 1
                        /\ Number(w, i) = st + i - 1 /\ Number(w, i) - st + 1 = i /\ Number(w, i) \in Nat
                        /\ Number(w, i) <= st + n
    <3>1. st \in Nat
      BY <1>c DEF AppendType
    <3>2. ASSUME NEW i \in f PROVE i \in 1 .. n /\ i \in Nat /\ i >= 1
      BY <2>3, <2>4 DEF Fresh
    <3>. QED BY <3>1, <3>2 DEF Number
  <2>. HIDE DEF new
  <2>6. append'[w] = new /\ (\A v \in Writer : v # w => append'[v] = append[v])
        /\ append' \in [Writer -> AppendType]
    BY <2>1, <2>2, <1>c
  <2>7. \A i \in f : Number(w, i) \notin DOMAIN rows
    BY <2>3 DEF Taken
  \* The rows there were stay, and the new ones are the new entries at their numbers.
  <2>8. /\ DOMAIN rows' = DOMAIN rows \union added
        /\ \A m \in DOMAIN rows : m \in DOMAIN rows' /\ rows'[m] = rows[m]
        /\ \A i \in f : Number(w, i) \in DOMAIN rows' /\ rows'[Number(w, i)] = Entries(w)[i]
        /\ \A m \in DOMAIN rows' : m \in DOMAIN rows \/ \E i \in f : m = Number(w, i)
    <3>1. DOMAIN rows' = DOMAIN rows \union added
      BY <2>1
    <3>2. ASSUME NEW m \in DOMAIN rows PROVE m \in DOMAIN rows' /\ rows'[m] = rows[m]
      BY <3>1, <2>1, <2>7
    <3>3. ASSUME NEW i \in f
          PROVE  Number(w, i) \in DOMAIN rows' /\ rows'[Number(w, i)] = Entries(w)[i]
      <4>1. Number(w, i) \in added
        OBVIOUS
      <4>. HIDE DEF added
      <4>2. rows'[Number(w, i)] = Entries(w)[Number(w, i) - st + 1]
        BY <4>1, <2>1
      <4>. QED BY <4>1, <4>2, <3>1, <2>5
    <3>. QED BY <3>1, <3>2, <3>3
  <2>. HIDE DEF added
  <2>9. Len(summary') = Len(summary) + 1 /\ summary' \in Seq(Writer) /\ Range(summary') = Range(summary) \union {w}
    BY <2>1, <1>t, RangeAppend DEF StoreTypeOK
  <2>10. StoreTypeOK'
    <3>1. PICK M \in Nat : DOMAIN rows \subseteq 0 .. M
      BY <1>t DEF StoreTypeOK
    <3>2. DOMAIN rows' \subseteq 0 .. (M + st + n)
      <4>. SUFFICES ASSUME NEW m \in DOMAIN rows' PROVE m \in 0 .. (M + st + n)
        OBVIOUS
      <4>1. CASE m \in DOMAIN rows
        BY <4>1, <3>1, <2>4, <2>5
      <4>2. ASSUME NEW i \in f, m = Number(w, i) PROVE m \in 0 .. (M + st + n)
        <5>1. m \in Nat /\ m <= st + n
          BY <4>2, <2>5
        <5>. QED BY <5>1, <3>1, <2>4, <2>5
      <4>. QED BY <4>1, <4>2, <2>8
    <3>3. M + st + n \in Nat
      BY <3>1, <2>4, <2>5
    <3>4. rows' = [m \in DOMAIN rows' |-> rows'[m]]
      BY <2>1
    <3>. QED BY <3>2, <3>3, <3>4, <2>6, <2>9 DEF StoreTypeOK
  <2>11. RowsDistinct'
    <3>. SUFFICES ASSUME NEW a \in DOMAIN rows', NEW b \in DOMAIN rows', rows'[a] = rows'[b]
                  PROVE  a = b
      BY DEF RowsDistinct
    <3>1. CASE a \in DOMAIN rows /\ b \in DOMAIN rows
      BY <3>1, <2>8, <1>t DEF RowsDistinct
    <3>2. ASSUME NEW i \in f, NEW m \in DOMAIN rows, rows'[Number(w, i)] = rows'[m] PROVE FALSE
      <4>1. Entries(w)[i] = rows[m]
        BY <3>2, <2>8
      <4>2. Entries(w)[i] \notin Range(rows)
        BY <2>3 DEF Fresh
      <4>. QED BY <4>1, <4>2 DEF Range
    <3>3. ASSUME NEW i \in f, NEW j \in f, rows'[Number(w, i)] = rows'[Number(w, j)] PROVE i = j
      <4>1. Entries(w)[i] = Entries(w)[j]
        BY <3>3, <2>8
      <4>2. ASSUME NEW k \in f, NEW l \in f, k < l PROVE Entries(w)[k] # Entries(w)[l]
        <5>1. k \in 1 .. l - 1
          BY <4>2, <2>5
        <5>. QED BY <5>1, <2>3 DEF Fresh
      <4>3. i \in Nat /\ j \in Nat
        BY <2>5
      <4>. QED BY <4>1, <4>2, <4>3
    <3>. QED BY <3>1, <3>2, <3>3, <2>8
  <2>12. OneInserting'
    BY <2>1, <2>2, <2>3, <2>6, <1>t, StoreAssumption DEF OneInserting
  <2>13. InsertedFresh'
    <3>1. \A v \in Writer : append'[v].pc # "inserted"
      BY <2>1, <2>12, StoreAssumption DEF OneInserting
    <3>. QED BY <3>1 DEF InsertedFresh
  <2>14. DoneThere'
    <3>1. ASSUME NEW i \in DOMAIN Entries(w) PROVE \E m \in DOMAIN rows' : rows'[m] = Entries(w)[i]
      <4>1. PICK k \in DOMAIN Entries(w) :
              Entries(w)[k] = Entries(w)[i] /\ \A j \in 1 .. k - 1 : Entries(w)[j] # Entries(w)[k]
        BY FirstAlike
      <4>2. CASE Entries(w)[k] \in Range(rows)
        <5>1. PICK m \in DOMAIN rows : Entries(w)[k] = rows[m]
          BY <4>2 DEF Range
        <5>. QED BY <5>1, <4>1, <2>8
      <4>3. CASE Entries(w)[k] \notin Range(rows)
        <5>1. k \in f
          BY <4>1, <4>3, <2>3 DEF Fresh
        <5>. QED BY <5>1, <4>1, <2>8
      <4>. QED BY <4>2, <4>3
    <3>2. ASSUME NEW v \in Writer, append'[v].pc = "done"
          PROVE  /\ \A i \in DOMAIN Entries(v) : \E m \in DOMAIN rows' : rows'[m] = Entries(v)[i]
                 /\ \A i \in append'[v].fresh :
                      /\ i \in DOMAIN Entries(v)
                      /\ append'[v].start + i - 1 \in DOMAIN rows'
                      /\ rows'[append'[v].start + i - 1] = Entries(v)[i]
      <4>1. CASE v = w
        <5>1. \A i \in f : i \in DOMAIN Entries(w) /\ st + i - 1 \in DOMAIN rows'
                           /\ rows'[st + i - 1] = Entries(w)[i]
          BY <2>4, <2>5, <2>8
        <5>. QED BY <4>1, <5>1, <3>1, <2>2, <2>6
      <4>2. CASE v # w
        <5>1. append'[v] = append[v] /\ append[v].pc = "done"
          BY <4>2, <2>6, <3>2
        <5>. QED BY <5>1, <2>8, <1>t DEF DoneThere, Number
      <4>. QED BY <4>1, <4>2
    <3>. QED BY <3>2 DEF DoneThere, Number, Entries
  <2>15. RowsOfSummary'
    <3>. SUFFICES ASSUME NEW m \in DOMAIN rows'
                  PROVE  \E v \in Range(summary') : rows'[m] \in Range(Entries(v))
      BY DEF RowsOfSummary, Entries
    <3>1. CASE m \in DOMAIN rows
      BY <3>1, <2>8, <2>9, <1>t DEF RowsOfSummary
    <3>2. ASSUME NEW i \in f, m = Number(w, i)
          PROVE  \E v \in Range(summary') : rows'[m] \in Range(Entries(v))
      <4>1. rows'[m] \in Range(Entries(w))
        BY <3>2, <2>4, <2>5, <2>8 DEF Range
      <4>. QED BY <4>1, <2>9
    <3>. QED BY <3>1, <3>2, <2>8
  <2>16. SummaryIsDone'
    BY <2>2, <2>6, <2>9, <1>t DEF SummaryIsDone
  <2>17. ReadAbove'
    <3>. SUFFICES ASSUME NEW v \in Writer
                  PROVE  /\ append'[v].pc = "idle" => append'[v].tries = 0 /\ append'[v].before = 0
                         /\ append'[v].tries <= Len(summary') - append'[v].before
                         /\ append'[v].pc = "read" =>
                              \/ \A m \in DOMAIN rows' : m < append'[v].start
                              \/ append'[v].tries + 1 <= Len(summary') - append'[v].before
      BY DEF ReadAbove
    <3>1. /\ append'[v].tries = append[v].tries /\ append'[v].before = append[v].before
          /\ append'[v].pc = append[v].pc \/ append'[v].pc = "done"
      BY <2>2, <2>6
    <3>2. append[v].tries \in Nat /\ append[v].before \in Nat
      BY <1>c DEF AppendType
    <3>. QED BY <3>1, <3>2, <2>9, <1>c, <1>t DEF ReadAbove
  <2>. QED BY <2>10, <2>11, <2>12, <2>13, <2>14, <2>15, <2>16, <2>17 DEF StoreInv
<1>6. CASE UNCHANGED transcript
  <2>1. UNCHANGED << rows, summary, writing, append >>
    BY <1>6 DEF transcript
  <2>2. \A w \in Writer : Fresh(w)' = Fresh(w) /\ Taken(w)' = Taken(w)
    BY <2>1 DEF Fresh, Taken, Entries, Number
  <2>. QED BY <2>1, <2>2, <1>t DEF StoreInv, StoreTypeOK, RowsDistinct, OneInserting, InsertedFresh,
         DoneThere, RowsOfSummary, SummaryIsDone, ReadAbove, Number, Entries
<1>. QED BY <1>1, <1>2, <1>3, <1>4, <1>5, <1>6 DEF StoreNext

\* However many calls append, of whatever entries and however often they lose
\* the race: each that returned has every entry in the transcript once and in
\* order, nothing else is there, and none gives up but for others' commits.
THEOREM TranscriptIsKept == StoreSpec => []TranscriptKept
<1>1. StoreInv => TranscriptKept
  <2>. SUFFICES ASSUME StoreInv PROVE TranscriptKept
    OBVIOUS
  <2>t. StoreTypeOK /\ RowsDistinct /\ DoneThere /\ RowsOfSummary /\ SummaryIsDone /\ ReadAbove
    BY DEF StoreInv
  <2>1. ASSUME NEW m \in DOMAIN rows PROVE Where(rows[m]) = {m}
    BY <2>t DEF Where, RowsDistinct
  <2>2. ASSUME NEW w \in Writer, append[w].pc = "done", NEW i \in DOMAIN Entries(w)
        PROVE  Cardinality(Where(Entries(w)[i])) = 1
    <3>1. PICK m \in DOMAIN rows : rows[m] = Entries(w)[i]
      BY <2>2, <2>t DEF DoneThere
    <3>2. Where(Entries(w)[i]) = {m}
      BY <3>1, <2>1
    <3>. QED BY <3>2, FS_Singleton
  <2>3. ASSUME NEW w \in Writer, append[w].pc = "done", NEW i \in append[w].fresh, NEW j \in append[w].fresh,
               i < j, NEW m \in Where(Entries(w)[i]), NEW n \in Where(Entries(w)[j])
        PROVE  m < n
    <3>1. \A k \in append[w].fresh : Where(Entries(w)[k]) = {Number(w, k)}
      BY <2>1, <2>3, <2>t DEF DoneThere
    <3>2. m = Number(w, i) /\ n = Number(w, j)
      BY <3>1
    <3>3. append[w] \in AppendType
      BY <2>t DEF StoreTypeOK
    <3>4. append[w].start \in Nat /\ i \in Nat /\ j \in Nat
      BY <3>3 DEF AppendType
    <3>. QED BY <3>2, <3>4, <2>3 DEF Number
  <2>4. AppendsKept
    BY <2>2, <2>3, <2>t DEF AppendsKept, RowsOfSummary, SummaryIsDone
  <2>5. RaceLostToOthers
    BY <2>t DEF ReadAbove, RaceLostToOthers
  <2>. QED BY <2>4, <2>5 DEF TranscriptKept
<1>. QED BY <1>1, InitStore, StoreStep, PTL DEF StoreSpec

-------------------------------------------------------------------------------
(* The migration.                                                            *)

Here == {NoFiles, "clues", "scenes", "props"}

MigrationTypeOK ==
  /\ schema \in {0, 1} /\ cluesDir \in BOOLEAN /\ unbacked \in BOOLEAN /\ cutShort \in BOOLEAN
  /\ picture \in [Clue -> Here] /\ history \in [Clue -> Here]
  /\ script \in [Script -> {"clues", "split", "unreadable"}]

\* Nobody's picture is moved to the folder of the other type, and none before there is a backup.
PicturesOwn ==
  \A c \in Clue :
    /\ picture[c] \in {NoFiles, "clues", Folder(c)}
    /\ picture[c] = Folder(c) => c \in copied \/ unbacked

\* How far a start has come, and what an earlier one must have done before the folder went.
PicturesProgress ==
  \A c \in Clue :
    /\ phase = "backup" /\ picture[c] = "clues" => c \in left \/ c \in copied \/ unbacked
    /\ phase \in {"pictures", "histories", "scripts"} /\ picture[c] = "clues" => c \in copied \/ unbacked
    /\ phase = "pictures" /\ c \notin left => picture[c] # "clues"
    /\ phase \in {"histories", "scripts"} \/ ~cluesDir \/ schema = 1 => picture[c] # "clues"

HistoriesProgress ==
  \A c \in Clue :
    /\ phase = "histories" /\ c \notin left => history[c] # "clues"
    /\ phase = "scripts" \/ schema = 1 \/ (~cluesDir /\ phase # "histories") =>
         cutShort \/ history[c] # "clues"
    /\ Unaffected(c) => history[c] \in {NoFiles, "clues", Folder(c)}

ScriptsProgress ==
  \A s \in Script :
    (phase = "scripts" /\ s \notin left) \/ schema = 1 => script[s] # "clues"

MigrationInv ==
  /\ MigrationTypeOK
  /\ phase \in {"down", "backup", "pictures", "histories", "scripts", "up"}
  /\ schema = 1 => phase = "up"
  /\ phase = "pictures" => cluesDir
  /\ PicturesOwn /\ PicturesProgress /\ HistoriesProgress /\ ScriptsProgress

LEMMA FolderIs == \A c : Folder(c) \in {"scenes", "props"}
BY DEF Folder

LEMMA InitMigration == MigrationInit => MigrationInv
<1>. SUFFICES ASSUME MigrationInit PROVE MigrationInv
  OBVIOUS
<1>1. MigrationTypeOK
  <2>1. picture \in [Clue -> Here] /\ history \in [Clue -> Here]
    BY DEF MigrationInit, Here, NoFiles
  <2>. QED BY <2>1 DEF MigrationInit, MigrationTypeOK
<1>2. /\ phase = "down" /\ schema = 0 /\ cluesDir
      /\ \A c \in Clue : picture[c] \in {NoFiles, "clues"} /\ history[c] \in {NoFiles, "clues"}
  BY DEF MigrationInit
<1>3. PicturesOwn
  BY <1>2, FolderIs DEF PicturesOwn, NoFiles
<1>4. PicturesProgress /\ HistoriesProgress /\ ScriptsProgress
  BY <1>2 DEF PicturesProgress, HistoriesProgress, ScriptsProgress
<1>. QED BY <1>1, <1>2, <1>3, <1>4 DEF MigrationInv

LEMMA MigrationStep == MigrationInv /\ [MigrationNext]_migration => MigrationInv'
<1>. SUFFICES ASSUME MigrationInv, [MigrationNext]_migration PROVE MigrationInv'
  OBVIOUS
<1>. USE FolderIs DEF NoFiles
<1>1. CASE StartUp
  BY <1>1 DEF StartUp, Goto, MigrationInv, MigrationTypeOK, PicturesOwn, PicturesProgress,
     HistoriesProgress, ScriptsProgress
<1>2. ASSUME NEW c \in Clue, LinkBackup(c) PROVE MigrationInv'
  BY <1>2 DEF LinkBackup, MigrationInv, MigrationTypeOK, PicturesOwn, PicturesProgress,
     HistoriesProgress, ScriptsProgress
<1>3. CASE BackupFails
  BY <1>3 DEF BackupFails, MigrationInv, MigrationTypeOK, PicturesOwn, PicturesProgress,
     HistoriesProgress, ScriptsProgress
<1>4. CASE EnterRelocation
  BY <1>4 DEF EnterRelocation, Goto, MigrationInv, MigrationTypeOK, PicturesOwn, PicturesProgress,
     HistoriesProgress, ScriptsProgress
<1>5. ASSUME NEW c \in Clue, MovePicture(c) PROVE MigrationInv'
  <2>1. /\ phase = "pictures" /\ left' = left \ {c}
        /\ picture' = [picture EXCEPT ![c] = IF picture[c] = "clues" THEN Folder(c) ELSE picture[c]]
        /\ UNCHANGED << phase, schema, history, cluesDir, script, copied, unbacked, cuts, cutShort >>
    BY <1>5 DEF MovePicture
  <2>2. picture \in [Clue -> Here]
    BY DEF MigrationInv, MigrationTypeOK
  <2>3. /\ picture' \in [Clue -> Here]
        /\ picture'[c] = IF picture[c] = "clues" THEN Folder(c) ELSE picture[c]
        /\ \A d \in Clue : d # c => picture'[d] = picture[d]
    BY <2>1, <2>2 DEF Here
  <2>4. MigrationTypeOK' /\ PicturesOwn'
    BY <2>1, <2>3 DEF MigrationInv, MigrationTypeOK, PicturesOwn, PicturesProgress
  <2>5. PicturesProgress'
    BY <2>1, <2>3 DEF MigrationInv, PicturesOwn, PicturesProgress
  <2>6. HistoriesProgress' /\ ScriptsProgress'
    BY <2>1 DEF MigrationInv, HistoriesProgress, ScriptsProgress
  <2>. QED BY <2>1, <2>4, <2>5, <2>6 DEF MigrationInv
<1>6. CASE RemoveCluesDir
  BY <1>6 DEF RemoveCluesDir, Goto, MigrationInv, MigrationTypeOK, PicturesOwn, PicturesProgress,
     HistoriesProgress, ScriptsProgress
<1>7. ASSUME NEW c \in Clue, MoveHistory(c) PROVE MigrationInv'
  <2>1. /\ phase = "histories" /\ left' = left \ {c}
        /\ history' = [d \in Clue |-> IF d \in Globbed[c] /\ history[d] = "clues" THEN Folder(c)
                                      ELSE history[d]]
        /\ UNCHANGED << phase, schema, picture, cluesDir, script, copied, unbacked, cuts, cutShort >>
    BY <1>7 DEF MoveHistory
  <2>2. ASSUME NEW d \in Clue
        PROVE  history'[d] = IF d \in Globbed[c] /\ history[d] = "clues" THEN Folder(c) ELSE history[d]
    BY <2>1
  <2>3. history' \in [Clue -> Here]
    BY <2>1 DEF MigrationInv, MigrationTypeOK, Here
  <2>4. HistoriesProgress'
    <3>. SUFFICES ASSUME NEW d \in Clue
                  PROVE  /\ d \notin left' => history'[d] # "clues"
                         /\ Unaffected(d) => history'[d] \in {NoFiles, "clues", Folder(d)}
      BY <2>1 DEF MigrationInv, HistoriesProgress, Unaffected
    <3>1. d \notin left' => history'[d] # "clues"
      BY <2>1, <2>2, NamesBegin DEF MigrationInv, HistoriesProgress
    <3>2. Unaffected(d) /\ d \in Globbed[c] => c = d
      BY DEF Unaffected
    <3>3. Unaffected(d) => history[d] \in {NoFiles, "clues", Folder(d)}
      BY DEF MigrationInv, HistoriesProgress
    <3>4. Unaffected(d) => history'[d] \in {NoFiles, "clues", Folder(d)}
      BY <2>2, <3>2, <3>3
    <3>. QED BY <3>1, <3>4
  <2>5. PicturesOwn' /\ PicturesProgress' /\ ScriptsProgress'
    BY <2>1 DEF MigrationInv, PicturesOwn, PicturesProgress, ScriptsProgress
  <2>. QED BY <2>1, <2>3, <2>4, <2>5 DEF MigrationInv, MigrationTypeOK
<1>8. CASE EnterScripts
  BY <1>8 DEF EnterScripts, Goto, MigrationInv, MigrationTypeOK, PicturesOwn, PicturesProgress,
     HistoriesProgress, ScriptsProgress
<1>9. ASSUME NEW s \in Script, MigrateScript(s) PROVE MigrationInv'
  <2>1. /\ phase = "scripts" /\ left' = left \ {s}
        /\ script' = [script EXCEPT ![s] = IF script[s] = "clues" THEN "split" ELSE script[s]]
        /\ UNCHANGED << phase, schema, picture, history, cluesDir, copied, unbacked, cuts, cutShort >>
    BY <1>9 DEF MigrateScript
  <2>2. MigrationTypeOK' /\ ScriptsProgress'
    BY <2>1 DEF MigrationInv, MigrationTypeOK, ScriptsProgress
  <2>3. PicturesOwn' /\ PicturesProgress' /\ HistoriesProgress'
    BY <2>1 DEF MigrationInv, PicturesOwn, PicturesProgress, HistoriesProgress
  <2>. QED BY <2>1, <2>2, <2>3 DEF MigrationInv
<1>10. CASE CommitSchema
  BY <1>10 DEF CommitSchema, MayCommit, Goto, MigrationInv, MigrationTypeOK, PicturesOwn, PicturesProgress,
     HistoriesProgress, ScriptsProgress
<1>11. CASE CutOff
  BY <1>11 DEF CutOff, MigrationInv, MigrationTypeOK, PicturesOwn, PicturesProgress,
     HistoriesProgress, ScriptsProgress
<1>12. CASE Reboot
  BY <1>12 DEF Reboot, Goto, MigrationInv, MigrationTypeOK, PicturesOwn, PicturesProgress,
     HistoriesProgress, ScriptsProgress
<1>13. CASE UNCHANGED migration
  BY <1>13 DEF migration, MigrationInv, MigrationTypeOK, PicturesOwn, PicturesProgress,
     HistoriesProgress, ScriptsProgress
<1>. QED BY <1>1, <1>2, <1>3, <1>4, <1>5, <1>6, <1>7, <1>8, <1>9, <1>10, <1>11, <1>12, <1>13 DEF MigrationNext

\* For any clues, names and scripts, and however often the migration is cut off:
\* a project that reaches schema 1 is migrated as a whole, but for the
\* histories that the two exceptions name.
THEOREM MigrationIsWhole == MigrationSpec => []MigrationWhole
<1>1. MigrationInv => MigrationWhole
  BY FolderIs DEF MigrationInv, MigrationWhole, PicturesOwn, PicturesProgress, HistoriesProgress,
     ScriptsProgress, NoFiles
<1>. QED BY <1>1, InitMigration, MigrationStep, PTL DEF MigrationSpec

-------------------------------------------------------------------------------
(* Imports of a project.                                                     *)

Owner == Importer \union {"old", "stray", "nobody"}
Directory == [of : Owner, whole : BOOLEAN, within : SUBSET Importer]
ImportPc == {"idle", "resolved", "aside", "moving", "clearing", "restoring", "installed", "loading", "out", "done"}

InstallTypeOK ==
  /\ place \in Directory /\ hidden \in [Importer -> Directory]
  /\ import \in [Importer -> [pc : ImportPc, got : Owner]]
  /\ spoilt \in BOOLEAN

Begun(i) == import[i].pc \in {"installed", "loading", "out", "done"}

\* What is whole of an import's is there because it moved it in.
WholeIsBegun ==
  /\ place.whole /\ place.of \in Importer => Begun(place.of)
  /\ \A j \in Importer : hidden[j].whole /\ hidden[j].of \in Importer => Begun(hidden[j].of)

\* An import has renamed nothing before it comes to that.
HiddenLater == \A i \in Importer : import[i].pc \in {"idle", "resolved", "aside"} => hidden[i] = Nothing

\* While an import is about to remove what it has renamed, there is a project elsewhere.
WholeElsewhere ==
  (\E i \in Importer : import[i].pc = "installed") /\ ~spoilt =>
     Whole(place) \/ \E k \in Importer : import[k].pc # "installed" /\ Whole(hidden[k])

InstallInv == InstallTypeOK /\ WholeIsBegun /\ HiddenLater /\ WholeElsewhere

LEMMA DirectoryFacts ==
  /\ Nothing \in Directory /\ ~Nothing.whole /\ ~Whole(Nothing)
  /\ \A i \in Importer \union {Old} : Installed(i) \in Directory /\ Whole(Installed(i)) /\ Installed(i).of = i
  /\ \A i \in Importer : [Installed(i) EXCEPT !.whole = FALSE] \in Directory
                         /\ ~[Installed(i) EXCEPT !.whole = FALSE].whole
  /\ \A d \in Directory : /\ [d EXCEPT !.whole = FALSE] \in Directory
                          /\ ~[d EXCEPT !.whole = FALSE].whole
  /\ [Nothing EXCEPT !.of = Stray] \in Directory /\ ~[Nothing EXCEPT !.of = Stray].whole
<1>1. Nothing \in Directory /\ ~Nothing.whole /\ ~Whole(Nothing)
  BY DEF Nothing, Directory, Owner, Whole
<1>2. ASSUME NEW i \in Importer \union {Old}
      PROVE  Installed(i) \in Directory /\ Whole(Installed(i)) /\ Installed(i).of = i
  BY DEF Installed, Directory, Owner, Whole, Old
<1>3. ASSUME NEW d \in Directory
      PROVE  [d EXCEPT !.whole = FALSE] \in Directory /\ ~[d EXCEPT !.whole = FALSE].whole
  BY DEF Directory
<1>4. [Nothing EXCEPT !.of = Stray] \in Directory /\ ~[Nothing EXCEPT !.of = Stray].whole
  BY DEF Nothing, Directory, Owner, Stray
<1>. QED BY <1>1, <1>2, <1>3, <1>4

LEMMA InitInstall == InstallInit => InstallInv
<1>. SUFFICES ASSUME InstallInit PROVE InstallInv
  OBVIOUS
<1>1. InstallTypeOK
  <2>1. place \in Directory
    BY DirectoryFacts DEF InstallInit
  <2>2. hidden \in [Importer -> Directory]
    BY DirectoryFacts DEF InstallInit
  <2>. QED BY <2>1, <2>2 DEF InstallInit, InstallTypeOK, ImportPc, Owner
<1>2. WholeIsBegun
  <2>1. place.of \notin Importer
    BY PolicyAssumption DEF InstallInit, Nothing, Installed, Old
  <2>2. \A j \in Importer : hidden[j] = Nothing
    BY DEF InstallInit
  <2>. QED BY <2>1, <2>2, DirectoryFacts DEF WholeIsBegun
<1>3. HiddenLater /\ WholeElsewhere
  BY DEF InstallInit, HiddenLater, WholeElsewhere
<1>. QED BY <1>1, <1>2, <1>3 DEF InstallInv

\* What moving an import on does.
LEMMA ToEffect ==
  ASSUME InstallTypeOK, NEW i \in Importer, NEW p \in ImportPc, To(i, p)
  PROVE  /\ import' \in [Importer -> [pc : ImportPc, got : Owner]] /\ import'[i].pc = p
         /\ \A j \in Importer : j # i => import'[j] = import[j]
BY DEF InstallTypeOK, To

\* A step that leaves the hidden directories alone, forgets no import that has begun, and
\* puts a complete project in the place only for one that has.
LEMMA HiddenLeft ==
  ASSUME InstallInv, hidden' = hidden, place' \in Directory, spoilt' \in BOOLEAN,
         import' \in [Importer -> [pc : ImportPc, got : Owner]],
         \A j \in Importer : import'[j].pc \in {"idle", "resolved", "aside"}
                               => import[j].pc \in {"idle", "resolved", "aside"},
         \A j \in Importer : Begun(j) => Begun(j)',
         place'.whole /\ place'.of \in Importer =>
           Begun(place.of)' \/ (place.whole /\ place.of = place'.of)
  PROVE  InstallTypeOK' /\ WholeIsBegun' /\ HiddenLater'
<1>t. InstallTypeOK /\ WholeIsBegun /\ HiddenLater
  BY DEF InstallInv
<1>1. InstallTypeOK'
  BY <1>t DEF InstallTypeOK
<1>2. place'.whole /\ place'.of \in Importer => Begun(place.of)'
  BY <1>t DEF WholeIsBegun
<1>3. \A j \in Importer : hidden'[j].whole /\ hidden'[j].of \in Importer => Begun(hidden[j].of)'
  BY <1>t DEF WholeIsBegun
<1>4. HiddenLater'
  BY <1>t DEF HiddenLater
<1>. QED BY <1>1, <1>2, <1>3, <1>4 DEF WholeIsBegun

\* The step keeps the invariant, and a whole project is not lost.
LEMMA InstallStep ==
  ASSUME InstallInv, InstallNext
  PROVE  /\ InstallInv'
         /\ (\E d \in {place} \union Range(hidden) : Whole(d)) /\ ~spoilt'
              => (\E d \in {place'} \union Range(hidden') : Whole(d))
<1>. DEFINE Kept1 == (Whole(place) \/ \E j \in Importer : Whole(hidden[j])) /\ ~spoilt'
                       => (Whole(place') \/ \E j \in Importer : Whole(hidden'[j]))
<1>t. /\ InstallTypeOK /\ WholeIsBegun /\ HiddenLater /\ WholeElsewhere
      /\ place \in Directory /\ hidden \in [Importer -> Directory]
      /\ import \in [Importer -> [pc : ImportPc, got : Owner]]
  BY DEF InstallInv, InstallTypeOK
<1>p. {"idle", "resolved", "aside", "moving", "clearing", "restoring", "installed", "loading", "out", "done"} = ImportPc
  BY DEF ImportPc
<1>k. ASSUME InstallInv', Kept1
      PROVE  /\ InstallInv'
             /\ (\E d \in {place} \union Range(hidden) : Whole(d)) /\ ~spoilt'
                  => (\E d \in {place'} \union Range(hidden') : Whole(d))
  <2>1. DOMAIN hidden = Importer /\ DOMAIN hidden' = Importer
    BY <1>t, <1>k DEF InstallInv, InstallTypeOK
  <2>. QED BY <1>k, <2>1 DEF Range
<1>w. \A d \in Directory : Whole(d) => d.whole
  BY DEF Whole
<1>1. ASSUME NEW i \in Importer, Resolve(i) \/ Look(i) PROVE InstallInv' /\ Kept1
  <2>1. PICK p \in {"resolved", "out", "aside", "moving"} : To(i, p)
    BY <1>1 DEF Resolve, Look
  <2>2. import[i].pc \in {"idle", "resolved"} /\ UNCHANGED << place, hidden, spoilt >>
    BY <1>1 DEF Resolve, Look, Now
  <2>3. /\ import' \in [Importer -> [pc : ImportPc, got : Owner]] /\ import'[i].pc = p
        /\ \A j \in Importer : j # i => import'[j] = import[j]
    BY <2>1, <1>p, <1>t, ToEffect
  <2>. QED BY <2>2, <2>3, <1>t DEF InstallInv, InstallTypeOK, WholeIsBegun, Begun, HiddenLater, WholeElsewhere, Whole
<1>2. ASSUME NEW i \in Importer, SetAside(i) PROVE InstallInv' /\ Kept1
  <2>1. /\ import[i].pc = "aside" /\ place' = Nothing /\ UNCHANGED spoilt /\ To(i, "moving")
        /\ hidden' = [hidden EXCEPT ![i] = place]
    BY <1>2 DEF SetAside, Now
  <2>2. /\ import' \in [Importer -> [pc : ImportPc, got : Owner]] /\ import'[i].pc = "moving"
        /\ \A j \in Importer : j # i => import'[j] = import[j]
    BY <2>1, <1>p, <1>t, ToEffect
  <2>3. /\ hidden' \in [Importer -> Directory] /\ hidden'[i] = place
        /\ \A j \in Importer : j # i => hidden'[j] = hidden[j]
    BY <2>1, <1>t
  <2>4. hidden[i] = Nothing
    BY <2>1, <1>t DEF HiddenLater
  <2>5. InstallTypeOK' /\ WholeIsBegun'
    BY <2>1, <2>2, <2>3, <1>t, DirectoryFacts DEF InstallTypeOK, WholeIsBegun, Begun
  <2>6. HiddenLater'
    BY <2>2, <2>3, <1>t DEF HiddenLater
  <2>7. WholeElsewhere'
    <3>. SUFFICES ASSUME NEW j \in Importer, import'[j].pc = "installed", ~spoilt
                  PROVE  \E k \in Importer : import'[k].pc # "installed" /\ Whole(hidden'[k])
      BY <2>1 DEF WholeElsewhere, Whole
    <3>1. import[j].pc = "installed"
      BY <2>2
    <3>2. CASE Whole(place)
      BY <3>2, <2>2, <2>3
    <3>3. CASE ~Whole(place)
      <4>1. PICK k \in Importer : import[k].pc # "installed" /\ Whole(hidden[k])
        BY <3>1, <3>3, <1>t DEF WholeElsewhere
      <4>2. k # i
        BY <4>1, <2>4, DirectoryFacts
      <4>. QED BY <4>1, <4>2, <2>2, <2>3
    <3>. QED BY <3>2, <3>3
  <2>8. Kept1
    <3>1. Whole(place) => Whole(hidden'[i])
      BY <2>3
    <3>2. \A j \in Importer : Whole(hidden[j]) => Whole(hidden'[j])
      BY <2>3, <2>4, DirectoryFacts
    <3>. QED BY <3>1, <3>2
  <2>. QED BY <2>5, <2>6, <2>7, <2>8 DEF InstallInv
<1>3. ASSUME NEW i \in Importer, SetAsideFails(i) PROVE InstallInv' /\ Kept1
  <2>1. import[i].pc = "aside" /\ spoilt' = TRUE /\ UNCHANGED << place, hidden >> /\ To(i, "clearing")
    BY <1>3 DEF SetAsideFails, Now
  <2>2. /\ import' \in [Importer -> [pc : ImportPc, got : Owner]] /\ import'[i].pc = "clearing"
        /\ \A j \in Importer : j # i => import'[j] = import[j]
    BY <2>1, <1>p, <1>t, ToEffect
  <2>. QED BY <2>1, <2>2, <1>t DEF InstallInv, InstallTypeOK, WholeIsBegun, Begun, HiddenLater, WholeElsewhere
<1>4. ASSUME NEW i \in Importer, Move(i) PROVE InstallInv' /\ Kept1
  <2>1. import[i].pc = "moving" /\ place' = Installed(i) /\ UNCHANGED << hidden, spoilt >> /\ To(i, "installed")
    BY <1>4 DEF Move, Now
  <2>2. /\ import' \in [Importer -> [pc : ImportPc, got : Owner]] /\ import'[i].pc = "installed"
        /\ \A j \in Importer : j # i => import'[j] = import[j]
    BY <2>1, <1>p, <1>t, ToEffect
  <2>3. place' \in Directory /\ Whole(place') /\ place'.of = i
    BY <2>1, DirectoryFacts
  <2>4. InstallTypeOK' /\ WholeIsBegun' /\ HiddenLater'
    <3>1. /\ hidden' = hidden /\ place' \in Directory /\ spoilt' \in BOOLEAN
          /\ import' \in [Importer -> [pc : ImportPc, got : Owner]]
      BY <2>1, <2>2, <2>3, <1>t DEF InstallTypeOK
    <3>2. \A j \in Importer : Begun(j) => Begun(j)'
      BY <2>1, <2>2, <2>3, <1>t DEF Begun
    <3>3. \A j \in Importer : import'[j].pc \in {"idle", "resolved", "aside"}
                                => import[j].pc \in {"idle", "resolved", "aside"}
      BY <2>1, <2>2, <2>3, <1>t
    <3>4. place'.whole /\ place'.of \in Importer =>
            Begun(place.of)' \/ (place.whole /\ place.of = place'.of)
      BY <2>1, <2>2, <2>3, <1>t DEF Begun, Whole
    <3>. QED BY <3>1, <3>2, <3>3, <3>4, HiddenLeft
  <2>. QED BY <2>3, <2>4 DEF InstallInv, WholeElsewhere, Whole
<1>5. ASSUME NEW i \in Importer, MoveWithin(i) PROVE InstallInv' /\ Kept1
  <2>1. PICK p \in {"installed", "clearing"} : To(i, p)
    BY <1>5 DEF MoveWithin
  <2>2. /\ import' \in [Importer -> [pc : ImportPc, got : Owner]] /\ import'[i].pc = p
        /\ \A j \in Importer : j # i => import'[j] = import[j]
    BY <2>1, <1>p, <1>t, ToEffect
  <2>3. import[i].pc = "moving" /\ spoilt' = TRUE /\ UNCHANGED hidden
        /\ (place' = [place EXCEPT !.within = {i}] \/ place' = place)
    BY <1>5 DEF MoveWithin, Now
  <2>4. place' \in Directory /\ place'.whole = place.whole /\ place'.of = place.of
    BY <2>3, <1>t DEF Directory
  <2>5. InstallTypeOK' /\ WholeIsBegun' /\ HiddenLater'
    <3>1. /\ hidden' = hidden /\ place' \in Directory /\ spoilt' \in BOOLEAN
          /\ import' \in [Importer -> [pc : ImportPc, got : Owner]]
      BY <2>2, <2>3, <2>4, <1>t DEF InstallTypeOK
    <3>2. \A j \in Importer : Begun(j) => Begun(j)'
      BY <2>2, <2>3, <2>4, <1>t DEF Begun
    <3>3. \A j \in Importer : import'[j].pc \in {"idle", "resolved", "aside"}
                                => import[j].pc \in {"idle", "resolved", "aside"}
      BY <2>2, <2>3, <2>4, <1>t
    <3>4. place'.whole /\ place'.of \in Importer =>
            Begun(place.of)' \/ (place.whole /\ place.of = place'.of)
      BY <2>2, <2>3, <2>4, <1>t DEF Begun, Whole
    <3>. QED BY <3>1, <3>2, <3>3, <3>4, HiddenLeft
  <2>. QED BY <2>3, <2>5 DEF InstallInv, WholeElsewhere
<1>6. ASSUME NEW i \in Importer, MoveFails(i) PROVE InstallInv' /\ Kept1
  <2>1. import[i].pc = "moving" /\ UNCHANGED << hidden, spoilt >> /\ To(i, "clearing")
        /\ place' \in IF place = Nothing THEN {Nothing, [Installed(i) EXCEPT !.whole = FALSE]} ELSE {place}
    BY <1>6 DEF MoveFails, Now
  <2>2. /\ import' \in [Importer -> [pc : ImportPc, got : Owner]] /\ import'[i].pc = "clearing"
        /\ \A j \in Importer : j # i => import'[j] = import[j]
    BY <2>1, <1>p, <1>t, ToEffect
  <2>3. place' \in Directory /\ (place' = place \/ ~place'.whole) /\ (Whole(place) => place' = place)
    BY <2>1, <1>t, DirectoryFacts
  <2>4. InstallTypeOK' /\ WholeIsBegun' /\ HiddenLater'
    <3>1. /\ hidden' = hidden /\ place' \in Directory /\ spoilt' \in BOOLEAN
          /\ import' \in [Importer -> [pc : ImportPc, got : Owner]]
      BY <2>1, <2>2, <2>3, <1>t DEF InstallTypeOK
    <3>2. \A j \in Importer : Begun(j) => Begun(j)'
      BY <2>1, <2>2, <2>3, <1>t DEF Begun
    <3>3. \A j \in Importer : import'[j].pc \in {"idle", "resolved", "aside"}
                                => import[j].pc \in {"idle", "resolved", "aside"}
      BY <2>1, <2>2, <2>3, <1>t
    <3>4. place'.whole /\ place'.of \in Importer =>
            Begun(place.of)' \/ (place.whole /\ place.of = place'.of)
      BY <2>1, <2>2, <2>3, <1>t DEF Begun, Whole
    <3>. QED BY <3>1, <3>2, <3>3, <3>4, HiddenLeft
  <2>5. WholeElsewhere' /\ Kept1
    BY <2>1, <2>2, <2>3, <1>t DEF WholeElsewhere, Whole
  <2>. QED BY <2>4, <2>5 DEF InstallInv
<1>7. ASSUME NEW i \in Importer, ClearPlace(i) PROVE InstallInv' /\ Kept1
  <2>1. /\ import[i].pc = "clearing" /\ UNCHANGED hidden /\ To(i, "restoring")
        /\ place' \in {Nothing, IF place = Nothing THEN Nothing ELSE [place EXCEPT !.whole = FALSE]}
        /\ spoilt' = (spoilt \/ (place # Nothing /\ place.of # i))
    BY <1>7 DEF ClearPlace, Now
  <2>2. /\ import' \in [Importer -> [pc : ImportPc, got : Owner]] /\ import'[i].pc = "restoring"
        /\ \A j \in Importer : j # i => import'[j] = import[j]
    BY <2>1, <1>p, <1>t, ToEffect
  <2>3. place' \in Directory /\ ~place'.whole
    BY <2>1, <1>t, DirectoryFacts
  <2>4. ~spoilt' => ~spoilt /\ ~Whole(place)
    <3>. SUFFICES ASSUME ~spoilt', Whole(place) PROVE FALSE
      BY <2>1
    <3>1. place.of = i
      BY <2>1, DirectoryFacts
    <3>. QED BY <3>1, <2>1, <1>t DEF WholeIsBegun, Begun, Whole
  <2>5. spoilt' \in BOOLEAN
    BY <2>1, <1>t DEF InstallTypeOK
  <2>6. InstallTypeOK' /\ WholeIsBegun' /\ HiddenLater'
    <3>1. /\ hidden' = hidden /\ place' \in Directory /\ spoilt' \in BOOLEAN
          /\ import' \in [Importer -> [pc : ImportPc, got : Owner]]
      BY <2>1, <2>2, <2>3, <2>5, <1>t DEF InstallTypeOK
    <3>2. \A j \in Importer : Begun(j) => Begun(j)'
      BY <2>1, <2>2, <2>3, <2>5, <1>t DEF Begun
    <3>3. \A j \in Importer : import'[j].pc \in {"idle", "resolved", "aside"}
                                => import[j].pc \in {"idle", "resolved", "aside"}
      BY <2>1, <2>2, <2>3, <2>5, <1>t
    <3>4. place'.whole /\ place'.of \in Importer =>
            Begun(place.of)' \/ (place.whole /\ place.of = place'.of)
      BY <2>1, <2>2, <2>3, <2>5, <1>t DEF Begun, Whole
    <3>. QED BY <3>1, <3>2, <3>3, <3>4, HiddenLeft
  <2>7. WholeElsewhere' /\ Kept1
    BY <2>1, <2>2, <2>4, <1>t DEF WholeElsewhere, Whole
  <2>. QED BY <2>6, <2>7 DEF InstallInv
<1>8. ASSUME NEW i \in Importer, Restore(i) PROVE InstallInv' /\ Kept1
  <2>1. /\ import[i].pc = "restoring" /\ UNCHANGED spoilt /\ To(i, "out")
        /\ place' = IF place = Nothing THEN hidden[i] ELSE place
        /\ hidden' = [hidden EXCEPT ![i] = IF place = Nothing THEN Nothing ELSE hidden[i]]
    BY <1>8 DEF Restore, Kept, Now
  <2>2. /\ import' \in [Importer -> [pc : ImportPc, got : Owner]] /\ import'[i].pc = "out"
        /\ \A j \in Importer : j # i => import'[j] = import[j]
    BY <2>1, <1>p, <1>t, ToEffect
  <2>3. CASE place = Nothing
    <3>1. place' = hidden[i] /\ hidden' = [hidden EXCEPT ![i] = Nothing]
      BY <2>1, <2>3
    <3>2. /\ hidden' \in [Importer -> Directory] /\ hidden'[i] = Nothing /\ place' \in Directory
          /\ \A j \in Importer : j # i => hidden'[j] = hidden[j]
      BY <3>1, <1>t, DirectoryFacts
    <3>3. InstallTypeOK' /\ WholeIsBegun' /\ HiddenLater'
      <4>1. InstallTypeOK'
        BY <2>1, <2>2, <3>2, <1>t DEF InstallTypeOK
      <4>2. \A j \in Importer : Begun(j) => Begun(j)'
        BY <2>1, <2>2 DEF Begun
      <4>3. WholeIsBegun'
        BY <3>1, <3>2, <4>2, <1>t, DirectoryFacts DEF WholeIsBegun
      <4>4. HiddenLater'
        BY <2>2, <3>2, <1>t DEF HiddenLater
      <4>. QED BY <4>1, <4>3, <4>4
    <3>4. ~Whole(place)
      BY <2>3, DirectoryFacts
    <3>5. WholeElsewhere' /\ Kept1
      BY <2>1, <2>2, <3>1, <3>2, <3>4, <1>t DEF WholeElsewhere, Whole
    <3>. QED BY <3>3, <3>5 DEF InstallInv
  <2>4. CASE place # Nothing
    <3>1. place' = place /\ hidden' = hidden
      BY <2>1, <2>4, <1>t
    <3>2. InstallTypeOK' /\ WholeIsBegun' /\ HiddenLater'
      <4>1. /\ hidden' = hidden /\ place' \in Directory /\ spoilt' \in BOOLEAN
            /\ import' \in [Importer -> [pc : ImportPc, got : Owner]]
        BY <2>1, <2>2, <3>1, <1>t DEF InstallTypeOK
      <4>2. \A j \in Importer : Begun(j) => Begun(j)'
        BY <2>1, <2>2, <3>1, <1>t DEF Begun
      <4>3. \A j \in Importer : import'[j].pc \in {"idle", "resolved", "aside"}
                                  => import[j].pc \in {"idle", "resolved", "aside"}
        BY <2>1, <2>2, <3>1, <1>t
      <4>4. place'.whole /\ place'.of \in Importer =>
              Begun(place.of)' \/ (place.whole /\ place.of = place'.of)
        BY <2>1, <2>2, <3>1, <1>t DEF Begun, Whole
      <4>. QED BY <4>1, <4>2, <4>3, <4>4, HiddenLeft
    <3>3. WholeElsewhere' /\ Kept1
      BY <2>1, <2>2, <3>1, <1>t DEF WholeElsewhere, Whole
    <3>. QED BY <3>2, <3>3 DEF InstallInv
  <2>. QED BY <2>3, <2>4
<1>9. ASSUME NEW i \in Importer, RemoveHidden(i) \/ RemoveHiddenFails(i) PROVE InstallInv' /\ Kept1
  <2>1. PICK p \in {"loading", "out"} : To(i, p)
    BY <1>9 DEF RemoveHidden, RemoveHiddenFails
  <2>2. /\ import' \in [Importer -> [pc : ImportPc, got : Owner]] /\ import'[i].pc = p
        /\ \A j \in Importer : j # i => import'[j] = import[j]
    BY <2>1, <1>p, <1>t, ToEffect
  <2>3. import[i].pc = "installed" /\ UNCHANGED << place, spoilt >>
    BY <1>9 DEF RemoveHidden, RemoveHiddenFails, Now
  <2>4. /\ hidden' \in [Importer -> Directory] /\ ~hidden'[i].whole
        /\ \A j \in Importer : j # i => hidden'[j] = hidden[j]
    <3>1. CASE RemoveHidden(i)
      BY <3>1, <1>t, DirectoryFacts DEF RemoveHidden
    <3>2. CASE RemoveHiddenFails(i)
      <4>1. hidden' = [hidden EXCEPT ![i] = [hidden[i] EXCEPT !.whole = FALSE]]
        BY <3>2, <1>t DEF RemoveHiddenFails
      <4>. QED BY <4>1, <1>t, DirectoryFacts
    <3>. QED BY <3>1, <3>2, <1>9
  <2>5. InstallTypeOK' /\ WholeIsBegun' /\ HiddenLater'
    <3>1. InstallTypeOK'
      BY <2>2, <2>3, <2>4, <1>t DEF InstallTypeOK
    <3>2. \A j \in Importer : Begun(j) => Begun(j)'
      BY <2>2, <2>3 DEF Begun
    <3>3. WholeIsBegun'
      BY <2>3, <2>4, <3>2, <1>t DEF WholeIsBegun
    <3>4. HiddenLater'
      BY <2>2, <2>3, <2>4, <1>t DEF HiddenLater
    <3>. QED BY <3>1, <3>3, <3>4
  <2>6. ~spoilt => Whole(place) \/ \E k \in Importer : import[k].pc # "installed" /\ Whole(hidden[k])
    BY <2>3, <1>t DEF WholeElsewhere
  <2>7. WholeElsewhere' /\ Kept1
    BY <2>2, <2>3, <2>4, <2>6 DEF WholeElsewhere, Whole
  <2>. QED BY <2>5, <2>7 DEF InstallInv
<1>10. ASSUME NEW i \in Importer, Load(i) PROVE InstallInv' /\ Kept1
  <2>1. import[i].pc = "loading" /\ import' = [import EXCEPT ![i] = [pc |-> "done", got |-> place.of]]
        /\ UNCHANGED << place, hidden, spoilt >>
    BY <1>10 DEF Load, Now
  <2>2. /\ import' \in [Importer -> [pc : ImportPc, got : Owner]] /\ import'[i].pc = "done"
        /\ \A j \in Importer : j # i => import'[j] = import[j]
    <3>1. [pc |-> "done", got |-> place.of] \in [pc : ImportPc, got : Owner]
      BY <1>t, <1>p DEF Directory
    <3>. QED BY <2>1, <3>1, <1>t
  <2>. QED BY <2>1, <2>2, <1>t DEF InstallInv, InstallTypeOK, WholeIsBegun, Begun, HiddenLater, WholeElsewhere, Whole
<1>11. ASSUME TaskWrites PROVE InstallInv' /\ Kept1
  <2>1. place = Nothing /\ place' = [Nothing EXCEPT !.of = Stray] /\ UNCHANGED << hidden, import, spoilt >>
    BY <1>11 DEF TaskWrites
  <2>2. place' \in Directory /\ ~place'.whole /\ ~Whole(place)
    BY <2>1, DirectoryFacts
  <2>3. InstallTypeOK' /\ WholeIsBegun' /\ HiddenLater'
    <3>1. /\ hidden' = hidden /\ place' \in Directory /\ spoilt' \in BOOLEAN
          /\ import' \in [Importer -> [pc : ImportPc, got : Owner]]
      BY <2>1, <2>2, <1>t DEF InstallTypeOK
    <3>2. \A j \in Importer : Begun(j) => Begun(j)'
      BY <2>1, <2>2, <1>t DEF Begun
    <3>3. \A j \in Importer : import'[j].pc \in {"idle", "resolved", "aside"}
                                => import[j].pc \in {"idle", "resolved", "aside"}
      BY <2>1, <2>2, <1>t
    <3>4. place'.whole /\ place'.of \in Importer =>
            Begun(place.of)' \/ (place.whole /\ place.of = place'.of)
      BY <2>1, <2>2, <1>t DEF Begun, Whole
    <3>. QED BY <3>1, <3>2, <3>3, <3>4, HiddenLeft
  <2>4. WholeElsewhere'
    BY <2>1, <2>2, <1>t DEF WholeElsewhere, Whole
  <2>5. Kept1
    BY <2>1, <2>2
  <2>6. InstallInv'
    BY <2>3, <2>4 DEF InstallInv
  <2>. QED BY <2>5, <2>6
<1>12. ASSUME Crash PROVE InstallInv' /\ Kept1
  <2>1. import' = [i \in Importer |-> [import[i] EXCEPT !.pc = IF import[i].pc = "done" THEN import[i].pc ELSE "out"]]
        /\ UNCHANGED << place, hidden, spoilt >>
    BY <1>12 DEF Crash
  <2>2. ASSUME NEW i \in Importer
        PROVE  import'[i] \in [pc : ImportPc, got : Owner] /\ import'[i].pc \in {"out", "done"}
    <3>1. CASE import[i].pc = "done"
      <4>1. import'[i] = [import[i] EXCEPT !.pc = "done"]
        BY <2>1, <3>1
      <4>. QED BY <4>1, <1>t, <1>p
    <3>2. CASE import[i].pc # "done"
      <4>1. import'[i] = [import[i] EXCEPT !.pc = "out"]
        BY <2>1, <3>2
      <4>. QED BY <4>1, <1>t, <1>p
    <3>. QED BY <3>1, <3>2
  <2>3. import' \in [Importer -> [pc : ImportPc, got : Owner]]
    BY <2>1, <2>2
  <2>. QED BY <2>1, <2>2, <2>3, <1>t DEF InstallInv, InstallTypeOK, WholeIsBegun, Begun, HiddenLater, WholeElsewhere, Whole
<1>. HIDE DEF Kept1
<1>n. \/ \E i \in Importer :
           \/ Resolve(i) \/ Look(i) \/ SetAside(i) \/ SetAsideFails(i)
           \/ Move(i) \/ MoveWithin(i) \/ MoveFails(i) \/ ClearPlace(i) \/ Restore(i)
           \/ RemoveHidden(i) \/ RemoveHiddenFails(i) \/ Load(i)
      \/ TaskWrites \/ Crash
  BY DEF InstallNext
<1>13. InstallInv' /\ Kept1
  BY <1>n, <1>1, <1>2, <1>3, <1>4, <1>5, <1>6, <1>7, <1>8, <1>9, <1>10, <1>11, <1>12
<1>. QED BY <1>13, <1>k

\* For any number of imports, whatever fails and wherever the server stops: as
\* long as none meets what it had not expected, a complete project is kept.
THEOREM ProjectIsKept == InstallSpec => ProjectKept
<1>1. InstallInv /\ [InstallNext]_installing => InstallInv'
  <2>1. InstallInv /\ UNCHANGED installing => InstallInv'
    BY DEF installing, InstallInv, InstallTypeOK, WholeIsBegun, Begun, HiddenLater, WholeElsewhere, Whole
  <2>2. InstallInv /\ InstallNext => InstallInv'
    BY InstallStep
  <2>. QED BY <2>1, <2>2
<1>2. InstallInv /\ [InstallNext]_installing =>
        [(\E d \in {place} \union Range(hidden) : Whole(d)) /\ ~spoilt'
           => (\E d \in {place'} \union Range(hidden') : Whole(d))]_installing
  BY InstallStep
<1>. QED BY <1>1, <1>2, InitInstall, PTL DEF InstallSpec, ProjectKept

---------------------------------------------------------------------------------
(* The stream of changes.                                                    *)

ChannelType ==
  [subs : SUBSET Client, task : {"none", "scan", "apply", "wait", "cancelled", "done"},
   ready : BOOLEAN, snapshot : Int, copy : Int]

VisitorType ==
  [pc : {"away", "waiting", "in", "leaving"}, ch : Nat, queue : Seq(SUBSET Int), since : Int,
   heard : SUBSET Int]

EventsTypeOK ==
  /\ disk \in Nat /\ calls \in Seq(Int)
  /\ channels \in Seq(ChannelType)
  /\ registered \in {NoChannel} \union DOMAIN channels
  /\ client \in [Client -> VisitorType]
  /\ \A b \in rebuilds : b \in [ch : DOMAIN channels, change : Int, copy : Int]

\* Who is not away has a channel that was made.
Placed == \A u \in Client : client[u].pc # "away" => client[u].ch \in DOMAIN channels

\* A channel whose fingerprint was given to a client keeps having a snapshot.
SnapshotStays ==
  /\ \A c \in DOMAIN channels : channels[c].task = "apply" => channels[c].copy # Unread
  /\ \A u \in Client :
       client[u].pc = "in" /\ client[u].since # Unread => channels[client[u].ch].snapshot # Unread

EventsInv == EventsTypeOK /\ Placed /\ SnapshotStays /\ SnapshotTold

LEMMA BeginEvents == EventsInit => EventsInv
<1>. SUFFICES ASSUME EventsInit PROVE EventsInv
  OBVIOUS
<1>1. channels = << >> /\ channels \in Seq(ChannelType) /\ DOMAIN channels = {}
  BY EmptySeq DEF EventsInit
<1>2. Away \in VisitorType /\ Away.pc = "away"
  BY EmptySeq DEF Away, VisitorType, NoChannel, Unread
<1>3. EventsTypeOK
  BY <1>1, <1>2, EmptySeq DEF EventsTypeOK, EventsInit, NoChannel
<1>4. \A u \in Client : client[u].pc = "away"
  BY <1>2 DEF EventsInit
<1>. QED BY <1>1, <1>3, <1>4 DEF EventsInv, Placed, SnapshotStays, SnapshotTold, Standing

\* A step that leaves the clients alone, and of a channel its snapshot and who is not new.
LEMMA QuietEvent ==
  ASSUME EventsInv, EventsTypeOK', UNCHANGED << client, registered, absorbed >>,
         DOMAIN channels' = DOMAIN channels,
         \A c \in DOMAIN channels :
           /\ channels'[c].snapshot = channels[c].snapshot
           /\ channels'[c].subs \subseteq channels[c].subs
           /\ channels'[c].task = "apply" => channels'[c].copy # Unread
  PROVE  EventsInv'
<1>1. Placed'
  BY DEF EventsInv, Placed
<1>2. SnapshotStays'
  BY DEF EventsInv, SnapshotStays, Placed, EventsTypeOK, VisitorType
<1>3. SnapshotTold'
  <2>. SUFFICES ASSUME NEW u \in Client, Standing(u)'
                PROVE  (Between(client[u].since, channels[registered].snapshot) \subseteq Told(u))'
    BY DEF SnapshotTold
  <2>1. Standing(u) /\ registered \in DOMAIN channels
    BY DEF Standing, EventsInv, Placed
  <2>2. Told(u)' = Told(u)
    BY DEF Told
  <2>3. channels'[registered'].snapshot = channels[registered].snapshot
    BY <2>1
  <2>. QED BY <2>1, <2>2, <2>3 DEF EventsInv, SnapshotTold, Between
<1>. QED BY <1>1, <1>2, <1>3 DEF EventsInv

\* A step of one visitor, that does not bring it in, nor a channel a snapshot.
LEMMA VisitorStep ==
  ASSUME EventsInv, NEW u \in Client, NEW v \in VisitorType, NEW c \in Nat,
         client' = [client EXCEPT ![u] = v],
         v.pc = "in" => client[u].pc = "in" /\ v.ch = client[u].ch /\ v.since = client[u].since
                        /\ Told(u)' = Told(u),
         v.pc # "away" => v.ch \in DOMAIN channels',
         channels' \in Seq(ChannelType), DOMAIN channels \subseteq DOMAIN channels',
         \A d \in DOMAIN channels :
           /\ channels'[d].snapshot = channels[d].snapshot
           /\ channels'[d].subs \subseteq channels[d].subs \union {u}
           /\ channels'[d].task = "apply" => channels'[d].copy # Unread,
         \A d \in DOMAIN channels' \ DOMAIN channels : channels'[d].task # "apply",
         v.pc = "in" => \A d \in DOMAIN channels : channels'[d].subs \subseteq channels[d].subs,
         registered' \in {NoChannel} \union DOMAIN channels',
         registered' \in {NoChannel, registered} \/ registered' \notin DOMAIN channels,
         UNCHANGED << disk, calls, rebuilds, absorbed >>
  PROVE  EventsInv'
<1>1. EventsTypeOK'
  BY DEF EventsInv, EventsTypeOK
<1>2. \A w \in Client : w # u => client'[w] = client[w]
  BY DEF EventsInv, EventsTypeOK
<1>3. client'[u] = v
  BY DEF EventsInv, EventsTypeOK
<1>4. Placed'
  BY <1>2, <1>3 DEF EventsInv, Placed
<1>5. SnapshotStays'
  <2>1. \A d \in DOMAIN channels' : channels'[d].task = "apply" => channels'[d].copy # Unread
    OBVIOUS
  <2>2. ASSUME NEW w \in Client, client'[w].pc = "in", client'[w].since # Unread
        PROVE  channels'[client'[w].ch].snapshot # Unread
    <3>1. client[w].pc = "in" /\ client[w].since = client'[w].since /\ client[w].ch = client'[w].ch
      BY <2>2, <1>2, <1>3
    <3>. QED BY <3>1, <2>2 DEF EventsInv, SnapshotStays, Placed
  <2>. QED BY <2>1, <2>2 DEF SnapshotStays
<1>6. SnapshotTold'
  <2>. SUFFICES ASSUME NEW w \in Client, Standing(w)'
                PROVE  (Between(client[w].since, channels[registered].snapshot) \subseteq Told(w))'
    BY DEF SnapshotTold
  <2>1. client[w].pc = "in" /\ client[w].since = client'[w].since /\ client[w].ch = client'[w].ch
    BY <1>2, <1>3 DEF Standing
  <2>2. client[w].ch \in DOMAIN channels /\ NoChannel \notin DOMAIN channels
    BY <2>1 DEF EventsInv, Placed, EventsTypeOK, NoChannel
  <2>3. registered' = registered /\ registered \in DOMAIN channels
    BY <2>1, <2>2 DEF Standing
  <2>4. Standing(w)
    BY <2>1, <2>3, <1>3 DEF Standing
  <2>5. Told(w)' = Told(w)
    <3>1. CASE w = u
      <4>1. v.pc = "in"
        BY <1>3, <3>1 DEF Standing
      <4>. QED BY <4>1, <3>1
    <3>2. CASE w # u
      BY <3>2, <1>2 DEF Told
    <3>. QED BY <3>1, <3>2
  <2>6. channels'[registered'].snapshot = channels[registered].snapshot
    BY <2>3
  <2>. QED BY <2>1, <2>3, <2>4, <2>5, <2>6 DEF EventsInv, SnapshotTold, Between
<1>. QED BY <1>1, <1>4, <1>5, <1>6 DEF EventsInv

\* What is broadcast reaches the queues of all who stay.
LEMMA BroadcastReaches ==
  ASSUME EventsInv, NEW c \in DOMAIN channels, NEW ch \in ChannelType, ch.subs = channels[c].subs,
         NEW what \in SUBSET Int, Broadcast(c, ch, what)
  PROVE  /\ channels' \in Seq(ChannelType) /\ DOMAIN channels' = DOMAIN channels
         /\ \A d \in DOMAIN channels \ {c} : channels'[d] = channels[d]
         /\ channels'[c].task = ch.task /\ channels'[c].snapshot = ch.snapshot
         /\ channels'[c].copy = ch.copy /\ channels'[c].subs \subseteq channels[c].subs
         /\ client' \in [Client -> VisitorType]
         /\ \A u \in Client :
              /\ client'[u].pc = client[u].pc /\ client'[u].ch = client[u].ch
              /\ client'[u].since = client[u].since /\ client'[u].heard = client[u].heard
              /\ UNION ToSet(client[u].queue) \subseteq UNION ToSet(client'[u].queue)
              /\ u \in channels'[c].subs => what \subseteq UNION ToSet(client'[u].queue)
<1>t. EventsTypeOK
  BY DEF EventsInv
<1>1. PICK to : to = [ch EXCEPT !.subs = @ \ Dropped(c)]
  OBVIOUS
<1>2. to \in ChannelType /\ to.task = ch.task /\ to.snapshot = ch.snapshot /\ to.copy = ch.copy
      /\ to.subs = channels[c].subs \ Dropped(c)
  BY <1>1 DEF ChannelType
<1>3. channels' = [channels EXCEPT ![c] = to]
  BY <1>1 DEF Broadcast
<1>4. channels' \in Seq(ChannelType) /\ DOMAIN channels' = DOMAIN channels /\ channels'[c] = to
      /\ \A d \in DOMAIN channels \ {c} : channels'[d] = channels[d]
  BY <1>2, <1>3, <1>t DEF EventsTypeOK
<1>5. ASSUME NEW u \in Client
      PROVE  /\ client'[u] \in VisitorType
             /\ client'[u].pc = client[u].pc /\ client'[u].ch = client[u].ch
             /\ client'[u].since = client[u].since /\ client'[u].heard = client[u].heard
             /\ UNION ToSet(client[u].queue) \subseteq UNION ToSet(client'[u].queue)
             /\ u \in to.subs => what \subseteq UNION ToSet(client'[u].queue)
  <2>1. client[u] \in VisitorType
    BY <1>t DEF EventsTypeOK
  <2>2. client[u].queue \in Seq(SUBSET Int) /\ Len(client[u].queue) \in Nat
    BY <2>1, LenProperties DEF VisitorType
  <2>3. CASE u \in ch.subs /\ Len(client[u].queue) < Capacity
    <3>. DEFINE q == Append(client[u].queue, what)
    <3>1. client'[u] = [client[u] EXCEPT !.queue = q]
      BY <2>3 DEF Broadcast
    <3>2. q \in Seq(SUBSET Int) /\ DOMAIN q = 1 .. Len(client[u].queue) + 1
          /\ DOMAIN client[u].queue = 1 .. Len(client[u].queue)
          /\ (\A i \in 1 .. Len(client[u].queue) : q[i] = client[u].queue[i])
          /\ q[Len(client[u].queue) + 1] = what
      BY <2>2, AppendProperties, LenProperties
    <3>3. ToSet(q) = ToSet(client[u].queue) \union {what}
      <4>. HIDE DEF q
      <4>. DEFINE n == Len(client[u].queue)
      <4>1. DOMAIN q = (1 .. n) \union {n + 1}
        BY <3>2, <2>2
      <4>2. {q[i] : i \in DOMAIN q} = {q[i] : i \in 1 .. n} \union {q[n + 1]}
        BY <4>1
      <4>3. {q[i] : i \in 1 .. n} = {client[u].queue[i] : i \in DOMAIN client[u].queue}
        BY <3>2
      <4>. QED BY <4>2, <4>3, <3>2 DEF ToSet
    <3>. HIDE DEF q
    <3>4. client'[u] \in VisitorType /\ client'[u].queue = q /\ client'[u].pc = client[u].pc
          /\ client'[u].ch = client[u].ch /\ client'[u].since = client[u].since
          /\ client'[u].heard = client[u].heard
      BY <3>1, <3>2, <2>1 DEF VisitorType
    <3>. QED BY <3>3, <3>4
  <2>4. CASE ~ (u \in ch.subs /\ Len(client[u].queue) < Capacity)
    <3>1. client'[u] = client[u]
      BY <2>4 DEF Broadcast
    <3>2. u \notin to.subs
      BY <2>4, <2>2, <1>2, EventsAssumption DEF Dropped
    <3>. QED BY <3>1, <3>2, <2>1
  <2>. QED BY <2>3, <2>4
<1>6. client' = [u \in Client |-> client'[u]]
  BY DEF Broadcast
<1>. QED BY <1>2, <1>4, <1>5, <1>6

\* A channel that takes in another snapshot has told those who stay all that is in between.
LEMMA SnapshotStep ==
  ASSUME EventsInv, NEW c \in DOMAIN channels, NEW ch \in ChannelType, ch.subs = channels[c].subs,
         ch.snapshot # Unread, ch.task = "apply" => ch.copy # Unread,
         NEW what \in SUBSET Int, Broadcast(c, ch, what),
         absorbed \subseteq absorbed',
         \A k \in Between(channels[c].snapshot, ch.snapshot) : k \in what \/ << c, k >> \in absorbed',
         UNCHANGED << disk, calls, registered >>, rebuilds' \subseteq rebuilds
  PROVE  EventsInv'
<1>t. EventsTypeOK
  BY DEF EventsInv
<1>1. /\ channels' \in Seq(ChannelType) /\ DOMAIN channels' = DOMAIN channels
      /\ \A d \in DOMAIN channels \ {c} : channels'[d] = channels[d]
      /\ channels'[c].task = ch.task /\ channels'[c].snapshot = ch.snapshot
      /\ channels'[c].copy = ch.copy /\ channels'[c].subs \subseteq channels[c].subs
      /\ client' \in [Client -> VisitorType]
      /\ \A u \in Client :
           /\ client'[u].pc = client[u].pc /\ client'[u].ch = client[u].ch
           /\ client'[u].since = client[u].since /\ client'[u].heard = client[u].heard
           /\ UNION ToSet(client[u].queue) \subseteq UNION ToSet(client'[u].queue)
           /\ u \in channels'[c].subs => what \subseteq UNION ToSet(client'[u].queue)
  BY BroadcastReaches
<1>2. EventsTypeOK'
  BY <1>1, <1>t DEF EventsTypeOK
<1>3. Placed'
  BY <1>1 DEF EventsInv, Placed
<1>4. SnapshotStays'
  BY <1>1 DEF EventsInv, SnapshotStays, Placed
<1>5. SnapshotTold'
  <2>. SUFFICES ASSUME NEW u \in Client, Standing(u)'
                PROVE  (Between(client[u].since, channels[registered].snapshot) \subseteq Told(u))'
    BY DEF SnapshotTold
  <2>1. Standing(u) /\ registered \in DOMAIN channels /\ client[u].ch = registered
        /\ client'[u].ch = registered /\ u \in channels'[registered].subs
    BY <1>1 DEF Standing, EventsInv, Placed
  <2>2. Told(u) \subseteq Told(u)'
    BY <1>1 DEF Told
  <2>3. Between(client[u].since, channels[registered].snapshot) \subseteq Told(u)
    BY <2>1 DEF EventsInv, SnapshotTold
  <2>4. CASE registered # c
    <3>1. channels'[registered'] = channels[registered]
      BY <2>1, <2>4, <1>1
    <3>. QED BY <2>2, <2>3, <3>1, <1>1 DEF Between
  <2>5. CASE registered = c
    <3>1. client[u].since \in Int /\ channels[c].snapshot \in Int /\ ch.snapshot \in Int
      <4>1. client[u] \in VisitorType /\ channels[c] \in ChannelType
        BY <1>t, ElementOfSeq, LenProperties DEF EventsTypeOK
      <4>. QED BY <4>1 DEF VisitorType, ChannelType
    <3>2. channels'[registered'].snapshot = ch.snapshot /\ client'[u].since = client[u].since
      BY <1>1, <2>5
    <3>. SUFFICES ASSUME NEW k \in Between(client[u].since, ch.snapshot) PROVE k \in Told(u)'
      BY <3>2 DEF Between
    <3>3. k \in Between(client[u].since, channels[c].snapshot) \/ k \in Between(channels[c].snapshot, ch.snapshot)
      BY <3>1, EventsAssumption DEF Between
    <3>4. ASSUME k \in what PROVE k \in Told(u)'
      BY <3>4, <1>1, <2>1, <2>5 DEF Told
    <3>5. ASSUME << c, k >> \in absorbed' PROVE k \in Told(u)'
      <4>1. k \in 1 .. MaxChange
        BY DEF Between
      <4>2. << client'[u].ch, k >> \in absorbed'
        BY <3>5, <2>1, <2>5
      <4>3. k \in {j \in 1 .. MaxChange : << client'[u].ch, j >> \in absorbed'}
        BY <4>1, <4>2
      <4>. QED BY <4>3, Zenon DEF Told
    <3>. QED BY <3>3, <3>4, <3>5, <2>2, <2>3, <2>5
  <2>. QED BY <2>4, <2>5
<1>. QED BY <1>2, <1>3, <1>4, <1>5 DEF EventsInv

\* One joins a channel that is there, or a new one.
LEMMA SubscribeStep ==
  ASSUME EventsInv, NEW u \in Client, Subscribe(u)
  PROVE  EventsInv'
<1>t. EventsTypeOK /\ client[u].pc = "away"
  BY DEF EventsInv, Subscribe
<1>. DEFINE c == IF registered = NoChannel THEN Len(channels) + 1 ELSE registered
<1>1. channels \in Seq(ChannelType) /\ Len(channels) \in Nat /\ DOMAIN channels = 1 .. Len(channels)
  BY <1>t, LenProperties DEF EventsTypeOK
<1>2. NewChannel \in ChannelType /\ NewChannel.task = "none"
  BY DEF NewChannel, ChannelType, Unread
<1>3. PICK v : v = [Away EXCEPT !.pc = "waiting", !.ch = c]
  OBVIOUS
<1>4. c \in Nat /\ client' = [client EXCEPT ![u] = v] /\ registered' = c
  BY <1>1, <1>3, <1>t DEF Subscribe, EventsTypeOK, NoChannel
<1>5. v \in VisitorType /\ v.pc = "waiting" /\ v.ch = c
  <2>1. Away \in VisitorType
    BY EmptySeq DEF Away, VisitorType, NoChannel, Unread
  <2>. HIDE DEF c
  <2>. QED BY <2>1, <1>3, <1>4 DEF VisitorType
<1>6. ASSUME NEW ch \in ChannelType
      PROVE  /\ Joined(ch, u) \in ChannelType /\ Joined(ch, u).snapshot = ch.snapshot
             /\ Joined(ch, u).subs \subseteq ch.subs \union {u}
             /\ Joined(ch, u).copy = ch.copy
             /\ Joined(ch, u).task = "apply" => ch.task = "apply"
  <2>1. PICK with : with = [ch EXCEPT !.subs = @ \union {u}]
    OBVIOUS
  <2>2. with \in ChannelType /\ with.subs = ch.subs \union {u} /\ with.snapshot = ch.snapshot
        /\ with.copy = ch.copy /\ with.task = ch.task
    BY <2>1 DEF ChannelType
  <2>3. Joined(ch, u) = IF NeedsWatcher(ch) THEN [with EXCEPT !.task = "scan", !.ready = FALSE] ELSE with
    BY <2>1 DEF Joined
  <2>4. CASE NeedsWatcher(ch)
    BY ZenonT(50), <2>2, <2>3, <2>4 DEF ChannelType
  <2>5. CASE ~ NeedsWatcher(ch)
    BY <2>2, <2>3, <2>5
  <2>. QED BY <2>4, <2>5
<1>7. CASE registered = NoChannel
  <2>1. PICK new : new = Joined(NewChannel, u)
    OBVIOUS
  <2>2. new \in ChannelType /\ new.task # "apply"
    BY <2>1, <1>2, <1>6
  <2>3. channels' = Append(channels, new) /\ c = Len(channels) + 1
    BY <1>7, <2>1 DEF Subscribe
  <2>4. channels' \in Seq(ChannelType) /\ DOMAIN channels' = 1 .. Len(channels) + 1
        /\ channels'[Len(channels) + 1] = new
        /\ \A d \in DOMAIN channels : channels'[d] = channels[d]
    BY <2>2, <2>3, <1>1, AppendProperties, LenProperties
  <2>5. c \in DOMAIN channels' /\ c \notin DOMAIN channels
    BY <2>3, <2>4, <1>1
  <2>6. DOMAIN channels \subseteq DOMAIN channels'
        /\ \A d \in DOMAIN channels' \ DOMAIN channels : channels'[d].task # "apply"
    BY <2>4, <2>2, <1>1
  <2>7. UNCHANGED << disk, calls, rebuilds, absorbed >>
    BY DEF Subscribe
  <2>8. \A d \in DOMAIN channels : channels[d].task = "apply" => channels[d].copy # Unread
    BY DEF EventsInv, SnapshotStays
  <2>. HIDE DEF c
  <2>. QED BY <2>4, <2>5, <2>6, <2>7, <2>8, <1>4, <1>5, VisitorStep
<1>8. CASE registered # NoChannel
  <2>1. c = registered /\ c \in DOMAIN channels /\ channels[c] \in ChannelType
    BY <1>8, <1>t, <1>1, ElementOfSeq DEF EventsTypeOK
  <2>2. PICK new : new = Joined(channels[c], u)
    OBVIOUS
  <2>3. new \in ChannelType /\ new.snapshot = channels[c].snapshot /\ new.copy = channels[c].copy
        /\ new.subs \subseteq channels[c].subs \union {u} /\ (new.task = "apply" => channels[c].task = "apply")
    BY <2>1, <2>2, <1>6
  <2>4. channels' = [channels EXCEPT ![c] = new]
    BY <1>8, <2>1, <2>2 DEF Subscribe
  <2>5. channels' \in Seq(ChannelType) /\ DOMAIN channels' = DOMAIN channels /\ channels'[c] = new
        /\ \A d \in DOMAIN channels \ {c} : channels'[d] = channels[d]
    BY <2>4, <2>3, <2>1, <1>1
  <2>6. UNCHANGED << disk, calls, rebuilds, absorbed >>
    BY DEF Subscribe
  <2>7. \A d \in DOMAIN channels : channels[d].task = "apply" => channels[d].copy # Unread
    BY DEF EventsInv, SnapshotStays
  <2>8. \A d \in DOMAIN channels :
           /\ channels'[d].snapshot = channels[d].snapshot
           /\ channels'[d].subs \subseteq channels[d].subs \union {u}
           /\ channels'[d].task = "apply" => channels'[d].copy # Unread
    BY <2>3, <2>5, <2>7
  <2>. HIDE DEF c
  <2>. QED BY <2>1, <2>5, <2>6, <2>8, <1>4, <1>5, VisitorStep
<1>. QED BY <1>7, <1>8

LEMMA AnsweredStep ==
  ASSUME EventsInv, NEW u \in Client, Answered(u)
  PROVE  EventsInv'
<1>t. EventsTypeOK /\ client[u] \in VisitorType /\ client[u].pc = "waiting"
      /\ client[u].ch \in DOMAIN channels /\ channels[client[u].ch] \in ChannelType
  BY ElementOfSeq, LenProperties DEF EventsInv, EventsTypeOK, Placed, Answered
<1>1. PICK c : c = client[u].ch
  OBVIOUS
<1>2. PICK v : v = [client[u] EXCEPT !.pc = "in", !.since = channels[c].snapshot]
  OBVIOUS
<1>3. v \in VisitorType /\ v.pc = "in" /\ v.ch = c /\ v.since = channels[c].snapshot
      /\ v.since \in Int
  BY <1>1, <1>2, <1>t DEF VisitorType, ChannelType
<1>4. client' = [client EXCEPT ![u] = v] /\ client'[u] = v
      /\ \A w \in Client : w # u => client'[w] = client[w]
  BY <1>1, <1>2, <1>t DEF Answered, EventsTypeOK
<1>5. UNCHANGED << disk, calls, rebuilds, channels, registered, absorbed >>
  BY DEF Answered
<1>6. EventsTypeOK'
  BY <1>3, <1>4, <1>5, <1>t DEF EventsTypeOK
<1>7. Placed'
  BY <1>1, <1>3, <1>4, <1>5, <1>t DEF EventsInv, Placed
<1>8. SnapshotStays'
  BY <1>3, <1>4, <1>5 DEF EventsInv, SnapshotStays
<1>9. SnapshotTold'
  <2>. SUFFICES ASSUME NEW w \in Client, Standing(w)'
                PROVE  (Between(client[w].since, channels[registered].snapshot) \subseteq Told(w))'
    BY DEF SnapshotTold
  <2>1. CASE w = u
    <3>1. client'[w].since = channels'[registered'].snapshot /\ client'[w].since \in Int
      BY <2>1, <1>3, <1>4, <1>5 DEF Standing
    <3>2. Between(client'[w].since, channels'[registered'].snapshot) = {}
      BY <3>1, EventsAssumption DEF Between
    <3>. QED BY <3>2 DEF Between
  <2>2. CASE w # u
    <3>1. client'[w] = client[w] /\ Standing(w)
      BY <2>2, <1>4, <1>5 DEF Standing
    <3>2. Told(w)' = Told(w)
      BY <3>1, <1>5 DEF Told
    <3>. QED BY <3>1, <3>2, <1>5 DEF EventsInv, SnapshotTold, Between
  <2>. QED BY <2>1, <2>2
<1>. QED BY <1>6, <1>7, <1>8, <1>9 DEF EventsInv

LEMMA HearStep ==
  ASSUME EventsInv, NEW u \in Client, Hear(u)
  PROVE  EventsInv'
<1>t. EventsTypeOK /\ client[u] \in VisitorType /\ client[u].pc = "in"
      /\ client[u].ch \in DOMAIN channels /\ client[u].ch \in Nat
  BY DEF EventsInv, EventsTypeOK, Placed, Hear, VisitorType
<1>. DEFINE q == client[u].queue
<1>1. q \in Seq(SUBSET Int) /\ q # << >>
  BY <1>t DEF Hear, VisitorType
<1>2. Head(q) \in SUBSET Int /\ Tail(q) \in Seq(SUBSET Int)
      /\ ToSet(q) = {Head(q)} \union ToSet(Tail(q))
  <2>1. /\ Head(q) \in SUBSET Int /\ Tail(q) \in Seq(SUBSET Int)
        /\ Len(q) \in Nat /\ Len(q) # 0 /\ DOMAIN q = 1 .. Len(q)
        /\ DOMAIN Tail(q) = 1 .. Len(q) - 1 /\ Head(q) = q[1]
        /\ \A i \in 1 .. Len(q) - 1 : Tail(q)[i] = q[i + 1]
    BY <1>1, HeadTailProperties, LenProperties, EmptySeq
  <2>. HIDE DEF q
  <2>2. ASSUME NEW i \in DOMAIN q PROVE q[i] \in {Head(q)} \union ToSet(Tail(q))
    <3>1. CASE i = 1
      BY <3>1, <2>1
    <3>2. CASE i # 1
      <4>1. i - 1 \in DOMAIN Tail(q) /\ Tail(q)[i - 1] = q[i]
        BY <3>2, <2>1
      <4>. QED BY <4>1 DEF ToSet
    <3>. QED BY <3>1, <3>2
  <2>3. ASSUME NEW i \in DOMAIN Tail(q) PROVE Tail(q)[i] \in ToSet(q)
    <3>1. i + 1 \in DOMAIN q /\ q[i + 1] = Tail(q)[i]
      BY <2>1
    <3>. QED BY <3>1 DEF ToSet
  <2>4. Head(q) \in ToSet(q)
    BY <2>1 DEF ToSet
  <2>. QED BY <2>1, <2>2, <2>3, <2>4 DEF ToSet
<1>3. PICK v : v = [client[u] EXCEPT !.queue = Tail(@), !.heard = @ \union Head(client[u].queue)]
  OBVIOUS
<1>4. v \in VisitorType /\ v.pc = "in" /\ v.ch = client[u].ch /\ v.since = client[u].since
      /\ v.queue = Tail(q) /\ v.heard = client[u].heard \union Head(q)
  BY <1>2, <1>3, <1>t DEF VisitorType
<1>5. client' = [client EXCEPT ![u] = v]
      /\ UNCHANGED << disk, calls, rebuilds, channels, registered, absorbed >>
  BY <1>3, <1>t DEF Hear
<1>. HIDE DEF q
<1>6. client'[u] = v
  BY <1>5, <1>t DEF EventsTypeOK
<1>7. Told(u)' = Told(u)
  <2>1. v.heard \union (UNION ToSet(v.queue)) = client[u].heard \union (UNION ToSet(client[u].queue))
    BY <1>2, <1>4 DEF q
  <2>2. {k \in 1 .. MaxChange : << v.ch, k >> \in absorbed'}
        = {k \in 1 .. MaxChange : << client[u].ch, k >> \in absorbed}
    BY <1>4, <1>5
  <2>3. Told(u)' = (v.heard \union (UNION ToSet(v.queue)))
                   \union {k \in 1 .. MaxChange : << v.ch, k >> \in absorbed'}
    BY <1>6 DEF Told
  <2>4. Told(u) = (client[u].heard \union (UNION ToSet(client[u].queue)))
                  \union {k \in 1 .. MaxChange : << client[u].ch, k >> \in absorbed}
    BY DEF Told
  <2>. QED BY <2>1, <2>2, <2>3, <2>4
<1>8. \A d \in DOMAIN channels : channels[d].task = "apply" => channels[d].copy # Unread
  BY DEF EventsInv, SnapshotStays
<1>9. channels' \in Seq(ChannelType) /\ registered' \in {NoChannel} \union DOMAIN channels'
  BY <1>5, <1>t DEF EventsTypeOK
<1>. QED BY <1>t, <1>4, <1>5, <1>7, <1>8, <1>9, VisitorStep

LEMMA UnsubscribeStep ==
  ASSUME EventsInv, NEW u \in Client, Unsubscribe(u)
  PROVE  EventsInv'
<1>t. EventsTypeOK /\ client[u].pc = "in"
      /\ \A d \in DOMAIN channels : channels[d].task = "apply" => channels[d].copy # Unread
  BY DEF EventsInv, Unsubscribe, SnapshotStays
<1>0. UNCHANGED << disk, calls, rebuilds, registered, absorbed >>
  BY DEF Unsubscribe
<1>1. Away \in VisitorType /\ Away.pc = "away"
  BY EmptySeq DEF Away, VisitorType, NoChannel, Unread
<1>2. CASE registered = NoChannel
  <2>1. client' = [client EXCEPT ![u] = Away] /\ UNCHANGED channels
    BY <1>2 DEF Unsubscribe
  <2>2. channels' \in Seq(ChannelType) /\ registered' \in {NoChannel} \union DOMAIN channels'
    BY <2>1, <1>0, <1>t DEF EventsTypeOK
  <2>. QED BY <1>0, <1>1, <1>t, <2>1, <2>2, VisitorStep
<1>3. CASE registered # NoChannel
  <2>1. registered \in DOMAIN channels /\ channels[registered] \in ChannelType /\ registered \in Nat
        /\ channels \in Seq(ChannelType)
    BY <1>3, <1>t, ElementOfSeq, LenProperties DEF EventsTypeOK
  <2>2. PICK rest : rest = channels[registered].subs \ {u}
    OBVIOUS
  <2>3. PICK gone : gone = [Away EXCEPT !.pc = "leaving", !.ch = registered]
    OBVIOUS
  <2>4. gone \in VisitorType /\ gone.pc = "leaving" /\ gone.ch = registered
    BY <2>1, <2>3, <1>1 DEF VisitorType
  <2>5. PICK v \in {Away, gone} : client' = [client EXCEPT ![u] = v]
    BY <1>3, <2>2, <2>3 DEF Unsubscribe
  <2>6. PICK task \in {channels[registered].task, "cancelled"} :
          channels' = [channels EXCEPT ![registered].subs = rest, ![registered].task = task]
    BY <1>3, <2>1, <2>2 DEF Unsubscribe
  <2>7. PICK new : new = [channels[registered] EXCEPT !.subs = rest, !.task = task]
    OBVIOUS
  <2>8. new \in ChannelType /\ new.subs = rest /\ new.task = task
        /\ new.snapshot = channels[registered].snapshot /\ new.copy = channels[registered].copy
    BY <2>1, <2>2, <2>6, <2>7 DEF ChannelType
  <2>9. channels' = [channels EXCEPT ![registered] = new]
    BY <2>1, <2>6, <2>7
  <2>10. channels' \in Seq(ChannelType) /\ DOMAIN channels' = DOMAIN channels /\ channels'[registered] = new
         /\ \A d \in DOMAIN channels \ {registered} : channels'[d] = channels[d]
    BY <2>1, <2>8, <2>9
  <2>11. \A d \in DOMAIN channels :
           /\ channels'[d].snapshot = channels[d].snapshot
           /\ channels'[d].subs \subseteq channels[d].subs \union {u}
           /\ channels'[d].task = "apply" => channels'[d].copy # Unread
    BY <2>2, <2>6, <2>8, <2>10, <1>t
  <2>12. v \in VisitorType /\ v.pc # "in" /\ (v.pc # "away" => v.ch \in DOMAIN channels')
    BY <2>1, <2>4, <2>5, <2>10, <1>1
  <2>13. registered' = registered /\ registered' \in DOMAIN channels'
    BY <2>1, <2>10, <1>0
  <2>. QED BY <1>0, <2>5, <2>10, <2>11, <2>12, <2>13, VisitorStep
<1>. QED BY <1>2, <1>3

LEMMA UnregisterStep ==
  ASSUME EventsInv, NEW u \in Client, Unregister(u)
  PROVE  EventsInv'
<1>1. Away \in VisitorType /\ Away.pc = "away"
  BY EmptySeq DEF Away, VisitorType, NoChannel, Unread
<1>2. /\ registered' = NoChannel /\ client' = [client EXCEPT ![u] = Away]
      /\ UNCHANGED << disk, calls, rebuilds, channels, absorbed >>
  BY DEF Unregister
<1>3. channels' \in Seq(ChannelType)
      /\ \A d \in DOMAIN channels : channels[d].task = "apply" => channels[d].copy # Unread
  BY <1>2 DEF EventsInv, EventsTypeOK, SnapshotStays
<1>. QED BY <1>1, <1>2, <1>3, VisitorStep

\* A batch announces its own change and covers up the others.
LEMMA BatchStep ==
  ASSUME EventsInv, NEW b \in rebuilds, BroadcastBatch(b)
  PROVE  EventsInv'
<1>t. EventsTypeOK /\ b \in [ch : DOMAIN channels, change : Int, copy : Int]
      /\ \A d \in DOMAIN channels : channels[d].task = "apply" => channels[d].copy # Unread
  BY DEF EventsInv, EventsTypeOK, SnapshotStays
<1>1. PICK c \in DOMAIN channels : c = b.ch
  BY <1>t
<1>2. channels[c] \in ChannelType
  BY <1>t, ElementOfSeq, LenProperties DEF EventsTypeOK
<1>3. PICK ch : ch = [channels[c] EXCEPT !.snapshot = b.copy]
  OBVIOUS
<1>4. ch \in ChannelType /\ ch.subs = channels[c].subs /\ ch.snapshot = b.copy
      /\ ch.task = channels[c].task /\ ch.copy = channels[c].copy
  BY <1>2, <1>3, <1>t DEF ChannelType
<1>5. PICK what : what = {b.change}
  OBVIOUS
<1>6. what \in SUBSET Int /\ ch.snapshot # Unread /\ (ch.task = "apply" => ch.copy # Unread)
  BY <1>4, <1>5, <1>t DEF BroadcastBatch
<1>7. Broadcast(c, ch, what) /\ UNCHANGED << disk, calls, registered >> /\ rebuilds' \subseteq rebuilds
  BY <1>1, <1>3, <1>5 DEF BroadcastBatch
<1>8. absorbed' = absorbed \union {<< c, k >> : k \in Between(channels[c].snapshot, ch.snapshot) \ {b.change}}
  BY <1>1, <1>4 DEF BroadcastBatch
<1>9. \A k \in Between(channels[c].snapshot, ch.snapshot) : k \in what \/ << c, k >> \in absorbed'
  BY <1>5, <1>8
<1>. QED BY <1>4, <1>6, <1>7, <1>8, <1>9, SnapshotStep

\* The watcher announces all that its scan has found, and all that it takes back.
LEMMA ApplyStep ==
  ASSUME EventsInv, NEW c \in DOMAIN channels, ApplyScanResult(c)
  PROVE  EventsInv'
<1>t. EventsTypeOK /\ channels[c] \in ChannelType /\ channels[c].task = "apply"
      /\ channels[c].copy # Unread
      /\ \A d \in DOMAIN channels : channels[d].task = "apply" => channels[d].copy # Unread
  BY ElementOfSeq, LenProperties DEF EventsInv, EventsTypeOK, SnapshotStays, ApplyScanResult, At
<1>1. PICK after : after = [channels[c] EXCEPT !.snapshot = channels[c].copy, !.task = "wait", !.ready = TRUE]
  OBVIOUS
<1>2. after \in ChannelType /\ after.subs = channels[c].subs /\ after.snapshot = channels[c].copy
      /\ after.task = "wait"
  BY <1>1, <1>t DEF ChannelType
<1>0. UNCHANGED << disk, calls, rebuilds, registered, absorbed >>
  BY DEF ApplyScanResult
<1>3. CASE channels[c].snapshot \in {Unread, channels[c].copy}
  <2>1. channels' = [channels EXCEPT ![c] = after] /\ UNCHANGED client
    BY <1>1, <1>3 DEF ApplyScanResult
  <2>2. channels' \in Seq(ChannelType) /\ DOMAIN channels' = DOMAIN channels /\ channels'[c] = after
        /\ \A d \in DOMAIN channels \ {c} : channels'[d] = channels[d]
    BY <2>1, <1>2, <1>t DEF EventsTypeOK
  <2>3. EventsTypeOK'
    BY <2>1, <2>2, <1>0, <1>t DEF EventsTypeOK
  <2>4. CASE channels[c].snapshot = channels[c].copy
    <3>1. \A d \in DOMAIN channels :
             /\ channels'[d].snapshot = channels[d].snapshot
             /\ channels'[d].subs \subseteq channels[d].subs
             /\ channels'[d].task = "apply" => channels'[d].copy # Unread
      BY <2>2, <2>4, <1>2, <1>t
    <3>. QED BY <3>1, <2>1, <2>2, <2>3, <1>0, QuietEvent
  <2>5. CASE channels[c].snapshot = Unread
    <3>1. Placed'
      BY <2>1, <2>2 DEF EventsInv, Placed
    <3>2. SnapshotStays'
      BY <2>1, <2>2, <2>5, <1>2, <1>t DEF EventsInv, SnapshotStays, Placed
    <3>3. SnapshotTold'
      <4>. SUFFICES ASSUME NEW u \in Client, Standing(u)'
                    PROVE  (Between(client[u].since, channels[registered].snapshot) \subseteq Told(u))'
        BY DEF SnapshotTold
      <4>1. client[u].ch = registered /\ registered \in DOMAIN channels /\ client[u].pc = "in"
            /\ client[u].since # Unread
        BY <2>1, <1>0 DEF Standing, EventsInv, Placed
      <4>2. registered # c
        BY <4>1, <2>5 DEF EventsInv, SnapshotStays
      <4>3. channels'[registered'] = channels[registered] /\ Standing(u) /\ Told(u)' = Told(u)
        <5>1. channels'[registered'] = channels[registered]
          BY <4>1, <4>2, <2>2, <1>0
        <5>2. Told(u)' = Told(u)
          BY <2>1, <1>0 DEF Told
        <5>. QED BY <5>1, <5>2, <2>1, <1>0 DEF Standing
      <4>. QED BY <4>3, <2>1 DEF EventsInv, SnapshotTold, Between
    <3>. QED BY <2>3, <3>1, <3>2, <3>3 DEF EventsInv
  <2>. QED BY <1>3, <2>4, <2>5
<1>4. CASE channels[c].snapshot \notin {Unread, channels[c].copy}
  <2>1. PICK what : what = Between(channels[c].snapshot, channels[c].copy)
                           \union Between(channels[c].copy, channels[c].snapshot)
    OBVIOUS
  <2>2. Broadcast(c, after, what)
    BY <1>1, <1>4, <2>1 DEF ApplyScanResult
  <2>3. what \in SUBSET Int
    BY <2>1 DEF Between
  <2>4. \A k \in Between(channels[c].snapshot, after.snapshot) : k \in what \/ << c, k >> \in absorbed'
    BY <2>1, <1>2
  <2>. QED BY <2>2, <2>3, <2>4, <1>0, <1>2, <1>t, SnapshotStep
<1>. QED BY <1>3, <1>4

\* The other steps of a watcher.
LEMMA WatcherStep ==
  ASSUME EventsInv, NEW c \in DOMAIN channels, Scan(c) \/ ScanFails(c) \/ WakeUp(c) \/ Stop(c)
  PROVE  EventsInv'
<1>t. EventsTypeOK /\ channels[c] \in ChannelType
      /\ \A d \in DOMAIN channels : channels[d].task = "apply" => channels[d].copy # Unread
  BY ElementOfSeq, LenProperties DEF EventsInv, EventsTypeOK, SnapshotStays
<1>1. UNCHANGED << disk, calls, rebuilds, registered, client, absorbed >>
  BY DEF Scan, ScanFails, WakeUp, Stop
<1>2. \E new \in ChannelType :
        /\ channels' = [channels EXCEPT ![c] = new]
        /\ new.snapshot = channels[c].snapshot /\ new.subs = channels[c].subs
        /\ new.task = "apply" => new.copy # Unread
  <2>1. CASE Scan(c)
    <3>1. PICK new : new = [channels[c] EXCEPT !.task = "apply", !.copy = disk]
      OBVIOUS
    <3>2. new \in ChannelType /\ new.snapshot = channels[c].snapshot /\ new.subs = channels[c].subs
          /\ new.copy # Unread
      <4>1. disk \in Int /\ disk # Unread
        BY <1>t DEF EventsTypeOK, Unread
      <4>. QED BY <4>1, <3>1, <1>t DEF ChannelType
    <3>3. channels' = [channels EXCEPT ![c] = new]
      BY <2>1, <3>1 DEF Scan
    <3>. QED BY <3>2, <3>3
  <2>2. CASE ScanFails(c)
    <3>1. PICK new : new = [channels[c] EXCEPT !.task = "wait", !.ready = TRUE]
      OBVIOUS
    <3>2. new \in ChannelType /\ new.snapshot = channels[c].snapshot /\ new.subs = channels[c].subs
          /\ new.task = "wait"
      BY <3>1, <1>t DEF ChannelType
    <3>3. channels' = [channels EXCEPT ![c] = new]
      BY <2>2, <3>1 DEF ScanFails
    <3>. QED BY <3>2, <3>3
  <2>3. CASE WakeUp(c)
    <3>0. PICK task \in {"done", "scan"} : channels' = [channels EXCEPT ![c].task = task]
      BY <2>3 DEF WakeUp
    <3>1. PICK new : new = [channels[c] EXCEPT !.task = task]
      OBVIOUS
    <3>2. new \in ChannelType /\ new.snapshot = channels[c].snapshot /\ new.subs = channels[c].subs
          /\ new.task = task
      BY <3>1, <1>t DEF ChannelType
    <3>3. channels' = [channels EXCEPT ![c] = new]
      BY <3>0, <3>1
    <3>. QED BY <3>2, <3>3
  <2>4. CASE Stop(c)
    <3>1. PICK new : new = [channels[c] EXCEPT !.task = "done", !.ready = TRUE]
      OBVIOUS
    <3>2. new \in ChannelType /\ new.snapshot = channels[c].snapshot /\ new.subs = channels[c].subs
          /\ new.task = "done"
      BY <3>1, <1>t DEF ChannelType
    <3>3. channels' = [channels EXCEPT ![c] = new]
      BY <2>4, <3>1 DEF Stop
    <3>. QED BY <3>2, <3>3
  <2>. QED BY <2>1, <2>2, <2>3, <2>4
<1>3. PICK new \in ChannelType :
        /\ channels' = [channels EXCEPT ![c] = new]
        /\ new.snapshot = channels[c].snapshot /\ new.subs = channels[c].subs
        /\ new.task = "apply" => new.copy # Unread
  BY <1>2
<1>4. channels' \in Seq(ChannelType) /\ DOMAIN channels' = DOMAIN channels /\ channels'[c] = new
      /\ \A d \in DOMAIN channels \ {c} : channels'[d] = channels[d]
  BY <1>3, <1>t DEF EventsTypeOK
<1>5. EventsTypeOK'
  BY <1>1, <1>4, <1>t DEF EventsTypeOK
<1>6. \A d \in DOMAIN channels :
         /\ channels'[d].snapshot = channels[d].snapshot
         /\ channels'[d].subs \subseteq channels[d].subs
         /\ channels'[d].task = "apply" => channels'[d].copy # Unread
  BY <1>3, <1>4, <1>t
<1>. QED BY <1>1, <1>4, <1>5, <1>6, QuietEvent

\* Changes, and what becomes of a batch before its snapshot is read.
LEMMA BatchBegins ==
  ASSUME EventsInv,
         \/ \E emits \in BOOLEAN : Change(emits)
         \/ ApplyEmittedBatch
         \/ \E b \in rebuilds : RebuildSnapshot(b)
         \/ UNCHANGED events
  PROVE  EventsInv'
<1>t. EventsTypeOK /\ \A d \in DOMAIN channels : channels[d].task = "apply" => channels[d].copy # Unread
  BY DEF EventsInv, SnapshotStays
<1>1. UNCHANGED << channels, registered, client, absorbed >>
  BY DEF Change, ApplyEmittedBatch, RebuildSnapshot, events
<1>. DEFINE Sound ==
             /\ disk' \in Nat /\ calls' \in Seq(Int)
             /\ \A b \in rebuilds' : b \in [ch : DOMAIN channels, change : Int, copy : Int]
<1>2. Sound
  <2>1. ASSUME NEW emits \in BOOLEAN, Change(emits) PROVE Sound
    <3>1. disk + 1 \in Nat /\ Append(calls, disk + 1) \in Seq(Int)
      BY <1>t, AppendProperties DEF EventsTypeOK
    <3>. QED BY <3>1, <2>1, <1>t DEF Change, EventsTypeOK
  <2>2. CASE ApplyEmittedBatch
    <3>1. calls # << >> /\ calls \in Seq(Int) /\ calls' = Tail(calls) /\ disk' = disk
      BY <2>2, <1>t DEF ApplyEmittedBatch, EventsTypeOK
    <3>2. Head(calls) \in Int /\ Tail(calls) \in Seq(Int)
      BY <3>1, HeadTailProperties
    <3>3. ASSUME registered # NoChannel
          PROVE  [ch |-> registered, change |-> Head(calls), copy |-> Unread]
                 \in [ch : DOMAIN channels, change : Int, copy : Int]
      BY <3>2, <3>3, <1>t DEF EventsTypeOK, Unread
    <3>. QED BY <3>1, <3>2, <3>3, <2>2, <1>t DEF ApplyEmittedBatch, EventsTypeOK
  <2>3. ASSUME NEW b \in rebuilds, RebuildSnapshot(b) PROVE Sound
    <3>1. b \in [ch : DOMAIN channels, change : Int, copy : Int] /\ disk \in Nat
      BY <1>t DEF EventsTypeOK
    <3>2. PICK n : n = [b EXCEPT !.copy = disk]
      OBVIOUS
    <3>3. n \in [ch : DOMAIN channels, change : Int, copy : Int]
      BY <3>1, <3>2
    <3>4. rebuilds' = (rebuilds \ {b}) \union {n} /\ UNCHANGED << disk, calls >>
      BY <2>3, <3>2 DEF RebuildSnapshot
    <3>. QED BY <3>3, <3>4, <1>t DEF EventsTypeOK
  <2>4. CASE UNCHANGED events
    BY <2>4, <1>t DEF events, EventsTypeOK
  <2>. QED BY <2>1, <2>2, <2>3, <2>4
<1>3. EventsTypeOK'
  BY <1>1, <1>2, <1>t DEF EventsTypeOK
<1>. QED BY <1>1, <1>3, <1>t, QuietEvent

\* A subscriber in standing has been told of every change that went into the snapshot since
\* its answer, by the watcher or by a batch, but for those that a batch covers up: for any
\* number of clients, channels and changes, however queues fill and subscribers come and go.
THEOREM SubscribersAreTold == EventsSpec => []SnapshotTold
<1>1. EventsInv => SnapshotTold
  BY DEF EventsInv
<1>2. EventsInv /\ [EventsNext]_events => EventsInv'
  <2>. SUFFICES ASSUME EventsInv, [EventsNext]_events PROVE EventsInv'
    OBVIOUS
  <2>1. ASSUME NEW u \in Client, Visitor(u) PROVE EventsInv'
    BY <2>1, SubscribeStep, AnsweredStep, HearStep, UnsubscribeStep, UnregisterStep DEF Visitor
  <2>2. ASSUME NEW c \in DOMAIN channels, Scan(c) \/ ScanFails(c) \/ Watch(c) PROVE EventsInv'
    BY <2>2, ApplyStep, WatcherStep DEF Watch
  <2>3. CASE Rebuild
    BY <2>3, BatchStep, BatchBegins DEF Rebuild
  <2>4. CASE (\E emits \in BOOLEAN : Change(emits)) \/ ApplyEmittedBatch \/ UNCHANGED events
    BY <2>4, BatchBegins
  <2>. QED BY <2>1, <2>2, <2>3, <2>4 DEF EventsNext
<1>. QED BY <1>1, <1>2, BeginEvents, PTL DEF EventsSpec

---------------------------------------------------------------------------------
(* The stream of a session and its history.                                  *)

Msg == Int \X {"user", "assistant", "result", "delta", "status", "overflow"}
ViewerType == [pc : {"closed", "reading", "live"}, in : BOOLEAN, queue : Seq(Msg), shown : SUBSET Msg]

FeedTypeOK ==
  /\ round \in Int /\ buffer \in Seq(Msg)
  /\ stored \subseteq Msg /\ emitted \subseteq Msg
  /\ viewer \in [Viewer -> ViewerType]
  /\ reader \in [pc : {"idle", "reading"}, history : SUBSET Msg, quiet : BOOLEAN]
  /\ cache \in [there : BOOLEAN, shown : SUBSET Msg, quiet : BOOLEAN]

\* Every message of the conversation is in the transcript or in the buffer, or else it is
\* one the buffer let go early.
Reachable == Groupable(emitted) \subseteq early \union stored \union ToSet(buffer)

\* What a viewer who follows has, and, as long as it has not read it, what the transcript has.
Has(v) == viewer[v].shown \union ToSet(viewer[v].queue)
            \union (IF viewer[v].pc = "reading" THEN stored ELSE {})

Follows(v) == viewer[v].in => viewer[v].pc # "closed" /\ Groupable(emitted) \ early \subseteq Has(v)

\* A snapshot kept while nothing went on is kept only until a message is sent.
KeptWhole == cache.there /\ cache.quiet => turn = "rest" /\ Groupable(emitted) \subseteq cache.shown

FeedInv == FeedTypeOK /\ Reachable /\ (\A v \in Viewer : Follows(v)) /\ KeptWhole

\* A sequence without one of its elements.
LEMMA RemoveAtKeeps ==
  ASSUME NEW S, NEW s \in Seq(S), NEW i \in 1 .. Len(s)
  PROVE  /\ RemoveAt(s, i) \in Seq(S)
         /\ Len(RemoveAt(s, i)) = Len(s) - 1
         /\ \A j \in 1 .. Len(s) : j # i => s[j] \in ToSet(RemoveAt(s, i))
<1>. DEFINE a == SubSeq(s, 1, i - 1)
            b == SubSeq(s, i + 1, Len(s))
<1>0. Len(s) \in Nat /\ \A j \in 1 .. Len(s) : s[j] \in S
  BY ElementOfSeq, LenProperties
<1>1. /\ a \in Seq(S) /\ Len(a) = i - 1
      /\ \A j \in 1 .. i - 1 : a[j] = s[j]
  <2>1. 1 \in Int /\ i - 1 \in Int /\ \A j \in 1 .. i - 1 : s[j] \in S
    BY <1>0
  <2>2. /\ a \in Seq(S) /\ Len(a) = IF 1 <= i - 1 THEN (i - 1) - 1 + 1 ELSE 0
        /\ \A j \in 1 .. (i - 1) - 1 + 1 : a[j] = s[1 + j - 1]
    BY <2>1, SubSeqProperties
  <2>. HIDE DEF a
  <2>. QED BY <2>2, <1>0
<1>2. /\ b \in Seq(S) /\ Len(b) = Len(s) - i
      /\ \A j \in 1 .. Len(s) - i : b[j] = s[j + i]
  <2>1. i + 1 \in Int /\ Len(s) \in Int /\ \A j \in i + 1 .. Len(s) : s[j] \in S
    BY <1>0
  <2>2. /\ b \in Seq(S) /\ Len(b) = IF i + 1 <= Len(s) THEN Len(s) - (i + 1) + 1 ELSE 0
        /\ \A j \in 1 .. Len(s) - (i + 1) + 1 : b[j] = s[(i + 1) + j - 1]
    BY <2>1, SubSeqProperties
  <2>3. \A j \in 1 .. Len(s) - i : j \in 1 .. Len(s) - (i + 1) + 1 /\ (i + 1) + j - 1 = j + i
    BY <1>0
  <2>. HIDE DEF b
  <2>. QED BY SMTT(30), <2>2, <2>3, <1>0
<1>3. RemoveAt(s, i) = a \o b
  BY DEF RemoveAt
<1>. HIDE DEF a, b
<1>4. /\ a \o b \in Seq(S) /\ Len(a \o b) = Len(a) + Len(b)
      /\ \A j \in 1 .. Len(a) + Len(b) : (a \o b)[j] = IF j <= Len(a) THEN a[j] ELSE b[j - Len(a)]
  BY <1>1, <1>2, ConcatProperties
<1>5. Len(a \o b) = Len(s) - 1 /\ DOMAIN (a \o b) = 1 .. Len(s) - 1
  BY <1>0, <1>1, <1>2, <1>4, LenProperties
<1>6. ASSUME NEW j \in 1 .. Len(s), j # i PROVE s[j] \in ToSet(a \o b)
  <2>1. CASE j < i
    <3>1. j \in 1 .. Len(s) - 1 /\ j \in 1 .. Len(a) + Len(b) /\ j <= Len(a) /\ j \in 1 .. i - 1
      BY <2>1, <1>0, <1>1, <1>2
    <3>2. (a \o b)[j] = s[j]
      BY <3>1, <1>1, <1>4
    <3>. QED BY <3>1, <3>2, <1>5 DEF ToSet
  <2>2. CASE i < j
    <3>1. /\ j - 1 \in 1 .. Len(s) - 1 /\ j - 1 \in 1 .. Len(a) + Len(b) /\ ~(j - 1 <= Len(a))
          /\ (j - 1) - Len(a) = j - i /\ j - i \in 1 .. Len(s) - i /\ (j - i) + i = j
      BY <2>2, <1>0, <1>1, <1>2
    <3>2. (a \o b)[j - 1] = s[j]
      BY <3>1, <1>2, <1>4
    <3>. QED BY <3>1, <3>2, <1>5 DEF ToSet
  <2>. QED BY <2>1, <2>2, <1>6, <1>0
<1>. QED BY <1>3, <1>4, <1>5, <1>6

\* The place of the first element of a kind, if there is one.
LEMMA LeastPlace ==
  ASSUME NEW M \in Nat, NEW I \in SUBSET (1 .. M)
  PROVE  (IF I # {} THEN Min(I) ELSE 0) \in I \union {0}
         /\ ((IF I # {} THEN Min(I) ELSE 0) = 0 => I = {})
<1>1. CASE I # {}
  <2>1. \E x \in I : \A y \in I : x =< y
    BY <1>1, LeastNumber
  <2>2. Min(I) \in I
    BY <2>1 DEF Min
  <2>. QED BY <2>2, <1>1
<1>. QED BY <1>1

\* An appended element joins those that were there.
LEMMA AppendSet ==
  ASSUME NEW S, NEW s \in Seq(S), NEW x \in S
  PROVE  Append(s, x) \in Seq(S) /\ ToSet(Append(s, x)) = ToSet(s) \union {x}
<1>1. /\ Append(s, x) \in Seq(S) /\ Len(s) \in Nat
      /\ DOMAIN s = 1 .. Len(s) /\ DOMAIN Append(s, x) = 1 .. (Len(s) + 1)
      /\ \A i \in 1 .. Len(s) : Append(s, x)[i] = s[i]
      /\ Append(s, x)[Len(s) + 1] = x
  BY AppendProperties, LenProperties
<1>. QED BY <1>1 DEF ToSet

\* The buffer takes the message; it may have to let go another one.
LEMMA BufferTakes ==
  ASSUME buffer \in Seq(Msg), NEW m \in Msg
  PROVE  Buffered(m) \in Seq(Msg) /\ m \in ToSet(Buffered(m))
<1>. DEFINE ms == Append(buffer, m)
            I == {k \in 1 .. Len(ms) - 1 : Transient(ms[k])}
            i == SelectInSubSeq(ms, 1, Len(ms) - 1, Transient)
            at == IF i = 0 THEN 1 ELSE i
<1>1. /\ ms \in Seq(Msg) /\ Len(buffer) \in Nat /\ Len(ms) = Len(buffer) + 1 /\ ms[Len(ms)] = m
      /\ DOMAIN ms = 1 .. Len(ms)
  BY AppendProperties, LenProperties
<1>2. m \in ToSet(ms)
  <2>. HIDE DEF ms
  <2>. QED BY <1>1 DEF ToSet
<1>3. CASE Len(ms) > BufferSize
  <2>1. i = IF I # {} THEN Min(I) ELSE 0
    BY DEF SelectInSubSeq
  <2>2. i \in I \union {0}
    <3>1. Len(ms) - 1 \in Nat /\ I \in SUBSET (1 .. Len(ms) - 1)
      BY <1>1
    <3>. HIDE DEF I, i
    <3>. QED BY <2>1, <3>1, LeastPlace
  <2>3. at \in 1 .. Len(ms) /\ at # Len(ms)
    <3>1. I \subseteq 1 .. Len(ms) - 1
      OBVIOUS
    <3>. HIDE DEF I, i, ms
    <3>. QED BY <2>2, <3>1, <1>1, <1>3, BufferFits
  <2>4. Buffered(m) = RemoveAt(ms, at)
    BY <1>3 DEF Buffered, Evicted
  <2>. HIDE DEF ms, at
  <2>5. RemoveAt(ms, at) \in Seq(Msg) /\ ms[Len(ms)] \in ToSet(RemoveAt(ms, at))
    BY <1>1, <2>3, RemoveAtKeeps
  <2>. QED BY <2>4, <2>5, <1>1
<1>4. CASE ~(Len(ms) > BufferSize)
  BY <1>4, <1>1, <1>2 DEF Buffered
<1>. QED BY <1>3, <1>4

\* Room in a queue is made by what the conversation does without.
LEMMA RoomKeeps ==
  ASSUME NEW q \in Seq(Msg)
  PROVE  Room(q) \in Seq(Msg) /\ \A x \in ToSet(q) : ~Transient(x) => x \in ToSet(Room(q))
<1>. DEFINE I == {k \in 1 .. Len(q) : Transient(q[k])}
            i == SelectInSeq(q, Transient)
<1>1. Len(q) \in Nat /\ DOMAIN q = 1 .. Len(q)
  BY LenProperties
<1>2. i = IF I # {} THEN Min(I) ELSE 0
  BY DEF SelectInSeq
<1>3. i \in I \union {0}
  <2>1. I \in SUBSET (1 .. Len(q))
    OBVIOUS
  <2>. HIDE DEF I, i
  <2>. QED BY <2>1, <1>1, <1>2, LeastPlace
<1>4. Room(q) = IF i = 0 THEN q ELSE RemoveAt(q, i)
  BY DEF Room
<1>5. i # 0 => i \in 1 .. Len(q) /\ Transient(q[i])
  <2>1. \A k \in I : k \in 1 .. Len(q) /\ Transient(q[k])
    OBVIOUS
  <2>. HIDE DEF I, i
  <2>. QED BY <1>3, <2>1
<1>. HIDE DEF I, i
<1>6. CASE i = 0
  BY <1>4, <1>6
<1>7. CASE i # 0
  <2>1. /\ RemoveAt(q, i) \in Seq(Msg)
        /\ \A j \in 1 .. Len(q) : j # i => q[j] \in ToSet(RemoveAt(q, i))
    BY <1>5, <1>7, RemoveAtKeeps
  <2>2. ASSUME NEW x \in ToSet(q), ~Transient(x) PROVE x \in ToSet(RemoveAt(q, i))
    <3>1. PICK j \in 1 .. Len(q) : x = q[j]
      BY <1>1 DEF ToSet
    <3>2. j # i
      BY <3>1, <2>2, <1>5, <1>7
    <3>. QED BY <3>1, <3>2, <2>1
  <2>. QED BY <2>1, <2>2, <1>4, <1>7
<1>. QED BY <1>6, <1>7

\* A viewer who still follows when a message has been offered has it, unless it is one of
\* those the conversation does without, and whatever it had.
LEMMA OfferedKeeps ==
  ASSUME NEW v \in ViewerType, NEW m \in Msg
  PROVE  /\ Offered(v, m) \in ViewerType
         /\ Offered(v, m).in =>
              /\ v.in /\ Offered(v, m).pc = v.pc /\ Offered(v, m).shown = v.shown
              /\ \A x \in ToSet(v.queue) \union {m} : ~Transient(x) => x \in ToSet(Offered(v, m).queue)
<1>q. v.queue \in Seq(Msg) /\ v.pc \in {"closed", "reading", "live"} /\ v.in \in BOOLEAN /\ v.shown \in SUBSET Msg
  BY DEF ViewerType
<1>l. Len(v.queue) \in Int /\ QueueSize \in Int
  BY <1>q, LenProperties, BufferFits
<1>1. CASE ~v.in
  BY <1>1 DEF Offered
<1>2. ASSUME v.in, Len(v.queue) < QueueSize \/ (~Transient(m) /\ Len(Room(v.queue)) < QueueSize)
      PROVE  \E q \in Seq(Msg) : /\ Offered(v, m) = [v EXCEPT !.queue = q]
                                 /\ \A x \in ToSet(v.queue) \union {m} : ~Transient(x) => x \in ToSet(q)
  <2>1. CASE Len(v.queue) < QueueSize
    <3>1. Offered(v, m) = [v EXCEPT !.queue = Append(v.queue, m)]
      BY <1>2, <2>1, <1>l DEF Offered
    <3>2. Append(v.queue, m) \in Seq(Msg) /\ ToSet(Append(v.queue, m)) = ToSet(v.queue) \union {m}
      BY <1>q, AppendSet
    <3>. QED BY <3>1, <3>2
  <2>2. CASE ~(Len(v.queue) < QueueSize)
    <3>1. Len(v.queue) >= QueueSize /\ ~Transient(m) /\ Len(Room(v.queue)) < QueueSize
      BY <1>2, <2>2, <1>l
    <3>2. Offered(v, m) = [v EXCEPT !.queue = Append(Room(v.queue), m)]
      BY <1>2, <2>2, <3>1 DEF Offered
    <3>3. Room(v.queue) \in Seq(Msg) /\ \A x \in ToSet(v.queue) : ~Transient(x) => x \in ToSet(Room(v.queue))
      BY <1>q, RoomKeeps
    <3>4. Append(Room(v.queue), m) \in Seq(Msg)
          /\ ToSet(Append(Room(v.queue), m)) = ToSet(Room(v.queue)) \union {m}
      BY <3>3, AppendSet
    <3>. QED BY <3>2, <3>3, <3>4
  <2>. QED BY <2>1, <2>2
<1>3. CASE v.in /\ (Len(v.queue) < QueueSize \/ (~Transient(m) /\ Len(Room(v.queue)) < QueueSize))
  <2>1. PICK q \in Seq(Msg) : /\ Offered(v, m) = [v EXCEPT !.queue = q]
                              /\ \A x \in ToSet(v.queue) \union {m} : ~Transient(x) => x \in ToSet(q)
    BY <1>2, <1>3
  <2>2. PICK w : w = [v EXCEPT !.queue = q]
    OBVIOUS
  <2>3. w \in ViewerType /\ w.in = v.in /\ w.pc = v.pc /\ w.shown = v.shown /\ w.queue = q
    BY <2>2 DEF ViewerType
  <2>. QED BY <2>1, <2>2, <2>3, <1>3
<1>4. CASE v.in /\ Len(v.queue) >= QueueSize /\ Transient(m)
  <2>1. Offered(v, m) = v
    BY <1>4, <1>l DEF Offered
  <2>. QED BY <2>1, <1>4
<1>5. CASE v.in /\ Len(v.queue) >= QueueSize /\ ~Transient(m) /\ ~(Len(Room(v.queue)) < QueueSize)
  <2>1. Offered(v, m) = [v EXCEPT !.queue = << Overflow >>, !.in = FALSE]
    BY <1>5, <1>l DEF Offered
  <2>2. PICK q : q = << Overflow >>
    OBVIOUS
  <2>3. q \in Seq(Msg)
    <3>1. Overflow \in Msg
      BY DEF Overflow, Msg
    <3>. QED BY <2>2, <3>1
  <2>4. PICK w : w = [v EXCEPT !.queue = q, !.in = FALSE]
    OBVIOUS
  <2>5. w \in ViewerType /\ ~w.in /\ w.pc = v.pc
    BY <2>3, <2>4 DEF ViewerType
  <2>. QED BY <2>1, <2>2, <2>4, <2>5
<1>. QED BY <1>1, <1>3, <1>4, <1>5, <1>l, <1>q
\* A further message is offered to every viewer: who then follows follows still.
LEMMA AllOffered ==
  ASSUME NEW before \in [Viewer -> ViewerType], NEW m \in Msg,
         viewer' = [v \in Viewer |-> Offered(before[v], m)],
         \A v \in Viewer : before[v].in =>
           /\ before[v].pc # "closed"
           /\ Groupable(emitted) \ early \subseteq before[v].shown \union ToSet(before[v].queue)
                \union (IF before[v].pc = "reading" THEN stored ELSE {}),
         emitted' = emitted \union {m}, early \subseteq early', stored' = stored
  PROVE  viewer' \in [Viewer -> ViewerType] /\ \A v \in Viewer : Follows(v)'
<1>1. ASSUME NEW v \in Viewer PROVE viewer'[v] \in ViewerType /\ Follows(v)'
  <2>1. before[v] \in ViewerType /\ viewer'[v] = Offered(before[v], m)
    OBVIOUS
  <2>2. viewer'[v] \in ViewerType
    BY <2>1, OfferedKeeps
  <2>3. ASSUME viewer'[v].in
        PROVE  viewer'[v].pc # "closed" /\ Groupable(emitted') \ early' \subseteq Has(v)'
    <3>1. /\ before[v].in /\ viewer'[v].pc = before[v].pc /\ viewer'[v].shown = before[v].shown
          /\ \A x \in ToSet(before[v].queue) \union {m} : ~Transient(x) => x \in ToSet(viewer'[v].queue)
      BY <2>1, <2>3, OfferedKeeps
    <3>2. ASSUME NEW x \in Groupable(emitted'), x \notin early'
          PROVE  x \in Has(v)'
      <4>1. ~Transient(x) /\ (x = m \/ x \in Groupable(emitted) \ early)
        BY <3>2 DEF Groupable, Transient
      <4>2. CASE x = m
        BY <4>1, <4>2, <3>1 DEF Has
      <4>3. CASE x \in Groupable(emitted) \ early
        <5>1. x \in before[v].shown \union ToSet(before[v].queue)
                \union (IF before[v].pc = "reading" THEN stored ELSE {})
          BY <4>3, <3>1
        <5>. QED BY <5>1, <4>1, <3>1 DEF Has
      <4>. QED BY <4>1, <4>2, <4>3
    <3>. QED BY <3>1, <3>2
  <2>. QED BY <2>2, <2>3 DEF Follows
<1>2. viewer' \in [Viewer -> ViewerType]
  BY <1>1
<1>. QED BY <1>1, <1>2

\* What leaves the buffer and is not in the transcript has been let go.
LEMMA StaysReachable ==
  ASSUME Reachable, NEW ms, NEW m,
         buffer' = ms, early' = early \union LetGo(ms), stored' = stored,
         emitted' = emitted \union {m}, m \in ToSet(ms) \/ m \in emitted
  PROVE  Reachable'
<1>. SUFFICES ASSUME NEW x \in Groupable(emitted') PROVE x \in early' \union stored' \union ToSet(buffer')
  BY DEF Reachable
<1>1. (x = m /\ m \in ToSet(ms)) \/ x \in Groupable(emitted)
  BY DEF Groupable
<1>2. ASSUME x \in Groupable(emitted), x \notin early, x \notin stored, x \notin ToSet(ms) PROVE x \in LetGo(ms)
  BY <1>2 DEF Reachable, LetGo, Groupable
<1>. QED BY <1>1, <1>2

LEMMA FeedAdds ==
  ASSUME FeedInv, NEW m \in Msg, AddMessage(m), stored' = stored, reader' = reader, cache' = cache,
         turn # "rest", round' = round
  PROVE  FeedInv'
<1>t. /\ FeedTypeOK /\ buffer \in Seq(Msg) /\ viewer \in [Viewer -> ViewerType] /\ emitted \subseteq Msg
      /\ cache \in [there : BOOLEAN, shown : SUBSET Msg, quiet : BOOLEAN]
  BY DEF FeedInv, FeedTypeOK
<1>1. /\ buffer' = Buffered(m) /\ early' = early \union LetGo(Buffered(m)) /\ emitted' = emitted \union {m}
      /\ viewer' = [v \in Viewer |-> Offered(viewer[v], m)]
  BY DEF AddMessage
<1>2. Buffered(m) \in Seq(Msg) /\ m \in ToSet(Buffered(m))
  BY <1>t, BufferTakes
<1>3. Reachable'
  BY <1>1, <1>2, StaysReachable DEF FeedInv
<1>4. \A v \in Viewer : viewer[v].in =>
        /\ viewer[v].pc # "closed"
        /\ Groupable(emitted) \ early \subseteq viewer[v].shown \union ToSet(viewer[v].queue)
             \union (IF viewer[v].pc = "reading" THEN stored ELSE {})
  BY DEF FeedInv, Follows, Has
<1>5. early \subseteq early'
  BY <1>1
<1>6. viewer' \in [Viewer -> ViewerType] /\ \A v \in Viewer : Follows(v)'
  BY <1>t, <1>1, <1>4, <1>5, AllOffered
<1>7. KeptWhole'
  BY DEF FeedInv, KeptWhole
<1>8. FeedTypeOK'
  BY <1>t, <1>1, <1>2, <1>6 DEF FeedTypeOK
<1>. QED BY <1>3, <1>6, <1>7, <1>8 DEF FeedInv

LEMMA InitFeed == FeedInit => FeedInv
<1>. SUFFICES ASSUME FeedInit PROVE FeedInv
  OBVIOUS
<1>1. NotOpen \in ViewerType
  BY DEF NotOpen, ViewerType
<1>2. FeedTypeOK
  BY <1>1 DEF FeedInit, FeedTypeOK, NoRead
<1>3. Reachable /\ KeptWhole
  BY DEF FeedInit, Reachable, Groupable, KeptWhole
<1>4. \A v \in Viewer : Follows(v)
  BY DEF FeedInit, Follows, NotOpen
<1>. QED BY <1>2, <1>3, <1>4 DEF FeedInv

LEMMA FeedStep ==
  ASSUME FeedInv, FeedNext
  PROVE  FeedInv'
<1>t. /\ FeedTypeOK /\ Reachable /\ (\A v \in Viewer : Follows(v)) /\ KeptWhole
      /\ round \in Int /\ buffer \in Seq(Msg) /\ stored \subseteq Msg /\ emitted \subseteq Msg
      /\ viewer \in [Viewer -> ViewerType]
      /\ reader \in [pc : {"idle", "reading"}, history : SUBSET Msg, quiet : BOOLEAN]
      /\ cache \in [there : BOOLEAN, shown : SUBSET Msg, quiet : BOOLEAN]
  BY DEF FeedInv, FeedTypeOK
<1>1. CASE Send
  <2>. DEFINE opened == IF turn = "dead" THEN [v \in Viewer |-> [viewer[v] EXCEPT !.in = FALSE]] ELSE viewer
              echo == << round + 1, "user" >>
  <2>1. /\ round' = round + 1 /\ turn' = "sending" /\ cache' = [cache EXCEPT !.there = FALSE, !.shown = {}]
        /\ buffer' = << echo >> /\ early' = early \union LetGo(<< >>) /\ emitted' = emitted \union {echo}
        /\ viewer' = [v \in Viewer |-> Offered(opened[v], echo)]
        /\ stored' = stored /\ reader' = reader
    BY <1>1 DEF Send, Uncached
  <2>echo. echo \in Msg
    BY <1>t DEF Msg
  <2>opened. opened \in [Viewer -> ViewerType] /\ \A v \in Viewer : opened[v].in => opened[v] = viewer[v]
    <3>1. CASE turn = "dead"
      <4>1. \A v \in Viewer : [viewer[v] EXCEPT !.in = FALSE] \in ViewerType
                              /\ ~[viewer[v] EXCEPT !.in = FALSE].in
        BY <1>t DEF ViewerType
      <4>. QED BY <3>1, <4>1
    <3>2. CASE turn # "dead"
      BY <3>2, <1>t
    <3>. QED BY <3>1, <3>2
  <2>. HIDE DEF opened, echo
  <2>queues. \A v \in Viewer : opened[v].in =>
               /\ opened[v].pc # "closed"
               /\ Groupable(emitted) \ early \subseteq opened[v].shown \union ToSet(opened[v].queue)
                    \union (IF opened[v].pc = "reading" THEN stored ELSE {})
    BY <2>opened, <1>t DEF Follows, Has
  <2>early. early \subseteq early'
    BY <2>1
  <2>6. viewer' \in [Viewer -> ViewerType] /\ \A v \in Viewer : Follows(v)'
    BY <2>1, <2>echo, <2>opened, <2>queues, <2>early, AllOffered
  <2>7. << echo >> \in Seq(Msg) /\ ToSet(<< echo >>) = {echo}
    BY <2>echo DEF ToSet
  <2>8. Reachable'
    <3>. SUFFICES ASSUME NEW x \in Groupable(emitted'), x # echo PROVE x \in early' \union stored'
      BY <2>1, <2>7 DEF Reachable
    <3>1. x \in Groupable(emitted)
      BY <2>1 DEF Groupable
    <3>2. ToSet(<< >>) = {}
      BY DEF ToSet
    <3>. QED BY <3>1, <3>2, <2>1, <1>t DEF Reachable, LetGo, Groupable
  <2>9. cache' \in [there : BOOLEAN, shown : SUBSET Msg, quiet : BOOLEAN] /\ ~cache'.there
    BY <2>1, <1>t
  <2>10. FeedTypeOK' /\ KeptWhole'
    BY <2>1, <2>echo, <2>6, <2>7, <2>9, <1>t DEF FeedTypeOK, KeptWhole
  <2>. QED BY <2>6, <2>8, <2>10 DEF FeedInv
<1>2. CASE SendQuery \/ SettleStatus
  <2>1. /\ UNCHANGED round /\ UNCHANGED buffer /\ UNCHANGED stored /\ UNCHANGED emitted /\ UNCHANGED early
        /\ UNCHANGED viewer /\ UNCHANGED reader /\ UNCHANGED cache /\ turn # "rest"
    BY <1>2 DEF SendQuery, SettleStatus
  <2>. QED BY <2>1, <1>t DEF FeedInv, FeedTypeOK, Reachable, Follows, Has, KeptWhole
<1>3. CASE \E kind \in {"delta", "assistant", "result"} : Emit(kind)
  <2>1. PICK kind \in {"delta", "assistant", "result"} : Emit(kind)
    BY <1>3
  <2>2. PICK m : m = << round, kind >>
    OBVIOUS
  <2>3. m \in Msg
    BY <2>2, <1>t DEF Msg
  <2>4. AddMessage(m) /\ stored' = stored /\ reader' = reader /\ cache' = cache /\ turn # "rest" /\ round' = round
    BY <2>1, <2>2 DEF Emit
  <2>. QED BY <2>3, <2>4, FeedAdds
<1>4. CASE SettleBuffer \/ LatePrune
  <2>1. /\ buffer' = << >> /\ early' = early \union LetGo(<< >>) /\ turn # "rest"
        /\ UNCHANGED round /\ UNCHANGED stored /\ UNCHANGED emitted
        /\ UNCHANGED viewer /\ UNCHANGED reader /\ UNCHANGED cache
    BY <1>4 DEF SettleBuffer, LatePrune, Prune
  <2>2. Reachable'
    <3>. SUFFICES ASSUME NEW x \in Groupable(emitted) PROVE x \in early' \union stored
      BY <2>1 DEF Reachable
    <3>1. ToSet(<< >>) = {}
      BY DEF ToSet
    <3>. QED BY <3>1, <2>1, <1>t DEF Reachable, LetGo, Groupable
  <2>3. << >> \in Seq(Msg)
    OBVIOUS
  <2>4. FeedTypeOK'
    BY <2>1, <2>3, <1>t DEF FeedTypeOK
  <2>5. (\A v \in Viewer : Follows(v)') /\ KeptWhole'
    BY <2>1, <1>t DEF Follows, Has, KeptWhole
  <2>. QED BY <2>2, <2>4, <2>5 DEF FeedInv
<1>5. CASE \E m \in emitted : Store(m)
  <2>1. PICK m \in emitted : Store(m)
    BY <1>5
  <2>2. /\ stored' = stored \union {m}
        /\ UNCHANGED round /\ UNCHANGED buffer /\ UNCHANGED emitted /\ UNCHANGED early /\ UNCHANGED turn
        /\ UNCHANGED viewer /\ UNCHANGED reader /\ UNCHANGED cache
    BY <2>1 DEF Store
  <2>3. FeedTypeOK' /\ Reachable' /\ KeptWhole'
    BY <2>2, <1>t DEF FeedTypeOK, Reachable, KeptWhole
  <2>4. \A v \in Viewer : Follows(v)'
    BY <2>2, <1>t DEF Follows, Has
  <2>. QED BY <2>3, <2>4 DEF FeedInv
<1>6. CASE ActorDies
  <2>1. PICK m : m = << round, "status" >>
    OBVIOUS
  <2>2. m \in Msg
    BY <2>1, <1>t DEF Msg
  <2>3. AddMessage(m) /\ stored' = stored /\ reader' = reader /\ cache' = cache /\ turn # "rest" /\ round' = round
    BY <1>6, <2>1 DEF ActorDies
  <2>. QED BY <2>2, <2>3, FeedAdds
\* The viewers' own steps change the record of one of them.
<1>v. ASSUME NEW v \in Viewer, NEW w \in ViewerType, viewer' = [viewer EXCEPT ![v] = w],
             UNCHANGED << round, turn, live, buffer, stored, emitted, early, reader, cache >>,
             w.in => /\ w.pc # "closed"
                     /\ Groupable(emitted) \ early \subseteq w.shown \union ToSet(w.queue)
                          \union (IF w.pc = "reading" THEN stored ELSE {})
      PROVE  FeedInv'
  <2>1. viewer' \in [Viewer -> ViewerType] /\ viewer'[v] = w /\ \A u \in Viewer : u # v => viewer'[u] = viewer[u]
    BY <1>v, <1>t
  <2>2. /\ UNCHANGED round /\ UNCHANGED turn /\ UNCHANGED buffer /\ UNCHANGED stored /\ UNCHANGED emitted
        /\ UNCHANGED early /\ UNCHANGED reader /\ UNCHANGED cache
    BY <1>v
  <2>3. FeedTypeOK' /\ Reachable' /\ KeptWhole'
    BY <2>1, <2>2, <1>t DEF FeedTypeOK, Reachable, KeptWhole
  <2>4. Follows(v)'
    BY <2>1, <2>2, <1>v DEF Follows, Has
  <2>5. \A u \in Viewer : u # v => Follows(u)'
    BY <2>1, <2>2, <1>t DEF Follows, Has
  <2>. QED BY <2>3, <2>4, <2>5 DEF FeedInv
<1>7. ASSUME NEW v \in Viewer, Open(v) PROVE FeedInv'
  <2>1. PICK w : w = Subscribed(v)
    OBVIOUS
  <2>2. Groupable(ToSet(buffer)) \in SUBSET Msg
    <3>1. \A i \in DOMAIN buffer : buffer[i] \in Msg
      BY <1>t, ElementOfSeq, LenProperties
    <3>. QED BY <3>1 DEF Groupable, ToSet
  <2>3. w \in ViewerType /\ w.in /\ w.pc = "reading" /\ w.shown = Groupable(ToSet(buffer))
    BY <2>1, <2>2, <1>t DEF Subscribed, ViewerType
  <2>4. Groupable(emitted) \ early \subseteq w.shown \union stored
    BY <2>3, <1>t DEF Reachable, Groupable
  <2>5. viewer' = [viewer EXCEPT ![v] = w]
        /\ UNCHANGED << round, turn, live, buffer, stored, emitted, early, reader, cache >>
    BY <1>7, <2>1 DEF Open
  <2>. QED BY <2>3, <2>4, <2>5, <1>v
<1>8. ASSUME NEW v \in Viewer, ShowSnapshot(v) PROVE FeedInv'
  <2>1. PICK w : w = [viewer[v] EXCEPT !.pc = "live", !.shown = viewer[v].shown \union stored]
    OBVIOUS
  <2>2. /\ w \in ViewerType /\ w.in = viewer[v].in /\ w.pc = "live" /\ w.queue = viewer[v].queue
        /\ w.shown = viewer[v].shown \union stored
    BY <2>1, <1>t DEF ViewerType
  <2>3. viewer' = [viewer EXCEPT ![v] = w]
        /\ UNCHANGED << round, turn, live, buffer, stored, emitted, early, reader, cache >>
    BY <1>8, <2>1, <1>t DEF ShowSnapshot
  <2>4. viewer[v].in => Groupable(emitted) \ early \subseteq w.shown \union ToSet(w.queue)
    BY <2>2, <1>t DEF Follows, Has
  <2>. QED BY <2>2, <2>3, <2>4, <1>v
<1>n. NotOpen \in ViewerType /\ ~NotOpen.in
  BY DEF NotOpen, ViewerType
<1>9. ASSUME NEW v \in Viewer, TakeLive(v) PROVE FeedInv'
  <2>. DEFINE q == viewer[v].queue
              m == Head(q)
  <2>1. /\ viewer[v].pc = "live" /\ q # << >>
        /\ viewer' = [viewer EXCEPT ![v] = IF Ends(m) THEN NotOpen
             ELSE [viewer[v] EXCEPT !.queue = Tail(q), !.shown = viewer[v].shown \union Groupable({m})]]
        /\ UNCHANGED << round, turn, live, buffer, stored, emitted, early, reader, cache >>
    BY <1>9, <1>t DEF TakeLive, TookLive
  <2>2. q \in Seq(Msg)
    BY <1>t DEF ViewerType
  <2>3. /\ m \in Msg /\ Tail(q) \in Seq(Msg) /\ ToSet(q) = {m} \union ToSet(Tail(q))
    <3>1. /\ m \in Msg /\ Tail(q) \in Seq(Msg) /\ m = q[1] /\ Len(q) \in Nat \ {0} /\ DOMAIN q = 1 .. Len(q)
          /\ DOMAIN Tail(q) = 1 .. Len(q) - 1 /\ \A i \in 1 .. Len(q) - 1 : Tail(q)[i] = q[i + 1]
      BY <2>1, <2>2, HeadTailProperties, LenProperties
    <3>2. \A j \in 1 .. Len(q) : j = 1 \/ (j - 1 \in 1 .. Len(q) - 1 /\ (j - 1) + 1 = j)
      BY <3>1
    <3>3. \A i \in 1 .. Len(q) - 1 : i + 1 \in 1 .. Len(q)
      BY <3>1
    <3>4. 1 \in 1 .. Len(q)
      BY <3>1
    <3>. HIDE DEF q, m
    <3>5. ASSUME NEW x \in ToSet(q) PROVE x = m \/ x \in ToSet(Tail(q))
      <4>1. PICK j \in 1 .. Len(q) : x = q[j]
        BY <3>1 DEF ToSet
      <4>2. CASE j = 1
        BY <4>1, <4>2, <3>1
      <4>3. CASE j # 1
        <5>1. j - 1 \in 1 .. Len(q) - 1 /\ (j - 1) + 1 = j
          BY <4>3, <3>2
        <5>2. x = Tail(q)[j - 1]
          BY <5>1, <4>1, <3>1
        <5>. QED BY <5>1, <5>2, <3>1 DEF ToSet
      <4>. QED BY <4>2, <4>3
    <3>6. \A x \in ToSet(Tail(q)) : x \in ToSet(q)
      BY <3>1, <3>3 DEF ToSet
    <3>7. m \in ToSet(q)
      BY <3>1, <3>4 DEF ToSet
    <3>. QED BY <3>1, <3>5, <3>6, <3>7
  <2>. HIDE DEF q, m
  <2>4. CASE Ends(m)
    <3>1. viewer' = [viewer EXCEPT ![v] = NotOpen]
      BY <2>1, <2>4
    <3>. QED BY <3>1, <2>1, <1>n, <1>v
  <2>5. CASE ~Ends(m)
    <3>1. PICK w : w = [viewer[v] EXCEPT !.queue = Tail(q), !.shown = viewer[v].shown \union Groupable({m})]
      OBVIOUS
    <3>2. Groupable({m}) \in SUBSET Msg
      BY <2>3 DEF Groupable
    <3>3. /\ w \in ViewerType /\ w.in = viewer[v].in /\ w.pc = "live" /\ w.queue = Tail(q)
          /\ w.shown = viewer[v].shown \union Groupable({m})
      BY <3>1, <3>2, <2>1, <2>3, <1>t DEF ViewerType
    <3>4. viewer' = [viewer EXCEPT ![v] = w]
      BY <2>1, <2>5, <3>1
    <3>5. ASSUME viewer[v].in PROVE Groupable(emitted) \ early \subseteq w.shown \union ToSet(w.queue)
      <4>1. Groupable(emitted) \ early \subseteq viewer[v].shown \union ToSet(viewer[v].queue)
        BY <3>5, <2>1, <1>t DEF Follows, Has
      <4>2. ToSet(viewer[v].queue) = {m} \union ToSet(w.queue)
        BY <2>3, <3>3 DEF q
      <4>3. m \in Groupable(emitted) => m \in Groupable({m})
        BY DEF Groupable
      <4>. QED BY <4>1, <4>2, <4>3, <3>3
    <3>. QED BY <3>3, <3>4, <3>5, <2>1, <1>v
  <2>. QED BY <2>4, <2>5
<1>10. ASSUME NEW v \in Viewer, Heartbeat(v) PROVE FeedInv'
  <2>1. viewer' = [viewer EXCEPT ![v] = NotOpen]
        /\ UNCHANGED << round, turn, live, buffer, stored, emitted, early, reader, cache >>
    BY <1>10 DEF Heartbeat
  <2>. QED BY <2>1, <1>n, <1>v
<1>11. CASE ReadHistory
  <2>1. /\ reader' = [pc |-> "reading", history |-> stored, quiet |-> Quiet]
        /\ UNCHANGED round /\ UNCHANGED turn /\ UNCHANGED buffer /\ UNCHANGED stored /\ UNCHANGED emitted
        /\ UNCHANGED early /\ UNCHANGED viewer /\ UNCHANGED cache
    BY <1>11 DEF ReadHistory
  <2>2. reader' \in [pc : {"idle", "reading"}, history : SUBSET Msg, quiet : BOOLEAN]
    <3>1. Quiet \in BOOLEAN
      BY DEF Quiet
    <3>. QED BY <3>1, <2>1, <1>t
  <2>3. FeedTypeOK' /\ Reachable' /\ KeptWhole'
    BY <2>1, <2>2, <1>t DEF FeedTypeOK, Reachable, KeptWhole
  <2>4. \A v \in Viewer : Follows(v)'
    BY <2>1, <1>t DEF Follows, Has
  <2>. QED BY <2>3, <2>4 DEF FeedInv
<1>12. CASE KeepSnapshot
  <2>. DEFINE all == reader.history \union Groupable(ToSet(buffer))
  <2>1. /\ cache' = [there |-> TRUE, shown |-> all, quiet |-> reader.quiet /\ Quiet /\ reader.history = stored]
        /\ reader' = NoRead
        /\ UNCHANGED round /\ UNCHANGED turn /\ UNCHANGED buffer /\ UNCHANGED stored /\ UNCHANGED emitted
        /\ UNCHANGED early /\ UNCHANGED viewer
    BY <1>12 DEF KeepSnapshot
  <2>2. all \in SUBSET Msg
    <3>1. \A i \in DOMAIN buffer : buffer[i] \in Msg
      BY <1>t, ElementOfSeq, LenProperties
    <3>2. Groupable(ToSet(buffer)) \in SUBSET Msg
      BY <3>1 DEF Groupable, ToSet
    <3>. QED BY <3>2, <1>t
  <2>3. stored \subseteq all \/ reader.history # stored
    OBVIOUS
  <2>. HIDE DEF all
  <2>4. cache' \in [there : BOOLEAN, shown : SUBSET Msg, quiet : BOOLEAN]
    BY <2>1, <2>2
  <2>5. cache'.shown = all /\ (cache'.quiet => Quiet /\ reader.history = stored)
    BY <2>1
  <2>6. KeptWhole'
    BY <2>1, <2>3, <2>5 DEF KeptWhole, Quiet
  <2>7. FeedTypeOK' /\ Reachable'
    BY <2>1, <2>4, <1>t DEF FeedTypeOK, Reachable, NoRead
  <2>8. \A v \in Viewer : Follows(v)'
    BY <2>1, <1>t DEF Follows, Has
  <2>. QED BY <2>6, <2>7, <2>8 DEF FeedInv
<1>. QED BY <1>1, <1>2, <1>3, <1>4, <1>5, <1>6, <1>7, <1>8, <1>9, <1>10, <1>11, <1>12
       DEF FeedNext, Session, Turn, Streams, Follow, History

\* For any viewers, turns and bounds: nobody who follows a session or loads it lacks a part
\* of it, but for what the buffer let go before the transcript had it.
THEOREM NobodyLacks == FeedSpec => []ViewsComplete
<1>1. FeedInv /\ [FeedNext]_feed => FeedInv'
  <2>1. FeedInv /\ FeedNext => FeedInv'
    BY FeedStep
  <2>2. FeedInv /\ UNCHANGED feed => FeedInv'
    BY DEF feed, FeedInv, FeedTypeOK, Reachable, Follows, Has, KeptWhole
  <2>. QED BY <2>1, <2>2
<1>2. FeedInv => ViewsComplete
  BY DEF FeedInv, Follows, Has, KeptWhole, ViewsComplete, NothingMissed, CacheFresh
<1>. QED BY <1>1, <1>2, InitFeed, PTL DEF FeedSpec

---------------------------------------------------------------------------------
(* The turns of a conversation.                                              *)

BlockType ==
  [kind : {"text", "call", "outcome", "task", "skill", "notice"}, id : Call \union {"none"},
   outcome : BOOLEAN, skill : BOOLEAN, status : {"none", "started", "progress", "notified"}]

TurnType == [type : {"user", "assistant", "system"}, content : Seq(BlockType)]

TurnsTypeOK ==
  /\ past \in Seq(TurnType) /\ open \in TurnType \union {NoTurn}
  /\ late \subseteq outcomes /\ outcomes \subseteq called /\ called \subseteq Call

Turns(ts, opened) == IF opened = NoTurn THEN ts ELSE Append(ts, opened)

\* The blocks of turns, and where they are.
Spots(ts) == UNION {{i} \X DOMAIN ts[i].content : i \in DOMAIN ts}
BlockAt(ts, x) == ts[x[1]].content[x[2]]

Alike(b, c) == b.kind = c.kind /\ b.id = c.id

\* Each call has a block, and each outcome that came too late for it, and only one; the
\* block of a call has the outcome, if that came in time.
ToldOnce(ts, made, ended, tardy) ==
  /\ \A x, y \in Spots(ts) :
       Alike(BlockAt(ts, x), BlockAt(ts, y)) /\ BlockAt(ts, x).kind \in {"call", "outcome"} => x = y
  /\ \A x \in Spots(ts) :
       /\ BlockAt(ts, x).kind = "call" =>
            BlockAt(ts, x).id \in made /\ (BlockAt(ts, x).outcome <=> BlockAt(ts, x).id \in ended \ tardy)
       /\ BlockAt(ts, x).kind = "outcome" => BlockAt(ts, x).id \in tardy
  /\ \A c \in made : \E x \in Spots(ts) : BlockAt(ts, x).kind = "call" /\ BlockAt(ts, x).id = c
  /\ \A c \in tardy : \E x \in Spots(ts) : BlockAt(ts, x).kind = "outcome" /\ BlockAt(ts, x).id = c

TurnsInv ==
  /\ TurnsTypeOK
  /\ shown = Grouped(past, open) /\ op # "reset"
  /\ ToldOnce(Turns(past, open), called, outcomes, late)

\* Completing a turn changes the status of blocks, and nothing else.
LEMMA ResolvedKeeps ==
  ASSUME NEW t \in TurnType
  PROVE  /\ Resolved(t) \in TurnType
         /\ DOMAIN Resolved(t).content = DOMAIN t.content
         /\ \A j \in DOMAIN t.content :
              /\ Alike(Resolved(t).content[j], t.content[j])
              /\ Resolved(t).content[j].outcome = t.content[j].outcome
<1>. DEFINE ended == {b.id : b \in {c \in ToSet(t.content) :
                        c.kind = "call" /\ NameOf[c.id] = "Agent" /\ c.outcome}}
            Completed(b) == IF b.kind = "task" /\ b.status = "started" /\ b.id \in ended
                       THEN [b EXCEPT !.status = "notified"] ELSE b
            s == [i \in DOMAIN t.content |-> Completed(t.content[i])]
<1>1. Resolved(t) = [t EXCEPT !.content = s]
  BY DEF Resolved
<1>. HIDE DEF ended
<1>2. ASSUME NEW b \in BlockType PROVE Completed(b) \in BlockType /\ Alike(Completed(b), b) /\ Completed(b).outcome = b.outcome
  BY DEF BlockType, Alike
<1>. HIDE DEF Completed
<1>3. t.content \in Seq(BlockType) /\ DOMAIN t.content = 1 .. Len(t.content) /\ Len(t.content) \in Nat
      /\ \A i \in DOMAIN t.content : t.content[i] \in BlockType
  <2>1. t.content \in Seq(BlockType)
    BY DEF TurnType
  <2>. QED BY <2>1, LenProperties, ElementOfSeq
<1>4. \A i \in DOMAIN t.content : s[i] \in BlockType /\ Alike(s[i], t.content[i]) /\ s[i].outcome = t.content[i].outcome
  BY <1>2, <1>3
<1>5. s \in Seq(BlockType) /\ DOMAIN s = DOMAIN t.content
  <2>1. s \in [1 .. Len(t.content) -> BlockType]
    BY <1>3, <1>4
  <2>2. s \in UNION {[1 .. n -> BlockType] : n \in Nat}
    <3>. HIDE DEF s
    <3>. QED BY <2>1, <1>3
  <2>. QED BY <2>2, SeqDef
<1>. HIDE DEF s
<1>6. PICK w : w = [t EXCEPT !.content = s]
  OBVIOUS
<1>7. w \in TurnType /\ w.content = s
  BY <1>5, <1>6 DEF TurnType
<1>. QED BY <1>1, <1>4, <1>5, <1>6, <1>7

\* All turns together.
LEMMA TurnsShape ==
  ASSUME NEW ts \in Seq(TurnType), NEW opened \in TurnType \union {NoTurn}
  PROVE  /\ Turns(ts, opened) \in Seq(TurnType) /\ Turns(ts, NoTurn) = ts
         /\ opened # NoTurn => /\ Turns(ts, opened) = Append(ts, opened)
                             /\ Len(Turns(ts, opened)) = Len(ts) + 1
                             /\ DOMAIN Turns(ts, opened) = 1 .. Len(ts) + 1
                             /\ Turns(ts, opened)[Len(ts) + 1] = opened
                             /\ \A i \in 1 .. Len(ts) : Turns(ts, opened)[i] = ts[i]
<1>1. ASSUME opened # NoTurn PROVE opened \in TurnType /\ Turns(ts, opened) = Append(ts, opened)
  BY <1>1 DEF Turns
<1>2. Turns(ts, NoTurn) = ts
  BY DEF Turns
<1>. QED BY <1>1, <1>2, AppendProperties, LenProperties DEF Turns

LEMMA TurnIsOne ==
  /\ \A t \in TurnType : t # NoTurn /\ t.content \in Seq(BlockType)
  /\ \A t \in TurnType \union {NoTurn} : t.content \in Seq(BlockType)
  /\ \A type \in {"user", "assistant", "system"}, b \in BlockType :
       NewTurn(type, << b >>) \in TurnType /\ NewTurn(type, << b >>).content = << b >>
<1>1. ASSUME NEW t \in TurnType PROVE t # NoTurn /\ t.content \in Seq(BlockType)
  BY DEF TurnType, NoTurn
<1>2. NoTurn.content \in Seq(BlockType)
  BY DEF NoTurn
<1>3. ASSUME NEW type \in {"user", "assistant", "system"}, NEW b \in BlockType
      PROVE  NewTurn(type, << b >>) \in TurnType /\ NewTurn(type, << b >>).content = << b >>
  <2>1. << b >> \in Seq(BlockType)
    OBVIOUS
  <2>. QED BY <2>1 DEF NewTurn, TurnType
<1>. QED BY <1>1, <1>2, <1>3

\* The grouped turns are the turns, completed one by one.
LEMMA GroupedShape ==
  ASSUME NEW ts \in Seq(TurnType), NEW opened \in TurnType \union {NoTurn}
  PROVE  /\ Grouped(ts, opened) \in Seq(TurnType)
         /\ Len(Grouped(ts, opened)) = Len(Turns(ts, opened))
         /\ DOMAIN Grouped(ts, opened) = DOMAIN Turns(ts, opened)
         /\ \A i \in DOMAIN Turns(ts, opened) : Grouped(ts, opened)[i] = Resolved(Turns(ts, opened)[i])
<1>. DEFINE all == Turns(ts, opened)
<1>1. all \in Seq(TurnType) /\ Len(all) \in Nat /\ DOMAIN all = 1 .. Len(all)
      /\ \A i \in DOMAIN all : all[i] \in TurnType
  <2>1. all \in Seq(TurnType)
    BY TurnsShape
  <2>. HIDE DEF all
  <2>. QED BY <2>1, LenProperties, ElementOfSeq
<1>2. Grouped(ts, opened) = [i \in DOMAIN all |-> Resolved(all[i])]
  BY DEF Grouped, Turns
<1>. HIDE DEF all
<1>3. Grouped(ts, opened) \in [1 .. Len(all) -> TurnType]
  BY <1>1, <1>2, ResolvedKeeps
<1>4. Grouped(ts, opened) \in Seq(TurnType)
  BY <1>1, <1>3, SeqDef
<1>5. DOMAIN Grouped(ts, opened) = 1 .. Len(all) /\ Len(Grouped(ts, opened)) \in Nat
      /\ DOMAIN Grouped(ts, opened) = 1 .. Len(Grouped(ts, opened))
  BY <1>3, <1>4, LenProperties
<1>6. Len(Grouped(ts, opened)) = Len(all)
  BY <1>1, <1>5
<1>. QED BY <1>1, <1>2, <1>4, <1>5, <1>6 DEF all

\* Applying a patch leads from the one to the other.
LEMMA PatchLeads ==
  ASSUME NEW S, NEW prev \in Seq(S), NEW curr \in Seq(S)
  PROVE  /\ Patched(prev, PatchOp(prev, curr), curr) = curr
         /\ (Len(curr) = Len(prev) + 1 /\ \A i \in 1 .. Len(prev) : curr[i] = prev[i])
              => PatchOp(prev, curr) # "reset"
         /\ (Len(curr) = Len(prev) /\ \A i \in 1 .. Len(prev) - 1 : curr[i] = prev[i])
              => PatchOp(prev, curr) # "reset"
<1>0. /\ Len(prev) \in Nat /\ Len(curr) \in Nat
      /\ \A i \in 1 .. Len(prev) : prev[i] \in S
      /\ \A i \in 1 .. Len(curr) : curr[i] \in S
  BY LenProperties, ElementOfSeq
<1>f. ASSUME NEW s \in Seq(S), Len(s) # 0
      PROVE  /\ Front(s) \in Seq(S) /\ Len(Front(s)) = Len(s) - 1
             /\ \A i \in 1 .. Len(s) - 1 : Front(s)[i] = s[i]
             /\ Last(s) \in S /\ Append(Front(s), Last(s)) = s
  <2>0. Len(s) \in Nat /\ \A i \in 1 .. Len(s) : s[i] \in S
    BY LenProperties, ElementOfSeq
  <2>1. 1 \in Int /\ Len(s) - 1 \in Int /\ \A i \in 1 .. Len(s) - 1 : s[i] \in S
    BY <2>0
  <2>2. PICK f : f = SubSeq(s, 1, Len(s) - 1)
    OBVIOUS
  <2>3. /\ f \in Seq(S) /\ Len(f) = IF 1 <= Len(s) - 1 THEN (Len(s) - 1) - 1 + 1 ELSE 0
        /\ \A i \in 1 .. (Len(s) - 1) - 1 + 1 : f[i] = s[1 + i - 1]
    BY <2>1, <2>2, SubSeqProperties
  <2>4. Len(f) = Len(s) - 1 /\ \A i \in 1 .. Len(s) - 1 : f[i] = s[i]
    <3>1. \A i \in 1 .. Len(s) - 1 : i \in 1 .. (Len(s) - 1) - 1 + 1 /\ 1 + i - 1 = i
      BY <2>0
    <3>2. \A i \in 1 .. Len(s) - 1 : f[i] = s[i]
      BY <2>3, <3>1
    <3>3. Len(f) = Len(s) - 1
      <4>1. \A n \in Nat \ {0} : (IF 1 <= n - 1 THEN (n - 1) - 1 + 1 ELSE 0) = n - 1
        OBVIOUS
      <4>2. Len(s) \in Nat \ {0}
        BY <2>0, <1>f
      <4>3. Len(f) = IF 1 <= Len(s) - 1 THEN (Len(s) - 1) - 1 + 1 ELSE 0
        BY <2>3
      <4>. QED BY <4>1, <4>2, <4>3
    <3>. QED BY <3>2, <3>3
  <2>5. Front(s) = f /\ Last(s) = s[Len(s)] /\ s[Len(s)] \in S
    BY <2>0, <2>2, <1>f DEF Front, Last
  <2>6. /\ Append(f, s[Len(s)]) \in Seq(S) /\ Len(Append(f, s[Len(s)])) = Len(s)
        /\ \A i \in 1 .. Len(s) - 1 : Append(f, s[Len(s)])[i] = s[i]
        /\ Append(f, s[Len(s)])[Len(s)] = s[Len(s)]
    BY <2>0, <2>3, <2>4, <2>5, AppendProperties
  <2>7. Append(f, s[Len(s)]) = s
    <3>1. \A i \in 1 .. Len(s) : Append(f, s[Len(s)])[i] = s[i]
      BY <2>0, <2>6
    <3>. QED BY <3>1, <2>6, SeqEqual
  <2>. QED BY <2>3, <2>4, <2>5, <2>7
<1>1. CASE prev = curr
  <2>1. PatchOp(prev, curr) = "none"
    BY <1>1 DEF PatchOp
  <2>. QED BY <2>1, <1>1 DEF Patched
<1>2. CASE prev # curr /\ Len(curr) = Len(prev) + 1 /\ Front(curr) = prev
  <2>1. PatchOp(prev, curr) = "append"
    BY <1>0, <1>2 DEF PatchOp
  <2>2. Append(prev, Last(curr)) = curr
    BY <1>0, <1>2, <1>f
  <2>. QED BY <2>1, <2>2 DEF Patched
<1>3. CASE prev # curr /\ Len(curr) = Len(prev) /\ Front(curr) = Front(prev)
  <2>1. PatchOp(prev, curr) = "replace last"
    BY <1>0, <1>3 DEF PatchOp
  <2>2. Len(curr) # 0
    BY <1>0, <1>3, SeqEqual
  <2>3. Append(Front(prev), Last(curr)) = curr
    BY <2>2, <1>3, <1>f
  <2>. QED BY <2>1, <2>3 DEF Patched
<1>4. CASE /\ prev # curr /\ ~(Len(curr) = Len(prev) + 1 /\ Front(curr) = prev)
           /\ ~(Len(curr) = Len(prev) /\ Front(curr) = Front(prev))
  <2>1. PatchOp(prev, curr) = "reset"
    BY <1>4 DEF PatchOp
  <2>2. ASSUME Len(curr) = Len(prev) + 1, \A i \in 1 .. Len(prev) : curr[i] = prev[i] PROVE FALSE
    <3>1. /\ Front(curr) \in Seq(S) /\ Len(Front(curr)) = Len(prev)
          /\ \A i \in 1 .. Len(prev) : Front(curr)[i] = prev[i]
      <4>1. Len(curr) # 0 /\ Len(curr) - 1 = Len(prev)
        BY <2>2, <1>0
      <4>2. /\ Front(curr) \in Seq(S) /\ Len(Front(curr)) = Len(curr) - 1
            /\ \A i \in 1 .. Len(curr) - 1 : Front(curr)[i] = curr[i]
        BY <4>1, <1>f
      <4>. QED BY <4>1, <4>2, <2>2
    <3>2. Front(curr) = prev
      BY <3>1, SeqEqual
    <3>. QED BY <3>2, <2>2, <1>4
  <2>3. ASSUME Len(curr) = Len(prev), \A i \in 1 .. Len(prev) - 1 : curr[i] = prev[i] PROVE FALSE
    <3>1. Len(curr) # 0
      BY <2>3, <1>0, <1>4, SeqEqual
    <3>2. /\ Front(curr) \in Seq(S) /\ Len(Front(curr)) = Len(curr) - 1
          /\ \A i \in 1 .. Len(curr) - 1 : Front(curr)[i] = curr[i]
      BY <3>1, <1>f
    <3>3. /\ Front(prev) \in Seq(S) /\ Len(Front(prev)) = Len(prev) - 1
          /\ \A i \in 1 .. Len(prev) - 1 : Front(prev)[i] = prev[i]
      BY <3>1, <2>3, <1>f
    <3>4. Front(curr) = Front(prev)
      BY <3>2, <3>3, <2>3, SeqEqual
    <3>. QED BY <3>4, <2>3, <1>4
  <2>. QED BY <2>1, <2>2, <2>3 DEF Patched
<1>. QED BY <1>1, <1>2, <1>3, <1>4


LEMMA WhereIs ==
  ASSUME NEW ts
  PROVE  /\ \A x \in Spots(ts) : x[1] \in DOMAIN ts /\ x[2] \in DOMAIN ts[x[1]].content /\ x = << x[1], x[2] >>
         /\ \A i \in DOMAIN ts : \A j \in DOMAIN ts[i].content : << i, j >> \in Spots(ts)
BY DEF Spots

\* The blocks of U are those of T and one more, ...
More(T, U, b) ==
  \E p : /\ p \notin Spots(T) /\ Spots(U) = Spots(T) \union {p} /\ BlockAt(U, p) = b
         /\ \A x \in Spots(T) : BlockAt(U, x) = BlockAt(T, x)

\* ... or with another one in the place of one of them.
Changed(T, U, a, b) ==
  \E p \in Spots(T) :
    /\ Spots(U) = Spots(T) /\ BlockAt(U, p) = b /\ BlockAt(T, p) = a
    /\ \A x \in Spots(T) : x # p => BlockAt(U, x) = BlockAt(T, x)

\* A turn more, with one block.
LEMMA TurnAdded ==
  ASSUME NEW T \in Seq(TurnType), NEW b \in BlockType, NEW w \in TurnType, w.content = << b >>,
         NEW U, U = Append(T, w)
  PROVE  More(T, U, b)
<1>1. /\ Len(T) \in Nat /\ DOMAIN T = 1 .. Len(T) /\ DOMAIN U = 1 .. Len(T) + 1
      /\ U[Len(T) + 1] = w /\ \A i \in 1 .. Len(T) : U[i] = T[i]
  <2>1. /\ U \in Seq(TurnType) /\ Len(U) = Len(T) + 1
        /\ U[Len(T) + 1] = w /\ \A i \in 1 .. Len(T) : U[i] = T[i]
    BY AppendProperties
  <2>. QED BY <2>1, LenProperties
<1>2. PICK n : n = Len(T) + 1
  OBVIOUS
<1>3. n \in DOMAIN U /\ n \notin DOMAIN T /\ U[n].content = << b >> /\ DOMAIN U = DOMAIN T \union {n}
  BY <1>1, <1>2
<1>4. PICK p : p = << n, 1 >>
  OBVIOUS
<1>d. DOMAIN << b >> = {1} /\ << b >>[1] = b
  OBVIOUS
<1>5. p \notin Spots(T)
  BY <1>3, <1>4, WhereIs
<1>6. p \in Spots(U)
  BY <1>3, <1>4, <1>d, WhereIs
<1>7. ASSUME NEW x \in Spots(T) PROVE x \in Spots(U) /\ BlockAt(U, x) = BlockAt(T, x)
  <2>1. x[1] \in DOMAIN T /\ x[2] \in DOMAIN T[x[1]].content /\ x = << x[1], x[2] >>
    BY WhereIs
  <2>2. x[1] \in DOMAIN U /\ U[x[1]] = T[x[1]]
    BY <2>1, <1>1, <1>3
  <2>3. << x[1], x[2] >> \in Spots(U)
    BY <2>1, <2>2, WhereIs
  <2>. QED BY <2>1, <2>2, <2>3 DEF BlockAt
<1>8. ASSUME NEW x \in Spots(U), x # p PROVE x \in Spots(T)
  <2>1. x[1] \in DOMAIN U /\ x[2] \in DOMAIN U[x[1]].content /\ x = << x[1], x[2] >>
    BY WhereIs
  <2>2. CASE x[1] = n
    <3>1. x[2] \in DOMAIN << b >>
      BY <2>1, <2>2, <1>3
    <3>2. x = p
      BY <2>1, <2>2, <3>1, <1>d, <1>4
    <3>. QED BY <3>2, <1>8
  <2>3. CASE x[1] # n
    <3>1. x[1] \in DOMAIN T /\ U[x[1]] = T[x[1]]
      BY <2>1, <2>3, <1>1, <1>3
    <3>2. << x[1], x[2] >> \in Spots(T)
      BY <2>1, <3>1, WhereIs
    <3>. QED BY <2>1, <3>2
  <2>. QED BY <2>2, <2>3
<1>9. BlockAt(U, p) = b
  BY <1>3, <1>4, <1>d DEF BlockAt
<1>. QED BY <1>5, <1>6, <1>7, <1>8, <1>9 DEF More

\* The last turn with other blocks: the places before it are as they were.
LEMMA LastChanged ==
  ASSUME NEW T \in Seq(TurnType), NEW U \in Seq(TurnType), NEW n \in Nat \ {0},
         Len(T) = n, Len(U) = n, \A i \in 1 .. n - 1 : U[i] = T[i]
  PROVE  /\ \A x : x[1] # n => (x \in Spots(U) <=> x \in Spots(T))
         /\ \A x \in Spots(T) : x[1] # n => BlockAt(U, x) = BlockAt(T, x)
         /\ \A x \in Spots(T) : x[1] = n => x[2] \in DOMAIN T[n].content /\ x = << n, x[2] >>
         /\ \A x \in Spots(U) : x[1] = n => x[2] \in DOMAIN U[n].content /\ x = << n, x[2] >>
         /\ \A j \in DOMAIN T[n].content : << n, j >> \in Spots(T)
         /\ \A j \in DOMAIN U[n].content : << n, j >> \in Spots(U)
<1>1. DOMAIN T = 1 .. n /\ DOMAIN U = 1 .. n /\ n \in 1 .. n
  BY LenProperties
<1>2. \A i \in 1 .. n : i # n => U[i] = T[i]
  OBVIOUS
<1>3. ASSUME NEW x, x[1] # n, x \in Spots(U) PROVE x \in Spots(T)
  <2>1. x[1] \in DOMAIN U /\ x[2] \in DOMAIN U[x[1]].content /\ x = << x[1], x[2] >>
    BY <1>3, WhereIs
  <2>2. << x[1], x[2] >> \in Spots(T)
    BY <2>1, <1>1, <1>2, <1>3, WhereIs
  <2>. QED BY <2>1, <2>2
<1>4. ASSUME NEW x, x[1] # n, x \in Spots(T) PROVE x \in Spots(U) /\ BlockAt(U, x) = BlockAt(T, x)
  <2>1. x[1] \in DOMAIN T /\ x[2] \in DOMAIN T[x[1]].content /\ x = << x[1], x[2] >>
    BY <1>4, WhereIs
  <2>2. << x[1], x[2] >> \in Spots(U)
    BY <2>1, <1>1, <1>2, <1>4, WhereIs
  <2>3. U[x[1]] = T[x[1]]
    BY <2>1, <1>1, <1>2, <1>4
  <2>. QED BY <2>1, <2>2, <2>3 DEF BlockAt
<1>5. \A x \in Spots(T) : x[1] = n => x[2] \in DOMAIN T[n].content /\ x = << n, x[2] >>
  BY WhereIs
<1>6. \A x \in Spots(U) : x[1] = n => x[2] \in DOMAIN U[n].content /\ x = << n, x[2] >>
  BY WhereIs
<1>7. (\A j \in DOMAIN T[n].content : << n, j >> \in Spots(T)) /\ (\A j \in DOMAIN U[n].content : << n, j >> \in Spots(U))
  BY <1>1, WhereIs
<1>. QED BY <1>3, <1>4, <1>5, <1>6, <1>7

\* A block more in the last turn.
LEMMA BlockAdded ==
  ASSUME NEW T \in Seq(TurnType), NEW U \in Seq(TurnType), NEW n \in Nat \ {0}, NEW b \in BlockType,
         Len(T) = n, Len(U) = n, \A i \in 1 .. n - 1 : U[i] = T[i],
         T[n].content \in Seq(BlockType), U[n].content = T[n].content \o << b >>
  PROVE  More(T, U, b)
<1>. DEFINE s == T[n].content
            k == Len(s) + 1
<1>1. << b >> \in Seq(BlockType) /\ Len(<< b >>) = 1 /\ << b >>[1] = b
  OBVIOUS
<1>2. /\ s \o << b >> \in Seq(BlockType) /\ Len(s) \in Nat /\ Len(s \o << b >>) = Len(s) + 1
      /\ \A i \in 1 .. Len(s) + 1 : (s \o << b >>)[i] = IF i <= Len(s) THEN s[i] ELSE << b >>[i - Len(s)]
  <2>. HIDE DEF s
  <2>1. s \in Seq(BlockType)
    BY DEF s
  <2>. QED BY <2>1, <1>1, ConcatProperties, LenProperties
<1>3. /\ DOMAIN s = 1 .. Len(s) /\ DOMAIN U[n].content = 1 .. Len(s) + 1 /\ k \in Nat
      /\ \A i \in DOMAIN s : U[n].content[i] = s[i]
      /\ U[n].content[k] = b /\ k \notin DOMAIN s
      /\ DOMAIN U[n].content = DOMAIN s \union {k}
  <2>1. DOMAIN s = 1 .. Len(s) /\ DOMAIN (s \o << b >>) = 1 .. Len(s) + 1
    BY <1>2, LenProperties
  <2>last. k \in Nat /\ k \in 1 .. Len(s) + 1 /\ ~(k <= Len(s)) /\ k - Len(s) = 1 /\ k \notin 1 .. Len(s)
           /\ 1 .. Len(s) + 1 = 1 .. Len(s) \union {k}
    <3>. HIDE DEF s
    <3>. QED BY <1>2
  <2>before. \A i \in 1 .. Len(s) : i \in 1 .. Len(s) + 1 /\ i <= Len(s)
    BY <1>2
  <2>. HIDE DEF s, k
  <2>there. (s \o << b >>)[k] = << b >>[1]
    BY <1>2, <2>last
  <2>content. U[n].content = s \o << b >>
    BY DEF s
  <2>. QED BY <1>1, <1>2, <2>1, <2>last, <2>before, <2>there, <2>content
<1>. HIDE DEF k
<1>4. PICK p : p = << n, k >>
  OBVIOUS
<1>5. p \in Spots(U) /\ p \notin Spots(T) /\ BlockAt(U, p) = b
  <2>1. p \in Spots(U)
    BY <1>3, <1>4, LastChanged
  <2>2. p \notin Spots(T)
    BY <1>3, <1>4, LastChanged
  <2>. QED BY <2>1, <2>2, <1>3, <1>4 DEF BlockAt
<1>6. ASSUME NEW x \in Spots(T) PROVE x \in Spots(U) /\ BlockAt(U, x) = BlockAt(T, x)
  <2>1. CASE x[1] = n
    <3>1. x[2] \in DOMAIN s /\ x = << n, x[2] >>
      BY <2>1, LastChanged
    <3>2. << n, x[2] >> \in Spots(U)
      BY <3>1, <1>3, LastChanged
    <3>3. BlockAt(U, << n, x[2] >>) = U[n].content[x[2]] /\ BlockAt(T, << n, x[2] >>) = s[x[2]]
      BY DEF BlockAt
    <3>4. U[n].content[x[2]] = s[x[2]]
      BY <3>1, <1>3
    <3>. HIDE DEF s
    <3>. QED BY <3>1, <3>2, <3>3, <3>4
  <2>2. CASE x[1] # n
    BY <2>2, LastChanged
  <2>. QED BY <2>1, <2>2
<1>7. ASSUME NEW x \in Spots(U), x # p PROVE x \in Spots(T)
  <2>1. CASE x[1] = n
    <3>1. x[2] \in DOMAIN U[n].content /\ x = << n, x[2] >>
      BY <2>1, LastChanged
    <3>2. x[2] # k
      BY <3>1, <1>4, <1>7
    <3>3. << n, x[2] >> \in Spots(T)
      BY <3>1, <3>2, <1>3, LastChanged
    <3>. QED BY <3>1, <3>3
  <2>2. CASE x[1] # n
    BY <2>2, LastChanged
  <2>. QED BY <2>1, <2>2
<1>. QED BY <1>5, <1>6, <1>7 DEF More

\* A block of the last turn changed.
LEMMA BlockAmended ==
  ASSUME NEW T \in Seq(TurnType), NEW U \in Seq(TurnType), NEW n \in Nat \ {0}, NEW b, NEW k,
         Len(T) = n, Len(U) = n, \A i \in 1 .. n - 1 : U[i] = T[i],
         k \in DOMAIN T[n].content, U[n].content = [T[n].content EXCEPT ![k] = b]
  PROVE  Changed(T, U, T[n].content[k], b)
<1>1. /\ DOMAIN U[n].content = DOMAIN T[n].content /\ U[n].content[k] = b
      /\ \A j \in DOMAIN T[n].content : j # k => U[n].content[j] = T[n].content[j]
  OBVIOUS
<1>2. PICK p : p = << n, k >>
  OBVIOUS
<1>3. p \in Spots(T) /\ BlockAt(U, p) = b /\ BlockAt(T, p) = T[n].content[k]
  <2>1. p \in Spots(T)
    BY <1>2, LastChanged
  <2>. QED BY <2>1, <1>1, <1>2 DEF BlockAt
<1>4. ASSUME NEW x \in Spots(T) PROVE x \in Spots(U) /\ (x # p => BlockAt(U, x) = BlockAt(T, x))
  <2>1. CASE x[1] = n
    <3>1. x[2] \in DOMAIN T[n].content /\ x = << n, x[2] >>
      BY <2>1, LastChanged
    <3>2. << n, x[2] >> \in Spots(U)
      BY <3>1, <1>1, LastChanged
    <3>3. x # p => x[2] # k
      BY <3>1, <1>2
    <3>. QED BY <2>1, <3>1, <3>2, <3>3, <1>1 DEF BlockAt
  <2>2. CASE x[1] # n
    BY <2>2, LastChanged
  <2>. QED BY <2>1, <2>2
<1>5. ASSUME NEW x \in Spots(U) PROVE x \in Spots(T)
  <2>1. CASE x[1] = n
    <3>1. x[2] \in DOMAIN U[n].content /\ x = << n, x[2] >>
      BY <2>1, LastChanged
    <3>2. << n, x[2] >> \in Spots(T)
      BY <3>1, <1>1, LastChanged
    <3>. QED BY <3>1, <3>2
  <2>2. CASE x[1] # n
    BY <2>2, LastChanged
  <2>. QED BY <2>1, <2>2
<1>6. Spots(U) = Spots(T)
  BY <1>4, <1>5
<1>7. \A x \in Spots(T) : x # p => BlockAt(U, x) = BlockAt(T, x)
  BY <1>4
<1>. QED BY <1>3, <1>6, <1>7 DEF Changed

\* What a block that is added tells: nothing of a call, a call, or an outcome that is late.
Admits(b, made, ended, tardy, made2, ended2, tardy2) ==
  \/ b.kind \notin {"call", "outcome"} /\ made2 = made /\ ended2 = ended /\ tardy2 = tardy
  \/ b.kind = "call" /\ b.id \in Call \ made /\ b.outcome = FALSE
     /\ made2 = made \union {b.id} /\ ended2 = ended /\ tardy2 = tardy
  \/ b.kind = "outcome" /\ b.id \in made \ ended
     /\ made2 = made /\ ended2 = ended \union {b.id} /\ tardy2 = tardy \union {b.id}

\* The blocks tell each thing once also when one is added, ...
LEMMA ToldAdds ==
  ASSUME NEW T, NEW U, NEW b, More(T, U, b),
         NEW made, NEW ended, NEW tardy, NEW made2, NEW ended2, NEW tardy2,
         ToldOnce(T, made, ended, tardy), tardy \subseteq ended, ended \subseteq made,
         Admits(b, made, ended, tardy, made2, ended2, tardy2)
  PROVE  ToldOnce(U, made2, ended2, tardy2)
<1>0. PICK p : /\ p \notin Spots(T) /\ Spots(U) = Spots(T) \union {p} /\ BlockAt(U, p) = b
               /\ \A x \in Spots(T) : BlockAt(U, x) = BlockAt(T, x)
  BY DEF More
<1>a. \/ b.kind \notin {"call", "outcome"} /\ made2 = made /\ ended2 = ended /\ tardy2 = tardy
      \/ b.kind = "call" /\ b.id \notin made /\ b.outcome = FALSE
         /\ made2 = made \union {b.id} /\ ended2 = ended /\ tardy2 = tardy
      \/ b.kind = "outcome" /\ b.id \in made \ ended
         /\ made2 = made /\ ended2 = ended \union {b.id} /\ tardy2 = tardy \union {b.id}
  BY DEF Admits
<1>1. ASSUME NEW x \in Spots(U), NEW y \in Spots(U), Alike(BlockAt(U, x), BlockAt(U, y)),
             BlockAt(U, x).kind \in {"call", "outcome"}
      PROVE  x = y
  <2>1. \A z \in Spots(T) : BlockAt(T, z).kind = "call" => BlockAt(T, z).id \in made
    BY <1>0, <1>a DEF ToldOnce
  <2>2. \A z \in Spots(T) : BlockAt(T, z).kind = "outcome" => BlockAt(T, z).id \in tardy
    BY <1>0, <1>a DEF ToldOnce
  <2>3. ASSUME NEW z \in Spots(T), Alike(BlockAt(U, z), b), b.kind \in {"call", "outcome"} PROVE FALSE
    BY <1>0, <1>a, <2>1, <2>2, <2>3 DEF Alike
  <2>4. CASE x \in Spots(T) /\ y \in Spots(T)
    BY <1>0, <1>a, <1>1, <2>4 DEF ToldOnce
  <2>5. CASE x = p /\ y \in Spots(T)
    BY <1>0, <1>a, <1>1, <2>3, <2>5 DEF Alike
  <2>6. CASE y = p /\ x \in Spots(T)
    BY <1>0, <1>a, <1>1, <2>3, <2>6 DEF Alike
  <2>. QED BY <1>0, <1>a, <2>4, <2>5, <2>6
<1>2. ASSUME NEW x \in Spots(U)
      PROVE  /\ BlockAt(U, x).kind = "call" =>
                  BlockAt(U, x).id \in made2 /\ (BlockAt(U, x).outcome <=> BlockAt(U, x).id \in ended2 \ tardy2)
             /\ BlockAt(U, x).kind = "outcome" => BlockAt(U, x).id \in tardy2
  <2>1. CASE x = p
    BY <1>0, <1>a, <2>1
  <2>2. CASE x \in Spots(T)
    <3>1. BlockAt(U, x) = BlockAt(T, x) /\ made \subseteq made2 /\ tardy \subseteq tardy2
      BY <1>0, <1>a, <2>2
    <3>2. BlockAt(T, x).kind = "call" =>
            BlockAt(T, x).id \in made /\ (BlockAt(T, x).outcome <=> BlockAt(T, x).id \in ended \ tardy)
      BY <1>0, <1>a, <2>2 DEF ToldOnce
    <3>3. BlockAt(T, x).kind = "outcome" => BlockAt(T, x).id \in tardy
      BY <1>0, <1>a, <2>2 DEF ToldOnce
    <3>4. ended2 \ tardy2 = ended \ tardy
      BY <1>0, <1>a
    <3>. QED BY <1>0, <1>a, <3>1, <3>2, <3>3, <3>4
  <2>. QED BY <1>0, <1>a, <2>1, <2>2
<1>3. \A c \in made2 : \E x \in Spots(U) : BlockAt(U, x).kind = "call" /\ BlockAt(U, x).id = c
  <2>1. \A c \in made : \E x \in Spots(T) : BlockAt(T, x).kind = "call" /\ BlockAt(T, x).id = c
    BY <1>0, <1>a DEF ToldOnce
  <2>. QED BY <1>0, <1>a, <2>1
<1>4. \A c \in tardy2 : \E x \in Spots(U) : BlockAt(U, x).kind = "outcome" /\ BlockAt(U, x).id = c
  <2>1. \A c \in tardy : \E x \in Spots(T) : BlockAt(T, x).kind = "outcome" /\ BlockAt(T, x).id = c
    BY <1>0, <1>a DEF ToldOnce
  <2>. QED BY <1>0, <1>a, <2>1
<1>. QED BY <1>1, <1>2, <1>3, <1>4 DEF ToldOnce

\* ... and when one is amended.
LEMMA ToldAmends ==
  ASSUME NEW T, NEW U, NEW a, NEW b, Changed(T, U, a, b), Alike(b, a),
         NEW made, NEW ended, NEW tardy, NEW ended2,
         ToldOnce(T, made, ended, tardy), tardy \subseteq ended,
         \/ b.outcome = a.outcome /\ ended2 = ended
         \/ b.kind = "call" /\ b.outcome = TRUE /\ b.id \in made \ ended /\ ended2 = ended \union {b.id}
  PROVE  ToldOnce(U, made, ended2, tardy)
<1>0. PICK p \in Spots(T) : /\ Spots(U) = Spots(T) /\ BlockAt(U, p) = b /\ BlockAt(T, p) = a
                            /\ \A x \in Spots(T) : x # p => BlockAt(U, x) = BlockAt(T, x)
  BY DEF Changed
<1>1. \A x \in Spots(T) : Alike(BlockAt(U, x), BlockAt(T, x))
  BY <1>0 DEF Alike
<1>2. ASSUME NEW x \in Spots(U), NEW y \in Spots(U), Alike(BlockAt(U, x), BlockAt(U, y)),
             BlockAt(U, x).kind \in {"call", "outcome"}
      PROVE  x = y
  <2>1. Alike(BlockAt(T, x), BlockAt(T, y)) /\ BlockAt(T, x).kind \in {"call", "outcome"}
    BY <1>0, <1>1, <1>2 DEF Alike
  <2>. QED BY <1>0, <2>1, <1>2 DEF ToldOnce
<1>3. ASSUME NEW x \in Spots(U), BlockAt(U, x).kind = "call"
      PROVE  BlockAt(U, x).id \in made /\ (BlockAt(U, x).outcome <=> BlockAt(U, x).id \in ended2 \ tardy)
  <2>1. BlockAt(T, x).kind = "call" /\ BlockAt(T, x).id = BlockAt(U, x).id
    BY <1>0, <1>1, <1>3 DEF Alike
  <2>2. BlockAt(T, x).id \in made /\ (BlockAt(T, x).outcome <=> BlockAt(T, x).id \in ended \ tardy)
    BY <1>0, <2>1, <1>3 DEF ToldOnce
  <2>3. CASE b.outcome = a.outcome /\ ended2 = ended
    BY <1>0, <2>1, <2>2, <2>3, <1>3
  <2>4. CASE b.kind = "call" /\ b.outcome = TRUE /\ b.id \in made \ ended /\ ended2 = ended \union {b.id}
    <3>1. CASE x = p
      BY <1>0, <2>1, <2>2, <2>4, <3>1
    <3>2. CASE x # p
      <4>1. BlockAt(T, x).id # b.id
        <5>1. Alike(BlockAt(T, x), BlockAt(T, p)) => x = p
          BY <1>0, <2>1, <1>3 DEF ToldOnce
        <5>. QED BY <1>0, <5>1, <2>1, <2>4, <3>2 DEF Alike
      <4>. QED BY <1>0, <2>1, <2>2, <2>4, <3>2, <4>1, <1>3
    <3>. QED BY <1>0, <3>1, <3>2
  <2>. QED BY <1>0, <2>3, <2>4
<1>4. ASSUME NEW x \in Spots(U), BlockAt(U, x).kind = "outcome" PROVE BlockAt(U, x).id \in tardy
  <2>1. BlockAt(T, x).kind = "outcome" /\ BlockAt(T, x).id = BlockAt(U, x).id
    BY <1>0, <1>1, <1>4 DEF Alike
  <2>. QED BY <1>0, <2>1, <1>4 DEF ToldOnce
<1>5. ASSUME NEW c \in made PROVE \E x \in Spots(U) : BlockAt(U, x).kind = "call" /\ BlockAt(U, x).id = c
  <2>1. PICK x \in Spots(T) : BlockAt(T, x).kind = "call" /\ BlockAt(T, x).id = c
    BY <1>0 DEF ToldOnce
  <2>. QED BY <1>0, <2>1, <1>1 DEF Alike
<1>6. ASSUME NEW c \in tardy PROVE \E x \in Spots(U) : BlockAt(U, x).kind = "outcome" /\ BlockAt(U, x).id = c
  <2>1. PICK x \in Spots(T) : BlockAt(T, x).kind = "outcome" /\ BlockAt(T, x).id = c
    BY <1>0 DEF ToldOnce
  <2>. QED BY <1>0, <2>1, <1>1 DEF Alike
<1>. QED BY <1>0, <1>2, <1>3, <1>4, <1>5, <1>6 DEF ToldOnce

\* What a message does to the turns, seen by a viewer.
Seen ==
  /\ past' \in Seq(TurnType) /\ open' \in TurnType \union {NoTurn}
  /\ shown' = Grouped(past', open') /\ op' # "reset"

Adds(b) == More(Turns(past, open), Turns(past', open'), b)
Amends(a, b) == Changed(Turns(past, open), Turns(past', open'), a, b)

LEMMA ApplySeen ==
  ASSUME TurnsInv, NEW ts \in Seq(TurnType), NEW opened \in TurnType \union {NoTurn}, Apply(ts, opened),
         NEW T, T = Turns(past, open), NEW U, U = Turns(ts, opened),
         \/ Len(U) = Len(T) + 1 /\ \A i \in 1 .. Len(T) : U[i] = T[i]
         \/ Len(U) = Len(T) /\ \A i \in 1 .. Len(T) - 1 : U[i] = T[i]
  PROVE  Seen /\ past' = ts /\ open' = opened
<1>1. /\ past' = ts /\ open' = opened
      /\ op' = PatchOp(Grouped(past, open), Grouped(ts, opened))
      /\ shown' = Patched(shown, PatchOp(Grouped(past, open), Grouped(ts, opened)), Grouped(ts, opened))
  BY DEF Apply
<1>2. shown = Grouped(past, open) /\ past \in Seq(TurnType) /\ open \in TurnType \union {NoTurn}
  BY DEF TurnsInv, TurnsTypeOK
<1>3. PICK prev : prev = Grouped(past, open)
  OBVIOUS
<1>4. PICK curr : curr = Grouped(ts, opened)
  OBVIOUS
<1>5. /\ prev \in Seq(TurnType) /\ Len(prev) = Len(T) /\ DOMAIN prev = DOMAIN T
      /\ \A i \in DOMAIN T : prev[i] = Resolved(T[i])
  BY <1>2, <1>3, GroupedShape
<1>6. /\ curr \in Seq(TurnType) /\ Len(curr) = Len(U) /\ DOMAIN curr = DOMAIN U
      /\ \A i \in DOMAIN U : curr[i] = Resolved(U[i])
  BY <1>4, GroupedShape
<1>7. DOMAIN T = 1 .. Len(T) /\ DOMAIN U = 1 .. Len(U) /\ Len(T) \in Nat /\ Len(U) \in Nat
  BY <1>5, <1>6, LenProperties
<1>8. Patched(prev, PatchOp(prev, curr), curr) = curr
  BY <1>5, <1>6, PatchLeads
<1>9. PatchOp(prev, curr) # "reset"
  <2>1. CASE Len(U) = Len(T) + 1 /\ \A i \in 1 .. Len(T) : U[i] = T[i]
    <3>1. \A i \in 1 .. Len(prev) : i \in DOMAIN T /\ i \in DOMAIN U
      <4>1. Len(prev) = Len(T) /\ Len(U) = Len(T) + 1
        BY <2>1, <1>5
      <4>. QED BY <4>1, <1>7
    <3>2. \A i \in 1 .. Len(prev) : curr[i] = prev[i]
      BY <3>1, <2>1, <1>5, <1>6
    <3>3. Len(curr) = Len(prev) + 1
      BY <2>1, <1>5, <1>6
    <3>. QED BY <3>2, <3>3, <1>5, <1>6, PatchLeads
  <2>2. CASE Len(U) = Len(T) /\ \A i \in 1 .. Len(T) - 1 : U[i] = T[i]
    <3>1. \A i \in 1 .. Len(prev) - 1 : i \in DOMAIN T /\ i \in DOMAIN U /\ i \in 1 .. Len(T) - 1
      <4>1. Len(prev) = Len(T) /\ Len(U) = Len(T)
        BY <2>2, <1>5
      <4>. QED BY <4>1, <1>7
    <3>2. \A i \in 1 .. Len(prev) - 1 : curr[i] = prev[i]
      BY <3>1, <2>2, <1>5, <1>6
    <3>3. Len(curr) = Len(prev)
      BY <2>2, <1>5, <1>6
    <3>. QED BY <3>2, <3>3, <1>5, <1>6, PatchLeads
  <2>. QED BY <2>1, <2>2
<1>. QED BY <1>1, <1>2, <1>3, <1>4, <1>8, <1>9 DEF Seen

LEMMA Begins ==
  ASSUME TurnsInv, NEW type \in {"user", "assistant", "system"}, NEW b \in BlockType, Begin(type, << b >>)
  PROVE  Seen /\ Adds(b)
<1>1. past \in Seq(TurnType) /\ open \in TurnType \union {NoTurn}
  BY DEF TurnsInv, TurnsTypeOK
<1>2. PICK T : T = Turns(past, open)
  OBVIOUS
<1>3. T \in Seq(TurnType) /\ AllTurns = T
  <2>1. T \in Seq(TurnType)
    BY <1>1, <1>2, TurnsShape
  <2>. QED BY <2>1, <1>2 DEF AllTurns, Turns
<1>4. PICK w : w = NewTurn(type, << b >>)
  OBVIOUS
<1>5. w \in TurnType /\ w.content = << b >> /\ w # NoTurn
  BY <1>4, TurnIsOne
<1>6. Apply(T, w)
  BY <1>3, <1>4 DEF Begin
<1>7. PICK U : U = Append(T, w)
  OBVIOUS
<1>8. Len(U) = Len(T) + 1 /\ \A i \in 1 .. Len(T) : U[i] = T[i]
  BY <1>3, <1>5, <1>7, AppendProperties
<1>9. U = Turns(T, w)
  BY <1>5, <1>7 DEF Turns
<1>10. Seen /\ past' = T /\ open' = w
  BY <1>2, <1>3, <1>5, <1>6, <1>8, <1>9, ApplySeen
<1>11. More(T, U, b)
  BY <1>3, <1>5, <1>7, TurnAdded
<1>12. Turns(past', open') = U
  BY <1>9, <1>10
<1>. QED BY <1>2, <1>10, <1>11, <1>12 DEF Adds

\* The open turn with other blocks.
LEMMA OpenChanged ==
  ASSUME TurnsInv, open # NoTurn, NEW s \in Seq(BlockType), Apply(past, [open EXCEPT !.content = s])
  PROVE  /\ Seen
         /\ \E T \in Seq(TurnType), U \in Seq(TurnType), n \in Nat \ {0} :
              /\ T = Turns(past, open) /\ U = Turns(past', open') /\ Len(T) = n /\ Len(U) = n
              /\ \A i \in 1 .. n - 1 : U[i] = T[i]
              /\ T[n].content = open.content /\ U[n].content = s
<1>1. past \in Seq(TurnType) /\ open \in TurnType
  BY DEF TurnsInv, TurnsTypeOK
<1>2. PICK w : w = [open EXCEPT !.content = s]
  OBVIOUS
<1>3. w \in TurnType /\ w.content = s
  BY <1>1, <1>2 DEF TurnType
<1>4. w # NoTurn
  BY <1>3, TurnIsOne
<1>5. PICK T : T = Turns(past, open)
  OBVIOUS
<1>6. PICK U : U = Turns(past, w)
  OBVIOUS
<1>7. PICK n : n = Len(past) + 1
  OBVIOUS
<1>8. n \in Nat \ {0} /\ \A i \in 1 .. n - 1 : i \in 1 .. Len(past)
  BY <1>1, <1>7, LenProperties
<1>9. T \in Seq(TurnType) /\ Len(T) = n /\ T[n] = open /\ \A i \in 1 .. Len(past) : T[i] = past[i]
  BY ZenonT(50), <1>1, <1>5, <1>7, TurnsShape
<1>10. U \in Seq(TurnType) /\ Len(U) = n /\ U[n] = w /\ \A i \in 1 .. Len(past) : U[i] = past[i]
  BY <1>1, <1>3, <1>4, <1>6, <1>7, TurnsShape
<1>11. \A i \in 1 .. n - 1 : U[i] = T[i]
  BY <1>8, <1>9, <1>10
<1>12. Seen /\ past' = past /\ open' = w
  <2>1. Apply(past, w)
    BY <1>2
  <2>2. Len(U) = Len(T) /\ \A i \in 1 .. Len(T) - 1 : U[i] = T[i]
    BY <1>9, <1>10, <1>11
  <2>. QED BY <2>1, <2>2, <1>1, <1>3, <1>5, <1>6, ApplySeen
<1>13. U = Turns(past', open')
  BY <1>6, <1>12
<1>. QED BY <1>3, <1>5, <1>8, <1>9, <1>10, <1>11, <1>12, <1>13

LEMMA Extends ==
  ASSUME TurnsInv, open # NoTurn, NEW b \in BlockType, Extend(<< b >>)
  PROVE  Seen /\ Adds(b)
<1>1. open.content \in Seq(BlockType)
  BY TurnIsOne DEF TurnsInv, TurnsTypeOK
<1>2. PICK s : s = open.content \o << b >>
  OBVIOUS
<1>3. s \in Seq(BlockType)
  <2>1. << b >> \in Seq(BlockType)
    OBVIOUS
  <2>. QED BY <1>1, <1>2, <2>1, ConcatProperties
<1>4. Apply(past, [open EXCEPT !.content = s])
  BY <1>2 DEF Extend
<1>5. /\ Seen
      /\ \E T \in Seq(TurnType), U \in Seq(TurnType), n \in Nat \ {0} :
           /\ T = Turns(past, open) /\ U = Turns(past', open') /\ Len(T) = n /\ Len(U) = n
           /\ \A i \in 1 .. n - 1 : U[i] = T[i]
           /\ T[n].content = open.content /\ U[n].content = s
  BY <1>3, <1>4, OpenChanged
<1>6. PICK T \in Seq(TurnType), U \in Seq(TurnType), n \in Nat \ {0} :
           /\ T = Turns(past, open) /\ U = Turns(past', open') /\ Len(T) = n /\ Len(U) = n
           /\ \A i \in 1 .. n - 1 : U[i] = T[i]
           /\ T[n].content = open.content /\ U[n].content = s
  BY <1>5
<1>7. T[n].content \in Seq(BlockType) /\ U[n].content = T[n].content \o << b >>
  BY <1>1, <1>2, <1>6
<1>8. More(T, U, b)
  BY <1>6, <1>7, BlockAdded
<1>. QED BY <1>5, <1>6, <1>8 DEF Adds

LEMMA Amended ==
  ASSUME TurnsInv, NEW k \in DOMAIN open.content, NEW b \in BlockType, Amend(k, b)
  PROVE  Seen /\ Amends(open.content[k], b)
<1>1. open # NoTurn
  BY DEF NoTurn
<1>2. open.content \in Seq(BlockType)
  BY TurnIsOne DEF TurnsInv, TurnsTypeOK
<1>3. PICK s : s = [open.content EXCEPT ![k] = b]
  OBVIOUS
<1>4. s \in Seq(BlockType)
  BY <1>2, <1>3, ExceptSeq, LenProperties
<1>5. [open EXCEPT !.content[k] = b] = [open EXCEPT !.content = s]
  BY <1>1, <1>3 DEF TurnsInv, TurnsTypeOK, TurnType
<1>6. Apply(past, [open EXCEPT !.content = s])
  BY <1>5 DEF Amend
<1>7. /\ Seen
      /\ \E T \in Seq(TurnType), U \in Seq(TurnType), n \in Nat \ {0} :
           /\ T = Turns(past, open) /\ U = Turns(past', open') /\ Len(T) = n /\ Len(U) = n
           /\ \A i \in 1 .. n - 1 : U[i] = T[i]
           /\ T[n].content = open.content /\ U[n].content = s
  BY <1>1, <1>4, <1>6, OpenChanged
<1>8. PICK T \in Seq(TurnType), U \in Seq(TurnType), n \in Nat \ {0} :
           /\ T = Turns(past, open) /\ U = Turns(past', open') /\ Len(T) = n /\ Len(U) = n
           /\ \A i \in 1 .. n - 1 : U[i] = T[i]
           /\ T[n].content = open.content /\ U[n].content = s
  BY <1>7
<1>9. k \in DOMAIN T[n].content /\ U[n].content = [T[n].content EXCEPT ![k] = b]
  BY <1>3, <1>8
<1>10. Changed(T, U, T[n].content[k], b)
  BY <1>8, <1>9, BlockAmended
<1>. QED BY <1>7, <1>8, <1>10 DEF Amends

\* A message that changes no block.
LEMMA Unmoved ==
  ASSUME TurnsInv, Apply(past, open) \/ Apply(AllTurns, NoTurn)
  PROVE  Seen /\ Turns(past', open') = Turns(past, open)
<1>1. past \in Seq(TurnType) /\ open \in TurnType \union {NoTurn} /\ NoTurn \in TurnType \union {NoTurn}
  BY DEF TurnsInv, TurnsTypeOK
<1>2. PICK T : T = Turns(past, open)
  OBVIOUS
<1>3. T \in Seq(TurnType) /\ AllTurns = T /\ Turns(T, NoTurn) = T
  <2>1. T \in Seq(TurnType)
    BY <1>1, <1>2, TurnsShape
  <2>. QED BY <2>1, <1>2 DEF AllTurns, Turns
<1>4. CASE Apply(past, open)
  <2>1. Seen /\ past' = past /\ open' = open
    BY <1>1, <1>2, <1>4, ApplySeen
  <2>. QED BY <2>1
<1>5. CASE Apply(AllTurns, NoTurn)
  <2>1. Apply(T, NoTurn)
    BY <1>3, <1>5
  <2>2. Seen /\ past' = T /\ open' = NoTurn
    BY <2>1, <1>1, <1>2, <1>3, ApplySeen
  <2>. QED BY <2>2, <1>2, <1>3
<1>. QED BY <1>4, <1>5

LEMMA InvAdds ==
  ASSUME TurnsInv, NEW b \in BlockType, Seen, Adds(b),
         Admits(b, called, outcomes, late, called', outcomes', late')
  PROVE  TurnsInv'
<1>1. /\ ToldOnce(Turns(past, open), called, outcomes, late)
      /\ late \subseteq outcomes /\ outcomes \subseteq called /\ called \subseteq Call
  BY DEF TurnsInv, TurnsTypeOK
<1>2. PICK T : T = Turns(past, open)
  OBVIOUS
<1>3. PICK U : U = Turns(past', open')
  OBVIOUS
<1>4. More(T, U, b)
  BY <1>2, <1>3 DEF Adds
<1>5. ToldOnce(U, called', outcomes', late')
  <2>1. PICK made2, ended2, tardy2 : made2 = called' /\ ended2 = outcomes' /\ tardy2 = late'
    OBVIOUS
  <2>2. ToldOnce(T, called, outcomes, late)
    BY <1>1, <1>2
  <2>3. Admits(b, called, outcomes, late, made2, ended2, tardy2)
    BY <2>1
  <2>4. ToldOnce(U, made2, ended2, tardy2)
    BY <1>1, <1>4, <2>2, <2>3, ToldAdds
  <2>. QED BY <2>1, <2>4
<1>6. TurnsTypeOK'
  BY <1>1 DEF TurnsTypeOK, Seen, Admits
<1>. QED BY <1>3, <1>5, <1>6 DEF TurnsInv, Seen

LEMMA InvAmends ==
  ASSUME TurnsInv, NEW a \in BlockType, NEW b \in BlockType, Seen, Amends(a, b), Alike(b, a),
         called' = called, late' = late,
         \/ b.outcome = a.outcome /\ outcomes' = outcomes
         \/ b.kind = "call" /\ b.outcome = TRUE /\ b.id \in called \ outcomes /\ outcomes' = outcomes \union {b.id}
  PROVE  TurnsInv'
<1>1. /\ ToldOnce(Turns(past, open), called, outcomes, late)
      /\ late \subseteq outcomes /\ outcomes \subseteq called /\ called \subseteq Call
  BY DEF TurnsInv, TurnsTypeOK
<1>2. PICK T : T = Turns(past, open)
  OBVIOUS
<1>3. PICK U : U = Turns(past', open')
  OBVIOUS
<1>4. Changed(T, U, a, b)
  BY <1>2, <1>3 DEF Amends
<1>5. ToldOnce(U, called, outcomes', late)
  BY <1>1, <1>2, <1>4, ToldAmends
<1>6. TurnsTypeOK'
  BY <1>1 DEF TurnsTypeOK, Seen
<1>. QED BY <1>3, <1>5, <1>6 DEF TurnsInv, Seen

LEMMA InvStays ==
  ASSUME TurnsInv, Apply(past, open) \/ Apply(AllTurns, NoTurn),
         called' = called, outcomes' = outcomes, late' = late
  PROVE  TurnsInv'
<1>1. Seen /\ Turns(past', open') = Turns(past, open)
  BY Unmoved
<1>2. TurnsTypeOK'
  BY <1>1 DEF TurnsInv, TurnsTypeOK, Seen
<1>3. ToldOnce(Turns(past', open'), called', outcomes', late')
  BY <1>1 DEF TurnsInv
<1>. QED BY <1>1, <1>2, <1>3 DEF TurnsInv, Seen

LEMMA Attaches ==
  ASSUME TurnsInv, NEW type \in {"user", "assistant", "system"}, NEW b \in BlockType,
         IF open.type = "assistant" THEN Extend(<< b >>) ELSE Begin(type, << b >>)
  PROVE  Seen /\ Adds(b)
<1>1. CASE open.type = "assistant"
  <2>1. open # NoTurn
    BY <1>1 DEF NoTurn
  <2>. QED BY <1>1, <2>1, Extends
<1>2. CASE open.type # "assistant"
  BY <1>2, Begins
<1>. QED BY <1>1, <1>2

\* The places the code looks for are places in the open turn.
LEMMA Places ==
  ASSUME TurnsInv, NEW c
  PROVE  /\ DOMAIN open.content = 1 .. Len(open.content)
         /\ \A i \in DOMAIN open.content : open.content[i] \in BlockType
         /\ CallAt(c) # 0 => CallAt(c) \in DOMAIN open.content
                             /\ open.content[CallAt(c)].kind = "call" /\ open.content[CallAt(c)].id = c
         /\ CallAt(c) = 0 => ~\E b \in ToSet(open.content) : b.kind = "call" /\ b.id = c
         /\ TaskAt(c) # 0 => TaskAt(c) \in DOMAIN open.content /\ open.content[TaskAt(c)].kind = "task"
         /\ SkillAt # 0 => SkillAt \in DOMAIN open.content /\ open.content[SkillAt].kind = "call"
<1>1. PICK s : s = open.content
  OBVIOUS
<1>2. s \in Seq(BlockType)
  BY <1>1, TurnIsOne DEF TurnsInv, TurnsTypeOK
<1>3. Len(s) \in Nat /\ DOMAIN s = 1 .. Len(s) /\ \A i \in DOMAIN s : s[i] \in BlockType
  BY <1>2, LenProperties, ElementOfSeq
<1>. DEFINE I == {i \in 1 .. Len(s) : s[i].kind = "call" /\ s[i].id = c}
            J == {i \in 1 .. Len(s) : s[i].kind = "task" /\ s[i].id = c}
            K == {i \in 1 .. Len(s) : s[i].kind = "call" /\ NameOf[s[i].id] = "Skill"}
<1>4. CallAt(c) = IF I # {} THEN Min(I) ELSE 0
  BY <1>1 DEF CallAt, First, SelectInSeq
<1>5. TaskAt(c) = IF J # {} THEN Min(J) ELSE 0
  BY <1>1 DEF TaskAt, First, SelectInSeq
<1>6. SkillAt = IF K # {} THEN Max(K) ELSE 0
  BY <1>1 DEF SkillAt, SelectLastInSeq
<1>7. I \in SUBSET (1 .. Len(s)) /\ J \in SUBSET (1 .. Len(s)) /\ K \in SUBSET (0 .. Len(s))
  BY <1>3
<1>8. /\ \A i \in I : i \in DOMAIN s /\ s[i].kind = "call" /\ s[i].id = c
      /\ \A i \in J : i \in DOMAIN s /\ s[i].kind = "task"
      /\ \A i \in K : i \in DOMAIN s /\ s[i].kind = "call"
      /\ I = {} => \A i \in DOMAIN s : ~(s[i].kind = "call" /\ s[i].id = c)
  BY <1>3
<1>. HIDE DEF I, J, K
<1>9. CallAt(c) \in I \union {0} /\ (CallAt(c) = 0 => I = {})
  <2>1. (IF I # {} THEN Min(I) ELSE 0) \in I \union {0} /\ ((IF I # {} THEN Min(I) ELSE 0) = 0 => I = {})
    BY <1>3, <1>7, LeastPlace
  <2>. QED BY <2>1, <1>4
<1>10. TaskAt(c) \in J \union {0}
  <2>1. (IF J # {} THEN Min(J) ELSE 0) \in J \union {0}
    BY <1>3, <1>7, LeastPlace
  <2>. QED BY <2>1, <1>5
<1>11. SkillAt \in K \union {0}
  <2>1. K # {} => Max(K) \in K
    BY <1>3, <1>7, MaxIsGreatest
  <2>. QED BY <2>1, <1>6
<1>12. CallAt(c) = 0 => ~\E b \in ToSet(s) : b.kind = "call" /\ b.id = c
  BY <1>8, <1>9 DEF ToSet
<1>. QED BY <1>1, <1>3, <1>8, <1>9, <1>10, <1>11, <1>12

LEMMA InitTurns == TurnsInit => TurnsInv
<1>. SUFFICES ASSUME TurnsInit PROVE TurnsInv
  OBVIOUS
<1>1. past = << >> /\ open = NoTurn /\ shown = << >> /\ op = "none" /\ called = {} /\ outcomes = {} /\ late = {}
  BY DEF TurnsInit
<1>2. << >> \in Seq(TurnType)
  OBVIOUS
<1>3. TurnsTypeOK
  BY <1>1, <1>2 DEF TurnsTypeOK
<1>4. Turns(past, open) = << >>
  BY <1>1 DEF Turns
<1>5. Grouped(past, open) = << >>
  <2>1. Grouped(past, open) \in Seq(TurnType) /\ Len(Grouped(past, open)) = Len(<< >>)
    BY <1>3, <1>4, GroupedShape DEF TurnsTypeOK
  <2>2. Len(<< >>) = 0
    OBVIOUS
  <2>. QED BY <2>1, <2>2, EmptySeq
<1>6. Spots(<< >>) = {}
  BY DEF Spots
<1>7. ToldOnce(Turns(past, open), called, outcomes, late)
  BY <1>1, <1>4, <1>6 DEF ToldOnce
<1>. QED BY <1>1, <1>3, <1>5, <1>7 DEF TurnsInv

LEMMA BlockFacts ==
  /\ \A kind \in {"text", "skill", "notice"} : Plain(kind) \in BlockType /\ Plain(kind).kind = kind
  /\ \A kind \in {"call", "outcome", "task"}, c \in Call :
       /\ Block(kind, c) \in BlockType /\ Block(kind, c).kind = kind /\ Block(kind, c).id = c
       /\ Block(kind, c).outcome = FALSE
  /\ \A b \in BlockType, status \in {"started", "progress", "notified"} :
       /\ [b EXCEPT !.status = status] \in BlockType /\ Alike([b EXCEPT !.status = status], b)
       /\ [b EXCEPT !.status = status].outcome = b.outcome
  /\ \A b \in BlockType : /\ [b EXCEPT !.skill = TRUE] \in BlockType /\ Alike([b EXCEPT !.skill = TRUE], b)
                          /\ [b EXCEPT !.skill = TRUE].outcome = b.outcome
  /\ \A b \in BlockType : /\ [b EXCEPT !.outcome = TRUE] \in BlockType /\ Alike([b EXCEPT !.outcome = TRUE], b)
                          /\ [b EXCEPT !.outcome = TRUE].outcome = TRUE
                          /\ [b EXCEPT !.outcome = TRUE].kind = b.kind /\ [b EXCEPT !.outcome = TRUE].id = b.id
<1>1. ASSUME NEW kind \in {"text", "skill", "notice"} PROVE Plain(kind) \in BlockType /\ Plain(kind).kind = kind
  BY DEF Plain, Block, BlockType
<1>2. ASSUME NEW kind \in {"call", "outcome", "task"}, NEW c \in Call
      PROVE  /\ Block(kind, c) \in BlockType /\ Block(kind, c).kind = kind /\ Block(kind, c).id = c
             /\ Block(kind, c).outcome = FALSE
  BY DEF Block, BlockType
<1>3. ASSUME NEW b \in BlockType, NEW status \in {"started", "progress", "notified"}
      PROVE  /\ [b EXCEPT !.status = status] \in BlockType /\ Alike([b EXCEPT !.status = status], b)
             /\ [b EXCEPT !.status = status].outcome = b.outcome
  BY DEF BlockType, Alike
<1>4. ASSUME NEW b \in BlockType
      PROVE  /\ [b EXCEPT !.skill = TRUE] \in BlockType /\ Alike([b EXCEPT !.skill = TRUE], b)
             /\ [b EXCEPT !.skill = TRUE].outcome = b.outcome
  BY DEF BlockType, Alike
<1>5. ASSUME NEW b \in BlockType
      PROVE  /\ [b EXCEPT !.outcome = TRUE] \in BlockType /\ Alike([b EXCEPT !.outcome = TRUE], b)
             /\ [b EXCEPT !.outcome = TRUE].outcome = TRUE
             /\ [b EXCEPT !.outcome = TRUE].kind = b.kind /\ [b EXCEPT !.outcome = TRUE].id = b.id
  BY DEF BlockType, Alike
<1>. QED BY <1>1, <1>2, <1>3, <1>4, <1>5

LEMMA TurnsStep ==
  ASSUME TurnsInv, TurnsNext
  PROVE  TurnsInv'
<1>t. called \subseteq Call /\ outcomes \subseteq called /\ late \subseteq outcomes
  BY DEF TurnsInv, TurnsTypeOK
<1>1. CASE UserSays \/ AssistantSays
  <2>1. PICK b \in BlockType : b = Plain("text") /\ b.kind = "text"
    BY BlockFacts
  <2>2. called' = called /\ outcomes' = outcomes /\ late' = late
    BY <1>1 DEF UserSays, AssistantSays
  <2>3. Begin("user", << b >>) \/ IF open.type = "assistant" THEN Extend(<< b >>) ELSE Begin("assistant", << b >>)
    BY <1>1, <2>1 DEF UserSays, AssistantSays
  <2>4. Seen /\ Adds(b)
    BY <2>3, Begins, Attaches
  <2>. QED BY <2>1, <2>2, <2>4, InvAdds DEF Admits
<1>2. CASE SkillText
  <2>1. called' = called /\ outcomes' = outcomes /\ late' = late
    BY <1>2 DEF SkillText
  <2>2. CASE open.type = "assistant" /\ SkillAt # 0
    <3>1. PICK k \in DOMAIN open.content : k = SkillAt /\ open.content[k] \in BlockType
      BY <2>2, Places
    <3>a. PICK a \in BlockType : a = open.content[k]
      BY <3>1
    <3>b. PICK b \in BlockType : b = [a EXCEPT !.skill = TRUE] /\ Alike(b, a) /\ b.outcome = a.outcome
      BY ZenonT(50), BlockFacts
    <3>2. b = [open.content[k] EXCEPT !.skill = TRUE] /\ Alike(b, open.content[k]) /\ b.outcome = open.content[k].outcome
      BY <3>a, <3>b
    <3>3. Amend(k, b)
      BY <1>2, <2>2, <3>1, <3>2 DEF SkillText
    <3>4. Seen /\ Amends(open.content[k], b)
      BY <3>3, Amended
    <3>. QED BY <2>1, <3>1, <3>2, <3>4, InvAmends
  <2>3. CASE ~(open.type = "assistant" /\ SkillAt # 0)
    <3>1. PICK b \in BlockType : b = Plain("skill") /\ b.kind = "skill"
      BY BlockFacts
    <3>2. IF open.type = "assistant" THEN Extend(<< b >>) ELSE Begin("system", << b >>)
      BY <1>2, <2>3, <3>1 DEF SkillText, AttachOrBegin
    <3>3. Seen /\ Adds(b)
      BY <3>2, Attaches
    <3>. QED BY <2>1, <3>1, <3>3, InvAdds DEF Admits
  <2>. QED BY <2>2, <2>3
<1>3. CASE SubagentText \/ TurnResult
  BY <1>3, InvStays DEF SubagentText, TurnResult
<1>4. CASE InterruptEcho
  <2>1. called' = called /\ outcomes' = outcomes /\ late' = late
    BY <1>4 DEF InterruptEcho
  <2>2. PICK b \in BlockType : b = Plain("notice") /\ b.kind = "notice"
    BY BlockFacts
  <2>3. Apply(past, open) \/ Begin("system", << b >>)
    BY <1>4, <2>2 DEF InterruptEcho
  <2>4. CASE Apply(past, open)
    BY <2>1, <2>4, InvStays
  <2>5. CASE Begin("system", << b >>)
    <3>1. Seen /\ Adds(b)
      BY <2>5, Begins
    <3>. QED BY <2>1, <2>2, <3>1, InvAdds DEF Admits
  <2>. QED BY <2>3, <2>4, <2>5
<1>5. ASSUME NEW c \in Call, AssistantCalls(c) PROVE TurnsInv'
  <2>1. c \notin called /\ called' = called \union {c} /\ outcomes' = outcomes /\ late' = late
    BY <1>5 DEF AssistantCalls
  <2>2. PICK b \in BlockType : b = Block("call", c) /\ b.kind = "call" /\ b.id = c /\ b.outcome = FALSE
    BY BlockFacts
  <2>3. IF open.type = "assistant" THEN Extend(<< b >>) ELSE Begin("assistant", << b >>)
    BY <1>5, <2>2 DEF AssistantCalls
  <2>4. Seen /\ Adds(b)
    BY <2>3, Attaches
  <2>. QED BY <2>1, <2>2, <2>4, InvAdds DEF Admits
<1>6. ASSUME NEW c \in Call, Outcome(c) PROVE TurnsInv'
  <2>1. c \in called \ outcomes /\ outcomes' = outcomes \union {c} /\ called' = called
    BY <1>6 DEF Outcome
  <2>2. CASE open.type = "assistant" /\ CallAt(c) # 0
    <3>1. PICK k \in DOMAIN open.content :
            k = CallAt(c) /\ open.content[k] \in BlockType /\ open.content[k].kind = "call" /\ open.content[k].id = c
      BY <2>2, Places
    <3>2. open.content[k] \in ToSet(open.content)
      BY <3>1 DEF ToSet
    <3>3. late' = late
      BY <1>6, <2>2, <3>1, <3>2 DEF Outcome
    <3>a. PICK a \in BlockType : a = open.content[k]
      BY <3>1
    <3>b. PICK b \in BlockType : /\ b = [a EXCEPT !.outcome = TRUE] /\ Alike(b, a)
                                 /\ b.outcome = TRUE /\ b.kind = a.kind /\ b.id = a.id
      BY ZenonT(50), BlockFacts
    <3>4. /\ b = [open.content[k] EXCEPT !.outcome = TRUE] /\ Alike(b, open.content[k])
          /\ b.outcome = TRUE /\ b.kind = "call" /\ b.id = c
      BY <3>1, <3>a, <3>b
    <3>5. Amend(k, b)
      BY <1>6, <2>2, <3>1, <3>4 DEF Outcome
    <3>6. Seen /\ Amends(open.content[k], b)
      BY <3>5, Amended
    <3>. QED BY <2>1, <3>1, <3>3, <3>4, <3>6, InvAmends
  <2>3. CASE ~(open.type = "assistant" /\ CallAt(c) # 0)
    <3>1. ~(open.type = "assistant" /\ \E b \in ToSet(open.content) : b.kind = "call" /\ b.id = c)
      BY <2>3, Places
    <3>2. late' = late \union {c}
      BY <1>6, <3>1 DEF Outcome
    <3>3. PICK b \in BlockType : b = Block("outcome", c) /\ b.kind = "outcome" /\ b.id = c
      BY BlockFacts
    <3>4. IF open.type = "assistant" THEN Extend(<< b >>) ELSE Begin("system", << b >>)
      BY <1>6, <2>3, <3>3 DEF Outcome, AttachOrBegin
    <3>5. Seen /\ Adds(b)
      BY <3>4, Attaches
    <3>. QED BY <2>1, <3>2, <3>3, <3>5, InvAdds DEF Admits
  <2>. QED BY <2>2, <2>3
<1>7. ASSUME NEW c \in called, NEW status \in {"started", "progress", "notified"}, TaskSays(c, status)
      PROVE  TurnsInv'
  <2>1. called' = called /\ outcomes' = outcomes /\ late' = late
    BY <1>7 DEF TaskSays
  <2>2. CASE status # "started" /\ TaskAt(c) # 0
    <3>1. PICK k \in DOMAIN open.content : k = TaskAt(c) /\ open.content[k] \in BlockType
      BY <2>2, Places
    <3>a. PICK a \in BlockType : a = open.content[k]
      BY <3>1
    <3>b. PICK b : b = [a EXCEPT !.status = status]
      OBVIOUS
    <3>c. b \in BlockType /\ Alike(b, a) /\ b.outcome = a.outcome
      BY <3>b DEF BlockType, Alike
    <3>2. b = [open.content[k] EXCEPT !.status = status] /\ Alike(b, open.content[k]) /\ b.outcome = open.content[k].outcome
      BY <3>a, <3>b, <3>c
    <3>3. Amend(k, b)
      BY <1>7, <2>2, <3>1, <3>2 DEF TaskSays
    <3>4. Seen /\ Amends(open.content[k], b)
      BY <3>3, <3>c, Amended
    <3>. QED BY <2>1, <3>1, <3>2, <3>4, <3>c, InvAmends
  <2>3. CASE ~(status # "started" /\ TaskAt(c) # 0)
    <3>1. PICK a \in BlockType : a = Block("task", c) /\ a.kind = "task"
      BY <1>t, BlockFacts
    <3>2. PICK b \in BlockType : b = [a EXCEPT !.status = status] /\ Alike(b, a)
      BY BlockFacts
    <3>3. IF open.type = "assistant" THEN Extend(<< b >>) ELSE Begin("system", << b >>)
      BY <1>7, <2>3, <3>1, <3>2 DEF TaskSays, AttachOrBegin
    <3>4. Seen /\ Adds(b)
      BY <3>3, Attaches
    <3>5. b.kind = "task"
      BY <3>1, <3>2 DEF Alike
    <3>. QED BY <2>1, <3>4, <3>5, InvAdds DEF Admits
  <2>. QED BY <2>2, <2>3
<1>. QED BY <1>1, <1>2, <1>3, <1>4, <1>5, <1>6, <1>7 DEF TurnsNext

\* What is told once is there once.
LEMMA CountOnce ==
  ASSUME TurnsInv
  PROVE  LiveView
<1>1. PICK T : T = Turns(past, open)
  OBVIOUS
<1>2. past \in Seq(TurnType) /\ open \in TurnType \union {NoTurn} /\ outcomes \subseteq called /\ late \subseteq outcomes
  BY DEF TurnsInv, TurnsTypeOK
<1>3. T \in Seq(TurnType) /\ DOMAIN T = 1 .. Len(T) /\ \A i \in DOMAIN T : T[i] \in TurnType
  <2>1. T \in Seq(TurnType)
    BY <1>1, <1>2, TurnsShape
  <2>. QED BY <2>1, LenProperties, ElementOfSeq
<1>4. DOMAIN shown = DOMAIN T /\ \A i \in DOMAIN T : shown[i] = Resolved(T[i])
  BY <1>1, <1>2, GroupedShape DEF TurnsInv
<1>5. \A i \in DOMAIN T :
        /\ DOMAIN shown[i].content = DOMAIN T[i].content
        /\ \A j \in DOMAIN T[i].content : /\ Alike(shown[i].content[j], T[i].content[j])
                                          /\ shown[i].content[j].outcome = T[i].content[j].outcome
  BY <1>3, <1>4, ResolvedKeeps
<1>6. Spots(shown) = Spots(T)
  <2>1. ASSUME NEW x \in Spots(shown) PROVE x \in Spots(T)
    <3>1. x[1] \in DOMAIN shown /\ x[2] \in DOMAIN shown[x[1]].content /\ x = << x[1], x[2] >>
      BY WhereIs
    <3>2. << x[1], x[2] >> \in Spots(T)
      BY <3>1, <1>4, <1>5, WhereIs
    <3>. QED BY <3>1, <3>2
  <2>2. ASSUME NEW x \in Spots(T) PROVE x \in Spots(shown)
    <3>1. x[1] \in DOMAIN T /\ x[2] \in DOMAIN T[x[1]].content /\ x = << x[1], x[2] >>
      BY WhereIs
    <3>2. << x[1], x[2] >> \in Spots(shown)
      BY <3>1, <1>4, <1>5, WhereIs
    <3>. QED BY <3>1, <3>2
  <2>. QED BY <2>1, <2>2
<1>7. ASSUME NEW x \in Spots(T)
      PROVE  Alike(BlockAt(shown, x), BlockAt(T, x)) /\ BlockAt(shown, x).outcome = BlockAt(T, x).outcome
  <2>1. x[1] \in DOMAIN T /\ x[2] \in DOMAIN T[x[1]].content
    BY WhereIs
  <2>. QED BY <2>1, <1>5 DEF BlockAt
<1>8. ToldOnce(T, called, outcomes, late)
  BY <1>1 DEF TurnsInv
<1>9. ASSUME NEW c \in outcomes
      PROVE  /\ Times(LAMBDA b : b.id = c /\ b.kind = "call" /\ b.outcome) = IF c \in late THEN 0 ELSE 1
             /\ Times(LAMBDA b : b.id = c /\ b.kind = "outcome") = IF c \in late THEN 1 ELSE 0
  <2>. DEFINE In == {x \in Spots(shown) : BlockAt(shown, x).id = c /\ BlockAt(shown, x).kind = "call"
                                            /\ BlockAt(shown, x).outcome}
              Out == {x \in Spots(shown) : BlockAt(shown, x).id = c /\ BlockAt(shown, x).kind = "outcome"}
  <2>1. /\ Times(LAMBDA b : b.id = c /\ b.kind = "call" /\ b.outcome) = Cardinality(In)
        /\ Times(LAMBDA b : b.id = c /\ b.kind = "outcome") = Cardinality(Out)
    BY DEF Times, Spots, BlockAt
  <2>2. In = {x \in Spots(T) : BlockAt(T, x).id = c /\ BlockAt(T, x).kind = "call" /\ BlockAt(T, x).outcome}
    BY <1>6, <1>7 DEF Alike
  <2>3. Out = {x \in Spots(T) : BlockAt(T, x).id = c /\ BlockAt(T, x).kind = "outcome"}
    BY <1>6, <1>7 DEF Alike
  <2>. HIDE DEF In, Out
  <2>4. CASE c \in late
    <3>1. In = {}
      BY <2>2, <2>4, <1>8 DEF ToldOnce
    <3>2. PICK x \in Spots(T) : BlockAt(T, x).kind = "outcome" /\ BlockAt(T, x).id = c
      BY <2>4, <1>8 DEF ToldOnce
    <3>3. ASSUME NEW y \in Out PROVE y = x
      <4>1. y \in Spots(T) /\ Alike(BlockAt(T, x), BlockAt(T, y)) /\ BlockAt(T, x).kind \in {"call", "outcome"}
        BY <2>3, <3>2, <3>3 DEF Alike
      <4>. QED BY <4>1, <1>8 DEF ToldOnce
    <3>4. Out = {x}
      BY <2>3, <3>2, <3>3
    <3>5. Cardinality(In) = 0 /\ Cardinality(Out) = 1
      BY <3>1, <3>4, FS_EmptySet, FS_Singleton
    <3>. QED BY <2>1, <2>4, <3>5
  <2>5. CASE c \notin late
    <3>1. Out = {}
      BY <2>3, <2>5, <1>8 DEF ToldOnce
    <3>2. PICK x \in Spots(T) : BlockAt(T, x).kind = "call" /\ BlockAt(T, x).id = c
      BY <1>2, <1>8 DEF ToldOnce
    <3>3. ASSUME NEW y \in In PROVE y = x
      <4>1. y \in Spots(T) /\ Alike(BlockAt(T, x), BlockAt(T, y)) /\ BlockAt(T, x).kind \in {"call", "outcome"}
        BY <2>2, <3>2, <3>3 DEF Alike
      <4>. QED BY <4>1, <1>8 DEF ToldOnce
    <3>4. BlockAt(T, x).outcome
      BY <2>5, <3>2, <1>8 DEF ToldOnce
    <3>5. In = {x}
      BY <2>2, <3>2, <3>3, <3>4
    <3>6. Cardinality(In) = 1 /\ Cardinality(Out) = 0
      BY <3>1, <3>5, FS_EmptySet, FS_Singleton
    <3>. QED BY <2>1, <2>5, <3>6
  <2>. QED BY <2>4, <2>5
<1>10. shown = Grouped(past, open) /\ op # "reset"
  BY DEF TurnsInv
<1>. QED BY <1>9, <1>10 DEF LiveView

\* For any calls and any number of messages: who applies the patches has the turns, and the
\* outcome of each call once.
THEOREM ViewIsLive == TurnsSpec => []LiveView
<1>1. TurnsInv /\ [TurnsNext]_turns => TurnsInv'
  <2>1. TurnsInv /\ TurnsNext => TurnsInv'
    BY TurnsStep
  <2>2. TurnsInv /\ UNCHANGED turns => TurnsInv'
    BY DEF turns, TurnsInv, TurnsTypeOK
  <2>. QED BY <2>1, <2>2
<1>2. TurnsInv => LiveView
  BY CountOnce
<1>. QED BY <1>1, <1>2, InitTurns, PTL DEF TurnsSpec

=================================================================================
