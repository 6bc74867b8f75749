------------------------ MODULE GenerationWorker_proofs ------------------------
(***************************************************************************)
(* Proofs about GenerationWorker for every set of keys, providers and      *)
(* configurations, and every bound.                                        *)
(***************************************************************************)
EXTENDS GenerationWorker, TaskQueue_proofs, FiniteSetTheorems, TLAPS

-------------------------------------------------------------------------------
(* Type correctness.                                                         *)

LEMMA InitTyped == Init => TypeOK
<1>. SUFFICES ASSUME Init PROVE TypeOK
  OBVIOUS
<1>1. RowsTypeOK /\ LeaseTypeOK
  BY TableAssumption DEF Init, TablesInit, RowsTypeOK, LeaseTypeOK, Status, Task
<1>2. /\ pc \in [Worker -> Label] /\ lane \in [Worker -> Media]
      /\ seen \in [Worker -> SUBSET Task] /\ owns \in [Worker -> BOOLEAN]
      /\ inflight \in [Worker -> SUBSET Entry] /\ execs \subseteq Exec
  BY DEF Init, Label, Media
<1>3. limit \in [Worker -> Pools] /\ tries \in [Task -> 0 .. MaxTries]
  BY WorkerAssumption DEF Init
<1>4. cancelling \subseteq Task \ InState("absent")
  BY DEF Init
<1>5. restarts \in 0 .. MaxRestarts /\ faults \in 0 .. MaxFaults
  BY WorkerAssumption DEF Init
<1>6. \A w \in Worker : pc[w] \notin Holding /\ seen[w] = {}
  BY DEF Init, Holding
<1>7. \A x \in execs : status[x.task] # "absent"
  BY DEF Init
<1>. QED BY <1>1, <1>2, <1>3, <1>4, <1>5, <1>6, <1>7, TablesSplit DEF TypeOK

\* A step either moves existing rows, or makes the next row, or leaves them.
LEMMA StepRows ==
  ASSUME TypeOK, SameProject, [Next]_vars
  PROVE  \/ \E S, s : Moves(S, s)
         \/ \E k \in Key, d \in 0 .. MaxTasks : Enqueue(k, d) /\ EnqueueRequest
         \/ UNCHANGED << status, key, dep >>
<1>. DEFINE Goal == \/ \E S, s : Moves(S, s)
                    \/ \E k \in Key, d \in 0 .. MaxTasks : Enqueue(k, d) /\ EnqueueRequest
                    \/ UNCHANGED << status, key, dep >>
<1>t. RowsTypeOK
  BY TablesSplit DEF TypeOK
<1>x. \A x \in execs : x.task \in Task \ InState("absent")
  BY DEF TypeOK, Exec, InState
<1>s. \A w \in Worker : seen[w] \subseteq Task \ InState("absent")
  BY DEF TypeOK, InState
<1>c. cancelling \subseteq Task \ InState("absent")
  BY DEF TypeOK
<1>1. ASSUME NEW w \in Worker, Loop(w) PROVE Goal
  <2>start. CASE Start(w) BY <2>start DEF Start, tables
  <2>renew. CASE RenewLease(w) BY <2>renew DEF RenewLease
  <2>recover. CASE RecoverSelect(w) BY <2>recover DEF RecoverSelect, tables
  <2>requeue. CASE RecoverUpdate(w)
    BY <2>requeue, <1>t, <1>s, RowMoves DEF RecoverUpdate
  <2>select. CASE ClaimSelect(w) BY <2>select DEF ClaimSelect, tables
  <2>take. CASE ClaimUpdate(w)
    <3>1. PICK t \in seen[w] : TakeRow(t) \/ UNCHANGED status
      BY <2>take DEF ClaimUpdate
    <3>2. UNCHANGED << key, dep >>
      BY <2>take DEF ClaimUpdate
    <3>. QED BY <3>1, <3>2, <1>t, <1>s, RowMoves
  <2>route. CASE Route(w) BY <2>route DEF Route, tables
  <2>putback. CASE PutBack(w)
    <3>1. RequeueRows(seen[w]) \/ UNCHANGED status
      BY <2>putback DEF PutBack
    <3>2. UNCHANGED << key, dep >>
      BY <2>putback DEF PutBack
    <3>. QED BY <3>1, <3>2, <1>t, <1>s, RowMoves
  <2>refuse. CASE RefuseSelect(w) BY <2>refuse DEF RefuseSelect, tables
  <2>refuseWrite. CASE RefuseUpdate(w)
    <3>1. PICK t \in seen[w] : FailRow(t)
      BY <2>refuseWrite DEF RefuseUpdate
    <3>2. UNCHANGED << key, dep >>
      BY <2>refuseWrite DEF RefuseUpdate
    <3>. QED BY <3>1, <3>2, <1>t, <1>s, RowMoves
  <2>finish. CASE FinishStop(w) BY <2>finish DEF FinishStop, Vanish
  <2>exit. CASE ExitDead(w) BY <2>exit DEF ExitDead, Vanish
  <2>. QED BY <1>1, <2>start, <2>renew, <2>recover, <2>requeue, <2>select, <2>take, <2>route,
              <2>putback, <2>refuse, <2>refuseWrite, <2>finish, <2>exit DEF Loop
<1>2. ASSUME NEW w \in Worker, Disturb(w) PROVE Goal
  BY <1>2 DEF Disturb, Crash, Vanish, Stop, LoopDies, ReloadLimits, tables
<1>3. ASSUME NEW x \in execs, Execute(x) \/ Abort(x) PROVE Goal
  <2>1. CASE Succeed(x)
    <3>1. SucceedRow(x.task) /\ UNCHANGED << key, dep >>
      BY <2>1 DEF Succeed
    <3>. QED BY <3>1, <1>t, <1>x, RowMoves
  <2>2. CASE FailSelect(x) BY <2>2 DEF FailSelect, tables
  <2>3. CASE FailUpdate(x)
    <3>1. FailRow(x.task) /\ UNCHANGED << key, dep >>
      BY <2>3 DEF FailUpdate
    <3>. QED BY <3>1, <1>t, <1>x, RowMoves
  <2>4. CASE Abort(x) BY <2>4 DEF Abort, tables
  <2>. QED BY <1>3, <2>1, <2>2, <2>3, <2>4 DEF Execute
<1>4. ASSUME Request PROVE Goal
  <2>1. CASE EnqueueRequest BY <2>1 DEF EnqueueRequest
  <2>2. CASE CancelSelect BY <2>2 DEF CancelSelect, tables
  <2>3. CASE CancelUpdate
    <3>1. PICK t \in cancelling : CancelRow(t)
      BY <2>3 DEF CancelUpdate
    <3>2. UNCHANGED << key, dep >>
      BY <2>3 DEF CancelUpdate
    <3>. QED BY <3>1, <3>2, <1>t, <1>c, RowMoves
  <2>4. CASE CancelAll
    <3>1. PICK k \in Key : CancelProject(ProjectOf[k])
      BY <2>4 DEF CancelAll
    <3>2. UNCHANGED << key, dep >>
      BY <2>4 DEF CancelAll
    <3>. QED BY <3>1, <3>2, <1>t, RowMoves
  <2>. QED BY <1>4, <2>1, <2>2, <2>3, <2>4 DEF Request
<1>5. CASE LeaseTimeout BY <1>5 DEF LeaseTimeout, LeaseExpires
<1>6. CASE UNCHANGED vars BY <1>6 DEF vars
<1>. QED BY <1>1, <1>2, <1>3, <1>4, <1>5, <1>6 DEF Next

LEMMA StepKeepsRows ==
  ASSUME TypeOK, SameProject, [Next]_vars
  PROVE  /\ RowsTypeOK'
         /\ \A t \in Task : status[t] # "absent" => status'[t] # "absent"
<1>t. RowsTypeOK
  BY TablesSplit DEF TypeOK
<1>1. CASE \E S, s : Moves(S, s)
  BY <1>1, <1>t, MovesKeepsRows
<1>2. CASE \E k \in Key, d \in 0 .. MaxTasks : Enqueue(k, d) /\ EnqueueRequest
  BY <1>2, <1>t, EnqueueKeepsRows
<1>3. CASE UNCHANGED << status, key, dep >>
  BY <1>3, <1>t DEF RowsTypeOK
<1>. QED BY <1>1, <1>2, <1>3, StepRows

\* The rest of TypeOK, by parts.
LoopTypeOK ==
  /\ pc \in [Worker -> Label]
  /\ lane \in [Worker -> Media]
  /\ seen \in [Worker -> SUBSET Task]
  /\ owns \in [Worker -> BOOLEAN]
  /\ limit \in [Worker -> Pools]
  /\ inflight \in [Worker -> SUBSET Entry]

HoldsOne ==
  \A w \in Worker :
    /\ pc[w] \in Holding => \E t \in Task : seen[w] = {t}
    /\ pc[w] \notin Holding \cup {"requeue"} => seen[w] = {}

SeenExist == \A w \in Worker : \A t \in seen[w] : status[t] # "absent"

ExecsTypeOK ==
  /\ execs \subseteq Exec
  /\ \A x \in execs : status[x.task] # "absent"
  /\ tries \in [Task -> 0 .. MaxTries]

EnvTypeOK ==
  /\ cancelling \subseteq Task \ InState("absent")
  /\ restarts \in 0 .. MaxRestarts
  /\ faults \in 0 .. MaxFaults

LEMMA TypeSplit ==
  TypeOK <=> RowsTypeOK /\ LeaseTypeOK /\ LoopTypeOK /\ HoldsOne /\ SeenExist
             /\ ExecsTypeOK /\ EnvTypeOK
BY TablesSplit DEF TypeOK, LoopTypeOK, HoldsOne, SeenExist, ExecsTypeOK, EnvTypeOK

LEMMA GotoEffect ==
  ASSUME LoopTypeOK, NEW w \in Worker, NEW l \in Label, NEW m \in Media, Goto(w, l, m)
  PROVE  /\ pc' \in [Worker -> Label] /\ lane' \in [Worker -> Media]
         /\ pc'[w] = l /\ lane'[w] = m
         /\ \A v \in Worker \ {w} : pc'[v] = pc[v] /\ lane'[v] = lane[v]
BY DEF Goto, LoopTypeOK

\* Where the loop goes when it enters the lanes or leaves one.
LEMMA LaneEffect ==
  ASSUME LoopTypeOK, NEW w \in Worker, NEW L, NEW I,
         EnterLanes(w, L, I) \/ EndLane(w, L, I)
  PROVE  /\ pc' \in [Worker -> Label] /\ lane' \in [Worker -> Media]
         /\ pc'[w] \in {"select", "renew"}
         /\ \A v \in Worker \ {w} : pc'[v] = pc[v] /\ lane'[v] = lane[v]
<1>1. \E l \in {"select", "renew"}, m \in Media : Goto(w, l, m)
  BY DEF EnterLanes, EndLane, Media
<1>2. {"select", "renew"} \subseteq Label
  BY DEF Label
<1>. QED BY <1>1, <1>2, GotoEffect

LEMMA StepKeepsLease ==
  ASSUME LeaseTypeOK, [Next]_vars
  PROVE  LeaseTypeOK'
<1>1. ASSUME NEW w \in Worker, AcquireLease(w) PROVE LeaseTypeOK'
  BY <1>1, TableAssumption DEF AcquireLease, LeaseTypeOK
<1>2. ASSUME NEW w \in Worker, ReleaseLease(w) PROVE LeaseTypeOK'
  BY <1>2 DEF ReleaseLease, LeaseTypeOK
<1>3. ASSUME UNCHANGED lease PROVE LeaseTypeOK'
  BY <1>3 DEF LeaseTypeOK
<1>4. ASSUME NEW w \in Worker, Loop(w) \/ Disturb(w) PROVE LeaseTypeOK'
  <2>renew. CASE RenewLease(w) BY <2>renew, <1>1, <1>3 DEF RenewLease
  <2>finish. CASE FinishStop(w) BY <2>finish, <1>2, <1>3 DEF FinishStop
  <2>dies. CASE LoopDies(w) BY <2>dies, <1>2, <1>3 DEF LoopDies
  <2>crash. CASE Crash(w)
    <3>1. lease' = IF lease.owner = w THEN [lease EXCEPT !.owner = Departed] ELSE lease
      BY <2>crash DEF Crash
    <3>2. lease = [owner |-> lease.owner, fresh |-> lease.fresh]
      BY DEF LeaseTypeOK
    <3>3. lease' = IF lease.owner = w THEN [owner |-> Departed, fresh |-> lease.fresh]
                                      ELSE lease
      BY <3>1, <3>2
    <3>. QED BY <3>3, TableAssumption DEF LeaseTypeOK
  <2>rest. CASE \/ Start(w) \/ RecoverSelect(w) \/ RecoverUpdate(w) \/ ClaimSelect(w)
                \/ ClaimUpdate(w) \/ Route(w) \/ PutBack(w) \/ RefuseSelect(w)
                \/ RefuseUpdate(w) \/ ExitDead(w) \/ Stop(w) \/ ReloadLimits(w)
    BY <2>rest, <1>3 DEF Start, RecoverSelect, RecoverUpdate, ClaimSelect, ClaimUpdate,
       Route, PutBack, RefuseSelect, RefuseUpdate, ExitDead, Stop, ReloadLimits, tables
  <2>. QED BY <1>4, <2>renew, <2>finish, <2>dies, <2>crash, <2>rest DEF Loop, Disturb
<1>5. ASSUME NEW x \in execs, Execute(x) \/ Abort(x) PROVE LeaseTypeOK'
  BY <1>5, <1>3 DEF Execute, Succeed, FailSelect, FailUpdate, Abort, tables
<1>6. CASE Request
  BY <1>6, <1>3 DEF Request, EnqueueRequest, Enqueue, CancelSelect, CancelUpdate,
     CancelAll, tables
<1>7. CASE LeaseTimeout
  <2>1. lease.fresh /\ lease' = [owner |-> lease.owner, fresh |-> FALSE]
    BY <1>7 DEF LeaseTimeout, LeaseExpires, LeaseTypeOK
  <2>. QED BY <2>1 DEF LeaseTypeOK
<1>8. CASE UNCHANGED vars
  BY <1>8, <1>3 DEF vars
<1>. QED BY <1>4, <1>5, <1>6, <1>7, <1>8 DEF Next

\* What a step may do to the loop of one worker; the other loops stay put.
LoopSteps(w) ==
  /\ pc' \in [Worker -> Label] /\ lane' \in [Worker -> Media]
  /\ \A v \in Worker \ {w} : pc'[v] = pc[v] /\ seen'[v] = seen[v]
  /\ seen' \in [Worker -> SUBSET Task]
  /\ \/ pc'[w] \in Holding /\ \E t \in Task : seen'[w] = {t} /\ status[t] # "absent"
     \/ pc'[w] = "requeue" /\ \A t \in seen'[w] : status[t] # "absent"
     \/ pc'[w] \notin Holding /\ seen'[w] = {}
     \/ pc'[w] = pc[w] /\ seen'[w] = seen[w]

LEMMA DispatchTyped ==
  ASSUME TypeOK, NEW w \in Worker, NEW t \in seen[w], NEW p \in Provider, NEW L,
         Dispatch(w, L, p, t)
  PROVE  /\ inflight' \in [Worker -> SUBSET Entry]
         /\ execs' \subseteq Exec
         /\ tries' \in [Task -> 0 .. MaxTries]
         /\ \A x \in execs' : status[x.task] # "absent"
<1>. DEFINE n == tries[t] + 1
            entry == [task |-> t, try |-> n, provider |-> p]
            exec == [task |-> t, try |-> n, provider |-> p, worker |-> w, phase |-> "run"]
<1>1. t \in Task /\ status[t] # "absent"
  BY DEF TypeOK
<1>2. n \in 1 .. MaxTries
  BY <1>1, WorkerAssumption DEF Dispatch, TypeOK
<1>3. entry \in Entry /\ exec \in Exec
  BY <1>1, <1>2 DEF Entry, Exec
<1>4. inflight' = [inflight EXCEPT ![w] =
                     {e \in inflight[w] : ~ (e.task = t /\ e.provider = p)} \cup {entry}]
  BY DEF Dispatch
<1>5. inflight' \in [Worker -> SUBSET Entry]
  BY <1>3, <1>4 DEF TypeOK
<1>6. execs' = execs \cup {exec} /\ tries' = [tries EXCEPT ![t] = n]
  BY DEF Dispatch
<1>7. tries' \in [Task -> 0 .. MaxTries]
  BY <1>1, <1>2, <1>6 DEF TypeOK
<1>8. \A x \in execs' : status[x.task] # "absent"
  BY <1>1, <1>6 DEF TypeOK
<1>. QED BY <1>3, <1>5, <1>6, <1>7, <1>8 DEF TypeOK

LEMMA WithPoolTyped ==
  ASSUME NEW L \in Pools, NEW p \in Provider
  PROVE  WithPool(L, p) \in Pools
<1>1. [m \in Media |-> DefaultMax] \in [Media -> Nat]
  BY WorkerAssumption
<1>. QED BY <1>1 DEF WithPool, Pools

\* One step of a loop, action by action.
LEMMA LoopStep ==
  ASSUME TypeOK, NEW w \in Worker, Loop(w) \/ Disturb(w)
  PROVE  LoopSteps(w)
<1>t. LoopTypeOK /\ HoldsOne /\ SeenExist
  BY TypeSplit
<1>l. /\ {"off", "renew", "recover", "requeue", "select", "draining", "dead"} \subseteq Label
      /\ Holding \subseteq Label /\ "image" \in Media
  BY DEF Label, Media, Holding
<1>h. {"off", "renew", "recover", "requeue", "select", "draining", "dead"} \cap Holding = {}
  BY DEF Holding
<1>e. ASSUME seen' = [seen EXCEPT ![w] = {}], NEW l \in Label, NEW m \in Media,
             l \notin Holding, Goto(w, l, m)
      PROVE  LoopSteps(w)
  BY <1>e, <1>t, GotoEffect DEF LoopSteps, LoopTypeOK
<1>d. ASSUME seen' = [seen EXCEPT ![w] = {}], NEW L, NEW I,
             EnterLanes(w, L, I) \/ EndLane(w, L, I)
      PROVE  LoopSteps(w)
  BY <1>d, <1>t, <1>h, LaneEffect DEF LoopSteps, LoopTypeOK
<1>k. ASSUME UNCHANGED seen, pc[w] \in Holding, NEW l \in Holding, Goto(w, l, lane[w])
      PROVE  LoopSteps(w)
  <2>1. lane[w] \in Media /\ l \in Label
    BY <1>t, <1>l DEF LoopTypeOK
  <2>2. \E t \in Task : seen[w] = {t} /\ status[t] # "absent"
    BY <1>t, <1>k DEF HoldsOne, SeenExist
  <2>. QED BY <1>k, <1>t, <2>1, <2>2, GotoEffect DEF LoopSteps, LoopTypeOK
<1>n. ASSUME UNCHANGED seen, pc[w] \notin Holding \cup {"requeue"}
      PROVE  seen' = [seen EXCEPT ![w] = {}]
  BY <1>n, <1>t DEF HoldsOne, LoopTypeOK
<1>1. CASE Start(w)
  BY <1>1, <1>e, <1>n, <1>l, <1>h DEF Start, Holding
<1>2. CASE RenewLease(w)
  <2>1. UNCHANGED seen /\ pc[w] = "renew"
    BY <1>2 DEF RenewLease
  <2>2. seen' = [seen EXCEPT ![w] = {}]
    BY <2>1, <1>n DEF Holding
  <2>3. \/ \E l \in {"renew", "recover"} : Goto(w, l, "image")
        \/ EnterLanes(w, limit[w], LiveEntries(w))
    BY <1>2 DEF RenewLease
  <2>. QED BY <2>2, <2>3, <1>e, <1>d, <1>l, <1>h
<1>3. CASE RecoverSelect(w)
  <2>1. seen' = [seen EXCEPT ![w] = Running] /\ Goto(w, "requeue", "image")
    BY <1>3 DEF RecoverSelect
  <2>2. Running \subseteq Task /\ \A t \in Running : status[t] # "absent"
    BY DEF Running, InState
  <2>. QED BY <2>1, <2>2, <1>t, <1>l, GotoEffect DEF LoopSteps, LoopTypeOK
<1>4. CASE RecoverUpdate(w)
  BY <1>4, <1>d DEF RecoverUpdate
<1>5. CASE ClaimSelect(w)
  <2>. DEFINE found == Oldest(Claimable(lane[w]))
  <2>1. seen' = [seen EXCEPT ![w] = found]
    BY <1>5 DEF ClaimSelect
  <2>2. Claimable(lane[w]) \subseteq Task /\ \A t \in Claimable(lane[w]) : status[t] # "absent"
    BY DEF Claimable, Queued, InState
  <2>3. CASE found = {}
    BY <2>1, <2>3, <1>5, <1>d DEF ClaimSelect
  <2>4. CASE found # {}
    <3>1. \E t \in Task : found = {t} /\ status[t] # "absent"
      BY <2>2, <2>4, OldestIsOne DEF Oldest
    <3>2. Goto(w, "take", lane[w]) /\ lane[w] \in Media /\ "take" \in Holding /\ "take" \in Label
      BY <1>5, <2>4, <1>t DEF ClaimSelect, LoopTypeOK, Holding, Label
    <3>3. /\ pc' \in [Worker -> Label] /\ lane' \in [Worker -> Media] /\ pc'[w] = "take"
          /\ \A v \in Worker \ {w} : pc'[v] = pc[v]
      BY <3>2, <1>t, GotoEffect
    <3>4. found \subseteq Task
      BY <3>1
    <3>5. /\ seen' \in [Worker -> SUBSET Task] /\ seen'[w] = found
          /\ \A v \in Worker \ {w} : seen'[v] = seen[v]
      BY <2>1, <3>4, <1>t DEF LoopTypeOK
    <3>. QED BY <3>1, <3>2, <3>3, <3>5 DEF LoopSteps
  <2>. QED BY <2>3, <2>4
<1>6. CASE ClaimUpdate(w)
  <2>1. \/ UNCHANGED seen /\ Goto(w, "route", lane[w])
        \/ seen' = [seen EXCEPT ![w] = {}] /\ EndLane(w, limit[w], inflight[w])
    BY <1>6 DEF ClaimUpdate
  <2>2. pc[w] \in Holding /\ "route" \in Holding
    BY <1>6 DEF ClaimUpdate, Holding
  <2>. QED BY <2>1, <2>2, <1>k, <1>d
<1>7. CASE Route(w)
  <2>1. pc[w] \in Holding /\ {"refuse", "putback"} \subseteq Holding
    BY <1>7 DEF Route, Holding
  <2>2. lane[w] \in Media
    BY <1>t DEF LoopTypeOK
  <2>3. PICK t \in seen[w], p \in Provider :
           \/ Refuse(w, WithPool(limit[w], p), p)
           \/ PoolFull(w, WithPool(limit[w], p), p)
           \/ Dispatch(w, WithPool(limit[w], p), p, t)
    BY <1>7 DEF Route
  <2>4. \/ UNCHANGED seen /\ \E l \in {"refuse", "putback"} : Goto(w, l, lane[w])
        \/ /\ seen' = [seen EXCEPT ![w] = {}]
           /\ \/ Goto(w, "select", lane[w])
              \/ \E L, I : EndLane(w, L, I)
    BY <2>3 DEF Refuse, PoolFull, Dispatch
  <2>. QED BY <2>1, <2>2, <2>4, <1>k, <1>e, <1>d, <1>l, <1>h
<1>8. CASE PutBack(w)
  BY <1>8, <1>d DEF PutBack
<1>9. CASE RefuseSelect(w)
  <2>1. \/ UNCHANGED seen /\ Goto(w, "refuseWrite", lane[w])
        \/ seen' = [seen EXCEPT ![w] = {}] /\ Goto(w, "select", lane[w])
    BY <1>9 DEF RefuseSelect
  <2>2. pc[w] \in Holding /\ "refuseWrite" \in Holding /\ lane[w] \in Media
    BY <1>9, <1>t DEF RefuseSelect, Holding, LoopTypeOK
  <2>. QED BY <2>1, <2>2, <1>k, <1>e, <1>l, <1>h
<1>10. CASE RefuseUpdate(w)
  <2>1. lane[w] \in Media
    BY <1>t DEF LoopTypeOK
  <2>. QED BY <1>10, <2>1, <1>e, <1>l, <1>h DEF RefuseUpdate
<1>11. CASE FinishStop(w) \/ ExitDead(w) \/ Crash(w)
  BY <1>11, <1>e, <1>l, <1>h DEF FinishStop, ExitDead, Crash, Vanish
<1>12. CASE LoopDies(w)
  BY <1>12, <1>e, <1>l, <1>h DEF LoopDies
<1>13. CASE Stop(w)
  BY <1>13, <1>e, <1>n, <1>l, <1>h DEF Stop, Holding
<1>14. CASE ReloadLimits(w)
  BY <1>14, <1>t DEF ReloadLimits, LoopSteps, LoopTypeOK
<1>. QED BY <1>1, <1>2, <1>3, <1>4, <1>5, <1>6, <1>7, <1>8, <1>9, <1>10, <1>11, <1>12,
            <1>13, <1>14 DEF Loop, Disturb

\* The variables of a loop, and the executions, that hold no task ids of seen.
PoolsTypeOK ==
  /\ owns \in [Worker -> BOOLEAN]
  /\ limit \in [Worker -> Pools]
  /\ inflight \in [Worker -> SUBSET Entry]

ExecsStep ==
  /\ execs' \subseteq Exec
  /\ \A x \in execs' : status[x.task] # "absent"
  /\ tries' \in [Task -> 0 .. MaxTries]

LEMMA LoopStepPools ==
  ASSUME TypeOK, NEW w \in Worker, Loop(w) \/ Disturb(w)
  PROVE  PoolsTypeOK' /\ ExecsStep
<1>t. /\ PoolsTypeOK
      /\ execs \subseteq Exec /\ tries \in [Task -> 0 .. MaxTries]
      /\ \A x \in execs : status[x.task] # "absent"
  BY DEF TypeOK, PoolsTypeOK
<1>u. ASSUME UNCHANGED << execs, tries >> PROVE ExecsStep
  BY <1>u, <1>t DEF ExecsStep
<1>v. ASSUME Vanish(w) PROVE PoolsTypeOK' /\ ExecsStep
  <2>1. execs' \subseteq execs /\ UNCHANGED tries
    BY <1>v DEF Vanish
  <2>2. PoolsTypeOK'
    BY <1>v, <1>t, WorkerAssumption DEF Vanish, PoolsTypeOK
  <2>. QED BY <2>1, <2>2, <1>t DEF ExecsStep
<1>1. CASE Start(w)
  BY <1>1, <1>t, <1>u, WorkerAssumption DEF Start, PoolsTypeOK
<1>2. CASE RenewLease(w)
  <2>1. owns' = [owns EXCEPT ![w] = MayHold(w)] /\ MayHold(w) \in BOOLEAN
    BY <1>2 DEF RenewLease, MayHold, TypeOK, TablesTypeOK
  <2>2. inflight' = [inflight EXCEPT ![w] = LiveEntries(w)] /\ UNCHANGED << limit, execs, tries >>
    BY <1>2 DEF RenewLease
  <2>3. LiveEntries(w) \subseteq inflight[w]
    BY DEF LiveEntries
  <2>. QED BY <2>1, <2>2, <2>3, <1>t, <1>u DEF PoolsTypeOK
<1>3. CASE \/ RecoverSelect(w) \/ RecoverUpdate(w) \/ ClaimSelect(w) \/ ClaimUpdate(w)
           \/ RefuseSelect(w) \/ RefuseUpdate(w) \/ PutBack(w) \/ Stop(w)
  BY <1>3, <1>t, <1>u DEF RecoverSelect, RecoverUpdate, ClaimSelect, ClaimUpdate,
     RefuseSelect, RefuseUpdate, PutBack, Stop, PoolsTypeOK
<1>4. CASE Route(w)
  <2>1. PICK t \in seen[w], p \in Provider :
           /\ limit' = [limit EXCEPT ![w] = WithPool(limit[w], p)]
           /\ \/ Refuse(w, WithPool(limit[w], p), p)
              \/ PoolFull(w, WithPool(limit[w], p), p)
              \/ Dispatch(w, WithPool(limit[w], p), p, t)
    BY <1>4 DEF Route
  <2>2. limit' \in [Worker -> Pools]
    BY <2>1, <1>t, WithPoolTyped DEF PoolsTypeOK
  <2>3. UNCHANGED owns
    BY <1>4 DEF Route
  <2>4. CASE UNCHANGED << inflight, execs, tries >>
    BY <2>2, <2>3, <2>4, <1>t, <1>u DEF PoolsTypeOK
  <2>5. CASE Dispatch(w, WithPool(limit[w], p), p, t)
    BY <2>2, <2>3, <2>5, <1>t, DispatchTyped DEF PoolsTypeOK, ExecsStep
  <2>. QED BY <2>1, <2>4, <2>5, <1>t DEF Refuse, PoolFull
<1>5. CASE FinishStop(w) \/ ExitDead(w) \/ Crash(w)
  BY <1>5, <1>t, <1>v DEF FinishStop, ExitDead, Crash
<1>6. CASE LoopDies(w)
  BY <1>6, <1>t, <1>u DEF LoopDies, PoolsTypeOK
<1>7. CASE ReloadLimits(w)
  <2>1. PICK c \in Configs :
          /\ limit' = [limit EXCEPT ![w] =
               [p \in Provider |->
                  IF c[p] = NoPool /\ p \in Kept(w, c) THEN [m \in Media |-> 0] ELSE c[p]]]
          /\ inflight' = [inflight EXCEPT ![w] =
                            {e \in inflight[w] : e.provider \in Kept(w, c)}]
    BY <1>7, <1>t DEF ReloadLimits, PoolsTypeOK
  <2>2. c \in Pools /\ [m \in Media |-> 0] \in [Media -> Nat]
    BY WorkerAssumption
  <2>3. limit' \in [Worker -> Pools]
    BY <2>1, <2>2, <1>t DEF PoolsTypeOK, Pools
  <2>4. inflight' \in [Worker -> SUBSET Entry]
    BY <2>1, <1>t DEF PoolsTypeOK
  <2>5. UNCHANGED << owns, execs, tries >>
    BY <1>7 DEF ReloadLimits
  <2>. QED BY <2>3, <2>4, <2>5, <1>t, <1>u DEF PoolsTypeOK
<1>. QED BY <1>1, <1>2, <1>3, <1>4, <1>5, <1>6, <1>7, <1>t DEF Loop, Disturb

LEMMA LoopStepEnv ==
  ASSUME TypeOK, NEW w \in Worker, Loop(w) \/ Disturb(w)
  PROVE  /\ UNCHANGED cancelling
         /\ restarts' \in 0 .. MaxRestarts
         /\ faults' \in 0 .. MaxFaults
<1>t. restarts \in 0 .. MaxRestarts /\ faults \in 0 .. MaxFaults
      /\ MaxRestarts \in Nat /\ MaxFaults \in Nat
  BY WorkerAssumption DEF TypeOK
<1>1. UNCHANGED cancelling
  BY DEF Loop, Disturb, Start, RenewLease, RecoverSelect, RecoverUpdate, ClaimSelect,
     ClaimUpdate, Route, RefuseSelect, RefuseUpdate, PutBack, FinishStop, ExitDead, Crash,
     Stop, LoopDies, ReloadLimits, Vanish, envVars
<1>2. restarts' = restarts \/ (restarts < MaxRestarts /\ restarts' = restarts + 1)
  BY DEF Loop, Disturb, Start, RenewLease, RecoverSelect, RecoverUpdate, ClaimSelect,
     ClaimUpdate, Route, RefuseSelect, RefuseUpdate, PutBack, FinishStop, ExitDead, Crash,
     Stop, LoopDies, ReloadLimits, Vanish, envVars
<1>3. faults' = faults \/ (faults < MaxFaults /\ faults' = faults + 1)
  BY DEF Loop, Disturb, Start, RenewLease, RecoverSelect, RecoverUpdate, ClaimSelect,
     ClaimUpdate, Route, RefuseSelect, RefuseUpdate, PutBack, FinishStop, ExitDead, Crash,
     Stop, LoopDies, ReloadLimits, Vanish, envVars
<1>. QED BY <1>t, <1>1, <1>2, <1>3

\* The steps that are not a loop's leave every loop alone.
LEMMA OtherStep ==
  ASSUME TypeOK,
         \/ \E x \in execs : Execute(x) \/ Abort(x)
         \/ Request \/ LeaseTimeout \/ UNCHANGED vars
  PROVE  /\ UNCHANGED loopVars
         /\ ExecsStep
         /\ restarts' = restarts
         /\ faults' \in 0 .. MaxFaults
         /\ cancelling' \subseteq Task \ InState("absent")
<1>t. /\ execs \subseteq Exec /\ tries \in [Task -> 0 .. MaxTries]
      /\ \A x \in execs : status[x.task] # "absent"
      /\ faults \in 0 .. MaxFaults /\ MaxFaults \in Nat
      /\ cancelling \subseteq Task \ InState("absent")
  BY WorkerAssumption DEF TypeOK
<1>1. UNCHANGED loopVars /\ restarts' = restarts
  BY DEF Execute, Succeed, FailSelect, FailUpdate, Abort, Request, EnqueueRequest,
     CancelSelect, CancelUpdate, CancelAll, LeaseTimeout, vars, envVars, loopVars
<1>2. faults' = faults \/ (faults < MaxFaults /\ faults' = faults + 1)
  BY DEF Execute, Succeed, FailSelect, FailUpdate, Abort, Request, EnqueueRequest,
     CancelSelect, CancelUpdate, CancelAll, LeaseTimeout, vars, envVars
<1>3. cancelling' \subseteq cancelling \cup Queued
  BY DEF Execute, Succeed, FailSelect, FailUpdate, Abort, Request, EnqueueRequest,
     CancelSelect, CancelUpdate, CancelAll, LeaseTimeout, vars, envVars
<1>4. UNCHANGED tries
  BY DEF Execute, Succeed, FailSelect, FailUpdate, Abort, Request, EnqueueRequest,
     CancelSelect, CancelUpdate, CancelAll, LeaseTimeout, vars, envVars
<1>5. execs' \subseteq Exec /\ \A x \in execs' : status[x.task] # "absent"
  <2>1. CASE execs' \subseteq execs
    BY <2>1, <1>t
  <2>2. ASSUME NEW x \in execs, FailSelect(x)
        PROVE  execs' \subseteq Exec /\ \A y \in execs' : status[y.task] # "absent"
    <3>1. x \in Exec
      BY <1>t
    <3>2. [x EXCEPT !.phase = "failing"] \in Exec /\ [x EXCEPT !.phase = "failing"].task = x.task
      BY <3>1 DEF Exec
    <3>3. execs' \subseteq execs \cup {[x EXCEPT !.phase = "failing"]}
      BY <2>2 DEF FailSelect
    <3>. QED BY <3>2, <3>3, <1>t
  <2>3. \/ execs' \subseteq execs
        \/ \E x \in execs : FailSelect(x)
    BY DEF Execute, Succeed, FailUpdate, Abort, Request, EnqueueRequest,
       CancelSelect, CancelUpdate, CancelAll, LeaseTimeout, vars
  <2>. QED BY <2>1, <2>2, <2>3
<1>. QED BY <1>t, <1>1, <1>2, <1>3, <1>4, <1>5 DEF ExecsStep, Queued, InState

LEMMA NextTyped == TypeOK /\ SameProject /\ [Next]_vars => TypeOK'
<1>. SUFFICES ASSUME TypeOK, SameProject, [Next]_vars PROVE TypeOK'
  OBVIOUS
<1>p. RowsTypeOK /\ LeaseTypeOK /\ LoopTypeOK /\ HoldsOne /\ SeenExist /\ ExecsTypeOK /\ EnvTypeOK
  BY TypeSplit
<1>r. RowsTypeOK' /\ LeaseTypeOK' /\ \A t \in Task : status[t] # "absent" => status'[t] # "absent"
  BY <1>p, StepKeepsRows, StepKeepsLease
<1>1. ASSUME ExecsStep PROVE ExecsTypeOK'
  BY <1>1, <1>r DEF ExecsStep, ExecsTypeOK, Exec
<1>2. ASSUME cancelling' \subseteq Task \ InState("absent"),
             restarts' \in 0 .. MaxRestarts, faults' \in 0 .. MaxFaults
      PROVE  EnvTypeOK'
  BY <1>2, <1>r DEF EnvTypeOK, InState
<1>3. ASSUME NEW w \in Worker, Loop(w) \/ Disturb(w) PROVE TypeOK'
  <2>steps. LoopSteps(w) /\ PoolsTypeOK' /\ ExecsStep
    BY <1>3, LoopStep, LoopStepPools
  <2>env. EnvTypeOK'
    BY <1>2, <1>3, <1>p, LoopStepEnv DEF EnvTypeOK
  <2>loop. LoopTypeOK'
    BY <2>steps DEF LoopSteps, PoolsTypeOK, LoopTypeOK
  <2>holds. HoldsOne'
    BY <2>steps, <1>p DEF LoopSteps, HoldsOne, Holding
  <2>seen. SeenExist'
    <3>1. SUFFICES ASSUME NEW v \in Worker, NEW t \in seen'[v] PROVE status'[t] # "absent"
      BY DEF SeenExist
    <3>2. t \in Task
      BY <2>loop DEF LoopTypeOK
    <3>3. status[t] # "absent"
      BY <2>steps, <1>p DEF LoopSteps, SeenExist
    <3>. QED BY <3>2, <3>3, <1>r
  <2>. QED BY <1>1, <1>r, <2>steps, <2>env, <2>loop, <2>holds, <2>seen, TypeSplit, PTL
<1>4. CASE \/ \E x \in execs : Execute(x) \/ Abort(x)
           \/ Request \/ LeaseTimeout \/ UNCHANGED vars
  <2>1. UNCHANGED loopVars /\ ExecsStep
    BY <1>4, OtherStep
  <2>2. EnvTypeOK'
    BY <1>2, <1>4, <1>p, OtherStep DEF EnvTypeOK
  <2>3. LoopTypeOK' /\ HoldsOne'
    BY <2>1, <1>p DEF loopVars, LoopTypeOK, HoldsOne
  <2>4. SeenExist'
    BY <2>1, <1>p, <1>r DEF loopVars, SeenExist, LoopTypeOK
  <2>. QED BY <1>1, <1>r, <2>1, <2>2, <2>3, <2>4, TypeSplit, PTL
<1>. QED BY <1>3, <1>4 DEF Next

LEMMA InitSameProject == Init => SameProject
BY DEF Init, TablesInit, SameProject

LEMMA NextSameProject == TypeOK /\ SameProject /\ [Next]_vars => SameProject'
<1>. SUFFICES ASSUME TypeOK, SameProject, [Next]_vars PROVE SameProject'
  OBVIOUS
<1>1. CASE UNCHANGED << key, dep >>
  BY <1>1 DEF SameProject
<1>2. ASSUME NEW k \in Key, NEW d \in 0 .. MaxTasks, Enqueue(k, d) PROVE SameProject'
  <2>1. PICK n \in Oldest(InState("absent")) :
          key' = [key EXCEPT ![n] = k] /\ dep' = [dep EXCEPT ![n] = d]
    BY <1>2 DEF Enqueue
  <2>2. n \in Task /\ status[n] = "absent"
    BY DEF Oldest, InState
  <2>3. d # 0 => d \in Task /\ status[d] # "absent" /\ ProjectOf[key[d]] = ProjectOf[k]
    BY <1>2 DEF Enqueue, InState
  <2>4. \A t \in Task : /\ key'[t] = IF t = n THEN k ELSE key[t]
                        /\ dep'[t] = IF t = n THEN d ELSE dep[t]
    BY <2>1 DEF TypeOK, TablesTypeOK
  <2>5. SUFFICES ASSUME NEW t \in Task, dep'[t] # 0
                 PROVE  ProjectOf[key'[dep'[t]]] = ProjectOf[key'[t]]
    BY DEF SameProject
  <2>6. CASE t = n
    <3>1. dep'[t] = d /\ key'[t] = k /\ d # n
      BY <2>2, <2>3, <2>4, <2>5, <2>6
    <3>. QED BY <3>1, <2>3, <2>4, <2>5
  <2>7. CASE t # n
    <3>1. dep'[t] = dep[t] /\ key'[t] = key[t]
      BY <2>4, <2>7
    <3>. DEFINE u == dep[t]
    <3>2. u \in Task /\ u < t
      BY <3>1, <2>5 DEF TypeOK, TablesTypeOK, Task
    <3>3. CASE u = n
      <4>1. status[t] = "absent"
        BY <3>2, <3>3, <2>2 DEF TypeOK, TablesTypeOK
      <4>. QED BY <4>1, <3>1, <2>5 DEF TypeOK, TablesTypeOK
    <3>4. CASE u # n
      BY <3>1, <3>2, <3>4, <2>4, <2>5 DEF SameProject
    <3>. QED BY <3>3, <3>4
  <2>. QED BY <2>6, <2>7
<1>3. UNCHANGED << key, dep >> \/ \E k \in Key, d \in 0 .. MaxTasks : Enqueue(k, d)
  BY StepRows DEF Moves
<1>. QED BY <1>1, <1>2, <1>3

\* The state keeps its shape: the claim loop holds exactly one existing task
\* between claiming it and dispatching, refusing or putting it back, and the
\* dependencies of the tasks table are acyclic.
THEOREM TypeCorrect == Spec => []TypeOK
<1>1. Init => TypeOK /\ SameProject
  BY InitTyped, InitSameProject
<1>2. TypeOK /\ SameProject /\ [Next]_vars => (TypeOK /\ SameProject)'
  BY NextTyped, NextSameProject
<1>. QED BY <1>1, <1>2, PTL DEF Spec

-------------------------------------------------------------------------------
(* What holds for any number of workers, however often the lease flips.      *)

LEMMA UniqueActiveStep == TypeOK /\ SameProject /\ UniqueActive /\ [Next]_vars => UniqueActive'
<1>. SUFFICES ASSUME TypeOK, SameProject, UniqueActive, [Next]_vars PROVE UniqueActive'
  OBVIOUS
<1>t. RowsTypeOK
  BY TablesSplit DEF TypeOK
<1>1. CASE \E S, s : Moves(S, s)
  BY <1>t, <1>1, UniqueMoves
<1>2. ASSUME NEW k \in Key, NEW d \in 0 .. MaxTasks, Enqueue(k, d) PROVE UniqueActive'
  BY <1>t, <1>2, UniqueEnqueue
<1>3. CASE UNCHANGED << status, key, dep >>
  BY <1>3 DEF UniqueActive, Active, InState
<1>. QED BY <1>1, <1>2, <1>3, StepRows

\* Dedupe survives every interleaving of enqueue, recovery, put-back and retry,
\* by any number of workers: no two active rows ever share a dedupe key.
THEOREM Dedupe == Spec => []UniqueActive
<1>1. Init => TypeOK /\ SameProject /\ UniqueActive
  <2>1. Init => UniqueActive
    BY DEF Init, TablesInit, UniqueActive, Active, InState
  <2>. QED BY <2>1, InitTyped, InitSameProject
<1>2. TypeOK /\ SameProject /\ UniqueActive /\ [Next]_vars
        => (TypeOK /\ SameProject /\ UniqueActive)'
  BY NextTyped, NextSameProject, UniqueActiveStep
<1>. QED BY <1>1, <1>2, PTL DEF Spec

LEMMA TerminalStep ==
  TypeOK /\ SameProject /\ [Next]_vars => \A t \in Terminal : t \in Terminal'
<1>. SUFFICES ASSUME TypeOK, SameProject, [Next]_vars, NEW t \in Terminal
              PROVE  t \in Terminal'
  OBVIOUS
<1>t. t \in Task /\ status[t] \in {"succeeded", "failed", "cancelled"}
  BY DEF Terminal, Dead, InState
<1>g. status'[t] \in {"succeeded", "failed", "cancelled"} => t \in Terminal'
  BY <1>t DEF Terminal, Dead, InState
<1>1. ASSUME NEW S, NEW s, Moves(S, s) PROVE t \in Terminal'
  <2>1. status'[t] = IF t \in S THEN s ELSE status[t]
    BY <1>1, <1>t DEF Moves, With
  <2>2. t \in S => s \in {"succeeded", "failed", "cancelled"}
    BY <1>1, <1>t DEF Moves, Active, InState, Status
  <2>. QED BY <2>1, <2>2, <1>t, <1>g
<1>2. ASSUME NEW k \in Key, NEW d \in 0 .. MaxTasks, Enqueue(k, d) PROVE t \in Terminal'
  <2>1. PICK n \in Oldest(InState("absent")) : status' = With({n}, "queued")
    BY <1>2 DEF Enqueue
  <2>2. n # t
    BY <1>t DEF Oldest, InState
  <2>. QED BY <2>1, <2>2, <1>t, <1>g DEF With
<1>3. CASE UNCHANGED << status, key, dep >>
  BY <1>3, <1>t, <1>g
<1>. QED BY <1>1, <1>2, <1>3, StepRows

\* A settled task never returns to the queue, whatever stale list of ids a
\* recovery or a put-back works from, and however many workers there are.
THEOREM NeverReopened == Spec => TerminalNeverReopens
<1>1. Spec => [](TypeOK /\ SameProject)
  BY InitTyped, InitSameProject, NextTyped, NextSameProject, PTL DEF Spec
<1>2. TypeOK /\ SameProject /\ [Next]_vars => [\A t \in Terminal : t \in Terminal']_vars
  BY TerminalStep
<1>. QED BY <1>1, <1>2, PTL DEF Spec, TerminalNeverReopens

LEMMA SettlesStep ==
  TypeOK /\ SameProject /\ [Next]_vars
    => \A t \in Task : t \notin Dead /\ t \in Dead' => Dependents(t)' = {}
<1>. SUFFICES ASSUME TypeOK, SameProject, [Next]_vars,
                     NEW t \in Task, t \notin Dead, t \in Dead'
              PROVE  Dependents(t)' = {}
  OBVIOUS
<1>1. ASSUME NEW S, NEW s, Moves(S, s) PROVE Dependents(t)' = {}
  <2>1. \A u \in Task : status'[u] = IF u \in S THEN s ELSE status[u]
    BY <1>1 DEF Moves, With
  <2>2. t \in S /\ s \in {"failed", "cancelled"}
    BY <2>1 DEF Dead, InState
  <2>3. \A d \in Queued' : dep'[d] # t
    <3>1. \A d \in Queued' : d \in Queued /\ d \notin S
      BY <2>1, <2>2 DEF Queued, InState
    <3>. QED BY <1>1, <2>2, <3>1 DEF Moves
  <2>4. Closed({}, t)'
    BY <2>3 DEF Closed
  <2>5. {} \in SUBSET (Queued')
    OBVIOUS
  <2>. QED BY <2>4, <2>5 DEF Dependents
<1>2. ASSUME NEW k \in Key, NEW d \in 0 .. MaxTasks, Enqueue(k, d) PROVE FALSE
  <2>1. PICK n \in Oldest(InState("absent")) : status' = With({n}, "queued")
    BY <1>2 DEF Enqueue
  <2>. QED BY <2>1 DEF With, Dead, InState
<1>3. CASE UNCHANGED << status, key, dep >>
  BY <1>3 DEF Dead, InState
<1>. QED BY <1>1, <1>2, <1>3, StepRows

\* Whoever waits, directly or not, for a task that fails or is cancelled is
\* settled in the same transaction: the cascades are complete, for any number
\* of workers and any interleaving with enqueues and claims.
THEOREM CascadesAreComplete == Spec => SettlesDependents
<1>1. Spec => [](TypeOK /\ SameProject)
  BY InitTyped, InitSameProject, NextTyped, NextSameProject, PTL DEF Spec
<1>2. TypeOK /\ SameProject /\ [Next]_vars
        => [\A t \in Task : t \notin Dead /\ t \in Dead' => Dependents(t)' = {}]_vars
  BY SettlesStep
<1>. QED BY <1>1, <1>2, PTL DEF Spec, SettlesDependents

-------------------------------------------------------------------------------
(* What holds with a single worker process.                                  *)

OneWorker == \A v, w \in Worker : v = w

\* Every transaction of a single worker moves active rows only, and it makes a
\* row run, or records its success, only once its dependency has succeeded.
Proper ==
  /\ \A t \in Task : status'[t] # status[t] => status[t] \in {"absent", "queued", "running"}
  /\ \A t \in Task : status'[t] \in {"running", "succeeded"} /\ status'[t] # status[t]
                       => (dep[t] # 0 => status[dep[t]] = "succeeded")

LEMMA ProperMoves ==
  ASSUME TypeOK, NEW S, NEW s, S \subseteq Active, status' = With(S, s),
         s \in {"running", "succeeded"} =>
           \A t \in S : dep[t] # 0 => status[dep[t]] = "succeeded"
  PROVE  Proper
<1>1. \A t \in Task : status'[t] = IF t \in S THEN s ELSE status[t]
  BY DEF With
<1>2. \A t \in S : status[t] \in {"queued", "running"}
  BY DEF Active, InState
<1>. QED BY <1>1, <1>2 DEF Proper

LEMMA ActiveParts == /\ Queued \subseteq Active /\ Running \subseteq Active
                     /\ \A t : Dependents(t) \subseteq Active /\ Dependents(t) \cap Running = {}
BY DependentsQueued DEF Queued, Running, Active, InState

\* Under the invariant, every step of a single worker is proper.
LEMMA SoloProper ==
  ASSUME OneWorker, TypeOK, Solo, [Next]_vars
  PROVE  Proper
<1>i. \A t \in Running : dep[t] # 0 => status[dep[t]] = "succeeded"
  BY DEF Solo, DependencyFirst, Running, InState
<1>u. UNCHANGED status => Proper
  BY DEF Proper
<1>f. \A t \in Running : FailRow(t) => Proper
  <2>1. \A t \in Running : {t} \cup Dependents(t) \subseteq Active
    BY ActiveParts
  <2>. QED BY <2>1, ProperMoves DEF FailRow
<1>1. ASSUME NEW w \in Worker, Loop(w) PROVE Proper
  <2>requeue. CASE RecoverUpdate(w)
    BY <2>requeue, ActiveParts, ProperMoves DEF RecoverUpdate, RequeueRows
  <2>take. CASE ClaimUpdate(w)
    <3>1. PICK t \in seen[w] : TakeRow(t) \/ UNCHANGED status
      BY <2>take DEF ClaimUpdate
    <3>2. dep[t] # 0 => status[dep[t]] = "succeeded"
      BY <2>take DEF ClaimUpdate, Solo
    <3>. QED BY <3>1, <3>2, <1>u, ActiveParts, ProperMoves DEF TakeRow
  <2>putback. CASE PutBack(w)
    BY <2>putback, <1>u, ActiveParts, ProperMoves DEF PutBack, RequeueRows
  <2>refuse. CASE RefuseUpdate(w)
    <3>1. seen[w] \subseteq Running
      BY <2>refuse DEF RefuseUpdate, Solo, Holding
    <3>. QED BY <2>refuse, <3>1, <1>f DEF RefuseUpdate
  <2>rest. CASE \/ Start(w) \/ RenewLease(w) \/ RecoverSelect(w) \/ ClaimSelect(w) \/ Route(w)
                \/ RefuseSelect(w) \/ FinishStop(w) \/ ExitDead(w)
    BY <2>rest, <1>u DEF Start, RenewLease, RecoverSelect, ClaimSelect, Route, RefuseSelect,
       FinishStop, ExitDead, Vanish, tables
  <2>. QED BY <1>1, <2>requeue, <2>take, <2>putback, <2>refuse, <2>rest DEF Loop
<1>2. ASSUME NEW w \in Worker, Disturb(w) PROVE Proper
  BY <1>2, <1>u DEF Disturb, Crash, Vanish, Stop, LoopDies, ReloadLimits, tables
<1>3. ASSUME NEW x \in execs, Execute(x) \/ Abort(x) PROVE Proper
  <2>1. x.task \in Running
    BY DEF Solo, ExecutionOwnsTask
  <2>2. CASE Succeed(x)
    BY <2>1, <2>2, <1>i, ActiveParts, ProperMoves DEF Succeed, SucceedRow
  <2>3. CASE FailUpdate(x)
    BY <2>1, <2>3, <1>f DEF FailUpdate
  <2>. QED BY <1>3, <1>u, <2>2, <2>3 DEF Execute, FailSelect, Abort, tables
<1>4. CASE Request
  <2>1. CASE EnqueueRequest
    <3>1. PICK n \in Oldest(InState("absent")) : status' = With({n}, "queued")
      BY <2>1 DEF EnqueueRequest, Enqueue
    <3>. QED BY <3>1 DEF Proper, With, Oldest, InState
  <2>2. CASE CancelUpdate
    <3>1. PICK t \in cancelling : CancelRow(t)
      BY <2>2 DEF CancelUpdate
    <3>. QED BY <3>1, ActiveParts, ProperMoves DEF CancelRow
  <2>3. CASE CancelAll
    <3>1. PICK k \in Key : CancelProject(ProjectOf[k])
      BY <2>3 DEF CancelAll
    <3>. QED BY <3>1, ActiveParts, ProperMoves DEF CancelProject
  <2>. QED BY <1>4, <1>u, <2>1, <2>2, <2>3 DEF Request, CancelSelect, tables
<1>5. CASE LeaseTimeout \/ UNCHANGED vars
  BY <1>5, <1>u DEF LeaseTimeout, LeaseExpires, vars
<1>. QED BY <1>1, <1>2, <1>3, <1>4, <1>5 DEF Next

LEMMA SoloDeps ==
  ASSUME TypeOK, SameProject, Solo, Proper, [Next]_vars
  PROVE  /\ DependencyFirst'
         /\ \A t \in Task : status[t] = "succeeded" => status'[t] = "succeeded"
         /\ \A t \in Task : status[t] # "absent" => dep'[t] = dep[t]
<1>1. \A t \in Task : status[t] = "succeeded" => status'[t] = "succeeded"
  BY DEF Proper
<1>2. /\ \A t \in Task : status[t] # "absent" => dep'[t] = dep[t]
      /\ \A t \in Task : status[t] = "absent" => status'[t] \in {"absent", "queued"}
  <2>1. CASE \E S, s : Moves(S, s)
    BY <2>1 DEF Moves, With, InState
  <2>2. CASE \E k \in Key, d \in 0 .. MaxTasks : Enqueue(k, d)
    <3>1. PICK d \in 0 .. MaxTasks, n \in Oldest(InState("absent")) :
            status' = With({n}, "queued") /\ dep' = [dep EXCEPT ![n] = d]
      BY <2>2 DEF Enqueue
    <3>2. n \in Task /\ status[n] = "absent"
      BY DEF Oldest, InState
    <3>. QED BY <3>1, <3>2 DEF With, TypeOK, TablesTypeOK
  <2>3. CASE UNCHANGED << status, key, dep >>
    BY <2>3
  <2>. QED BY <2>1, <2>2, <2>3, StepRows
<1>3. SUFFICES ASSUME NEW t \in Task, status'[t] \in {"running", "succeeded"}, dep'[t] # 0
               PROVE  status'[dep'[t]] = "succeeded"
  BY <1>1, <1>2 DEF DependencyFirst, InState
<1>4. status[t] # "absent" /\ dep'[t] = dep[t]
  BY <1>2, <1>3
<1>5. status[dep[t]] = "succeeded"
  BY <1>3, <1>4 DEF Proper, Solo, DependencyFirst, InState
<1>6. dep[t] \in Task
  <2>1. dep[t] \in 0 .. MaxTasks /\ dep[t] # 0
    BY <1>3, <1>4 DEF TypeOK, TablesTypeOK
  <2>. QED BY <2>1, TableAssumption DEF Task
<1>. QED BY <1>1, <1>4, <1>5, <1>6

\* The invariant after a step that starts no execution, moves no executed task
\* and keeps the slots: it is enough to look at where the loop goes.
LEMMA SoloKeep ==
  ASSUME OneWorker, TypeOK, Solo, NEW w \in Worker, DependencyFirst',
         execs' \subseteq execs,
         \A x \in execs' : status'[x.task] = "running",
         SlotsCoverExecs',
         \/ pc'[w] \in Label \ (Holding \cup {"recover", "requeue"})
         \/ /\ pc'[w] \in Holding \ {"take"} /\ seen'[w] \subseteq Running'
            /\ \A x \in execs' : x.task \notin seen'[w]
         \/ pc'[w] \in {"recover", "requeue"} /\ execs' = {}
         \/ /\ pc'[w] = "take"
            /\ \A t \in seen'[w] : dep'[t] # 0 => status'[dep'[t]] = "succeeded"
  PROVE  Solo'
<1>1. AtMostOneExecution'
  BY DEF Solo, AtMostOneExecution
<1>2. ExecutionOwnsTask'
  BY DEF Solo, ExecutionOwnsTask, Running, InState, TypeOK, Exec
<1>3. \A v \in Worker :
       /\ pc'[v] \in Holding \ {"take"} =>
            seen'[v] \subseteq Running' /\ \A x \in execs' : x.task \notin seen'[v]
       /\ pc'[v] \in {"recover", "requeue"} => execs' = {}
       /\ pc'[v] = "take" =>
            \A t \in seen'[v] : dep'[t] # 0 => status'[dep'[t]] = "succeeded"
  BY DEF OneWorker, Holding
<1>. QED BY <1>1, <1>2, <1>3 DEF Solo

\* Where the loop stands after its own steps.
LEMMA SoloLoop ==
  ASSUME OneWorker, TypeOK, SameProject, Solo, NEW w \in Worker, Loop(w), Next
  PROVE  Solo'
<1>t. LoopTypeOK /\ HoldsOne
  BY TypeSplit
<1>p. Proper
  BY SoloProper
<1>d. DependencyFirst'
  BY <1>p, SoloDeps
<1>x. \A x \in execs : x.worker = w /\ x.task \in Running /\ x.task \in Task /\ status[x.task] = "running"
  BY DEF OneWorker, Solo, ExecutionOwnsTask, TypeOK, Exec, Running, InState
<1>q. /\ {"renew", "select", "off"} \subseteq Label \ (Holding \cup {"recover", "requeue"})
      /\ {"refuse", "refuseWrite", "putback", "route"} \subseteq Holding \ {"take"}
  BY DEF Label, Holding
<1>s. ASSUME UNCHANGED << inflight, execs >> PROVE SlotsCoverExecs'
  BY <1>s DEF Solo, SlotsCoverExecs
<1>a. ASSUME UNCHANGED status PROVE \A x \in execs : status'[x.task] = "running"
  BY <1>a, <1>x
\* The loop goes where it holds nothing; executions and slots stay.
<1>g. ASSUME UNCHANGED << inflight, execs >>, \A x \in execs : status'[x.task] = "running",
             pc'[w] \in {"renew", "select"}
      PROVE  Solo'
  BY <1>g, <1>d, <1>q, <1>s, SoloKeep
<1>1. CASE Start(w)
  BY <1>1, <1>a, <1>g, <1>t, GotoEffect DEF Start, tables, Label, Media
<1>2. CASE RenewLease(w)
  <2>. DEFINE left == LiveEntries(w)
  <2>1. UNCHANGED << status, execs >> /\ inflight' = [inflight EXCEPT ![w] = left]
    BY <1>2 DEF RenewLease
  <2>2. inflight'[w] = left
    BY <2>1, <1>t DEF LoopTypeOK
  <2>3. \A x \in execs : \E e \in left :
          e.task = x.task /\ e.try = x.try /\ e.provider = x.provider
    BY <1>x DEF Solo, SlotsCoverExecs, LiveEntries, Live
  <2>4. SlotsCoverExecs'
    BY <2>1, <2>2, <2>3, <1>x DEF SlotsCoverExecs
  <2>5. \/ Goto(w, "renew", "image") \/ EnterLanes(w, limit[w], left)
        \/ Goto(w, "recover", "image") /\ left = {}
    BY <1>2 DEF RenewLease, NeedsRecovery
  <2>6. pc'[w] \in {"renew", "select"} \/ (pc'[w] = "recover" /\ execs' = {})
    BY <2>1, <2>3, <2>5, <1>t, GotoEffect, LaneEffect DEF Label, Media
  <2>. QED BY <2>1, <2>4, <2>6, <1>a, <1>d, <1>q, SoloKeep
<1>3. CASE RecoverSelect(w)
  <2>1. execs = {} /\ UNCHANGED << status, inflight, execs >> /\ pc'[w] = "requeue"
    BY <1>3, <1>t, GotoEffect DEF RecoverSelect, Solo, tables, Label, Media
  <2>. QED BY <2>1, <1>d, <1>s, SoloKeep
<1>4. CASE RecoverUpdate(w)
  <2>1. execs = {} /\ UNCHANGED << inflight, execs >> /\ pc'[w] \in {"renew", "select"}
    BY <1>4, <1>t, LaneEffect DEF RecoverUpdate, Solo
  <2>. QED BY <2>1, <1>g
<1>5. CASE ClaimSelect(w)
  <2>1. UNCHANGED << status, dep, inflight, execs >>
    BY <1>5 DEF ClaimSelect, tables
  <2>2. lane[w] \in Media /\ "take" \in Label
    BY <1>t DEF LoopTypeOK, Label
  <2>3. pc'[w] \in {"renew", "select"} \/ pc'[w] = "take"
    BY <1>5, <1>t, <2>2, GotoEffect, LaneEffect DEF ClaimSelect
  <2>4. \A t \in seen'[w] : dep[t] # 0 => status[dep[t]] = "succeeded"
    BY <1>5, <1>t DEF ClaimSelect, Oldest, Claimable, LoopTypeOK
  <2>. QED BY <2>1, <2>3, <2>4, <1>a, <1>d, <1>g, <1>s, SoloKeep
<1>6. CASE ClaimUpdate(w)
  <2>1. UNCHANGED << inflight, execs >> /\ lane[w] \in Media
    BY <1>6, <1>t DEF ClaimUpdate, LoopTypeOK
  <2>2. CASE UNCHANGED status /\ EndLane(w, limit[w], inflight[w])
    BY <2>1, <2>2, <1>a, <1>g, <1>t, LaneEffect
  <2>3. ASSUME NEW t \in seen[w], TakeRow(t), Goto(w, "route", lane[w]), UNCHANGED seen
        PROVE  Solo'
    <3>1. t \in Task /\ seen'[w] = {t}
      BY <2>3, <1>6, <1>t DEF ClaimUpdate, HoldsOne, Holding
    <3>2. status[t] = "queued" /\ \A u \in Task : status'[u] = IF u = t THEN "running" ELSE status[u]
      BY <2>3 DEF TakeRow, Queued, InState, With
    <3>3. t \in Running' /\ \A x \in execs : x.task # t /\ status'[x.task] = "running"
      BY <3>1, <3>2, <1>x DEF Running, InState
    <3>4. pc'[w] = "route"
      BY <2>1, <2>3, <1>t, GotoEffect DEF Label
    <3>. QED BY <2>1, <3>1, <3>3, <3>4, <1>d, <1>q, <1>s, SoloKeep
  <2>. QED BY <2>2, <2>3, <1>6 DEF ClaimUpdate
<1>7. CASE Route(w)
  <2>. DEFINE L(p) == WithPool(limit[w], p)
  <2>1. PICK t \in seen[w], p \in Provider :
          Refuse(w, L(p), p) \/ PoolFull(w, L(p), p) \/ Dispatch(w, L(p), p, t)
    BY <1>7 DEF Route
  <2>2. UNCHANGED status /\ lane[w] \in Media /\ pc[w] \in Holding \ {"take"}
    BY <1>7, <1>t DEF Route, tables, LoopTypeOK, Holding
  <2>3. t \in Task /\ seen[w] = {t} /\ t \in Running /\ \A x \in execs : x.task # t
    BY <2>2, <1>t DEF HoldsOne, Solo
  <2>4. CASE Refuse(w, L(p), p) \/ PoolFull(w, L(p), p)
    <3>1. UNCHANGED << seen, inflight, execs >>
      BY <2>4 DEF Refuse, PoolFull
    <3>2. pc'[w] \in {"refuse", "putback"}
      BY <2>2, <2>4, <1>t, GotoEffect DEF Refuse, PoolFull, Label
    <3>. QED BY <2>2, <2>3, <3>1, <3>2, <1>a, <1>d, <1>q, <1>s, SoloKeep DEF Running, InState
  <2>5. CASE Dispatch(w, L(p), p, t)
    <3>. DEFINE n == tries[t] + 1
                entry == [task |-> t, try |-> n, provider |-> p]
                exec == [task |-> t, try |-> n, provider |-> p, worker |-> w, phase |-> "run"]
    <3>1. /\ inflight' = [inflight EXCEPT ![w] =
               {e \in inflight[w] : ~ (e.task = t /\ e.provider = p)} \cup {entry}]
          /\ execs' = execs \cup {exec}
      BY <2>5 DEF Dispatch
    <3>2. pc'[w] \in {"renew", "select"}
      BY <2>2, <2>5, <1>t, GotoEffect, LaneEffect DEF Dispatch, Label
    <3>3. AtMostOneExecution'
      BY <2>3, <3>1 DEF Solo, AtMostOneExecution
    <3>4. ExecutionOwnsTask'
      BY <2>2, <2>3, <3>1, <1>x DEF ExecutionOwnsTask, Running, InState
    <3>5. inflight'[w] = {e \in inflight[w] : ~ (e.task = t /\ e.provider = p)} \cup {entry}
      BY <3>1, <1>t DEF LoopTypeOK
    <3>6. SlotsCoverExecs'
      <4>1. \A x \in execs : \E e \in inflight'[w] :
              e.task = x.task /\ e.try = x.try /\ e.provider = x.provider
        BY <2>3, <3>5, <1>x DEF Solo, SlotsCoverExecs
      <4>2. \A x \in execs' : x.worker = w /\ \E e \in inflight'[w] :
              e.task = x.task /\ e.try = x.try /\ e.provider = x.provider
        <5>1. /\ entry \in inflight'[w]
              /\ entry.task = exec.task /\ entry.try = exec.try /\ entry.provider = exec.provider
              /\ exec.worker = w
          BY <3>5
        <5>. HIDE DEF entry, exec
        <5>2. \A x \in execs' : x \in execs \/ x = exec
          BY <3>1
        <5>. QED BY <5>1, <5>2, <4>1, <1>x
      <4>. QED BY <4>2 DEF SlotsCoverExecs
    <3>7. \A v \in Worker : pc'[v] \in {"renew", "select"}
      BY <3>2 DEF OneWorker
    <3>. QED BY <3>3, <3>4, <3>6, <3>7, <1>d DEF Solo, Holding
  <2>. QED BY <2>1, <2>4, <2>5
<1>8. CASE PutBack(w)
  <2>1. UNCHANGED << inflight, execs >> /\ pc'[w] \in {"renew", "select"}
    BY <1>8, <1>t, LaneEffect DEF PutBack
  <2>2. \A x \in execs : x.task \notin seen[w]
    BY <1>8 DEF PutBack, Solo, Holding
  <2>3. \A x \in execs : status'[x.task] = "running"
    BY <2>2, <1>8, <1>x DEF PutBack, RequeueRows, With
  <2>. QED BY <2>1, <2>3, <1>g
<1>9. CASE RefuseSelect(w)
  <2>1. UNCHANGED << status, inflight, execs >> /\ lane[w] \in Media
    BY <1>9, <1>t DEF RefuseSelect, tables, LoopTypeOK
  <2>2. CASE Goto(w, "select", lane[w])
    BY <2>1, <2>2, <1>a, <1>g, <1>t, GotoEffect DEF Label
  <2>3. CASE Goto(w, "refuseWrite", lane[w]) /\ UNCHANGED seen
    <3>1. seen[w] \subseteq Running /\ \A x \in execs : x.task \notin seen[w]
      BY <1>9 DEF RefuseSelect, Solo, Holding
    <3>2. pc'[w] = "refuseWrite"
      BY <2>1, <2>3, <1>t, GotoEffect DEF Label
    <3>. QED BY <2>1, <2>3, <3>1, <3>2, <1>a, <1>d, <1>q, <1>s, SoloKeep DEF Running, InState
  <2>. QED BY <2>2, <2>3, <1>9 DEF RefuseSelect
<1>10. CASE RefuseUpdate(w)
  <2>1. UNCHANGED << inflight, execs >> /\ lane[w] \in Media /\ Goto(w, "select", lane[w])
    BY <1>10, <1>t DEF RefuseUpdate, LoopTypeOK
  <2>2. PICK t \in seen[w] : FailRow(t)
    BY <1>10 DEF RefuseUpdate
  <2>3. \A x \in execs : x.task # t
    BY <1>10 DEF RefuseUpdate, Solo, Holding
  <2>4. \A x \in execs : status'[x.task] = "running"
    BY <2>2, <2>3, <1>x, ActiveParts DEF FailRow, With
  <2>5. pc'[w] = "select"
    BY <2>1, <1>t, GotoEffect DEF Label
  <2>. QED BY <2>1, <2>4, <2>5, <1>g
<1>11. CASE FinishStop(w) \/ ExitDead(w)
  <2>1. Vanish(w)
    BY <1>11 DEF FinishStop, ExitDead
  <2>2. execs' = {} /\ pc'[w] = "off"
    BY <2>1, <1>t, <1>x, GotoEffect DEF Vanish, Label, Media
  <2>3. SlotsCoverExecs'
    BY <2>2 DEF SlotsCoverExecs
  <2>. QED BY <2>2, <2>3, <1>d, <1>q, SoloKeep
<1>. QED BY <1>1, <1>2, <1>3, <1>4, <1>5, <1>6, <1>7, <1>8, <1>9, <1>10, <1>11 DEF Loop

LEMMA SoloDisturb ==
  ASSUME OneWorker, TypeOK, SameProject, Solo, NEW w \in Worker, Disturb(w), Next
  PROVE  Solo'
<1>t. LoopTypeOK
  BY TypeSplit
<1>p. Proper
  BY SoloProper
<1>d. DependencyFirst'
  BY <1>p, SoloDeps
<1>x. \A x \in execs : x.worker = w /\ x.task \in Task /\ status[x.task] = "running"
  BY DEF OneWorker, Solo, ExecutionOwnsTask, TypeOK, Exec, Running, InState
<1>q. {"off", "draining", "dead"} \subseteq Label \ (Holding \cup {"recover", "requeue"})
  BY DEF Label, Holding
<1>u. UNCHANGED << status >>
  BY DEF Disturb, Crash, Vanish, Stop, LoopDies, ReloadLimits, tables
<1>a. \A x \in execs : status'[x.task] = "running"
  BY <1>u, <1>x
<1>1. CASE Crash(w)
  <2>1. execs' = {} /\ pc'[w] = "off"
    BY <1>1, <1>t, <1>x, GotoEffect DEF Crash, Vanish, Label, Media
  <2>2. SlotsCoverExecs'
    BY <2>1 DEF SlotsCoverExecs
  <2>. QED BY <2>1, <2>2, <1>d, <1>q, SoloKeep
<1>2. CASE Stop(w) \/ LoopDies(w)
  <2>1. UNCHANGED << inflight, execs >> /\ pc'[w] \in {"draining", "dead"}
    BY <1>2, <1>t, GotoEffect DEF Stop, LoopDies, Label, Media
  <2>2. SlotsCoverExecs'
    BY <2>1 DEF Solo, SlotsCoverExecs
  <2>. QED BY <2>1, <2>2, <1>a, <1>d, <1>q, SoloKeep
<1>3. CASE ReloadLimits(w)
  <2>1. PICK c \in Configs :
          inflight' = [inflight EXCEPT ![w] = {e \in inflight[w] : e.provider \in Kept(w, c)}]
    BY <1>3, <1>t DEF ReloadLimits, LoopTypeOK
  <2>2. \A e \in inflight[w] : e.provider \in Kept(w, c)
    BY <1>t DEF Kept, LoopTypeOK, Entry
  <2>3. inflight'[w] = inflight[w]
    BY <2>1, <2>2, <1>t DEF LoopTypeOK
  <2>4. UNCHANGED << execs, status, dep, pc, seen >>
    BY <1>3 DEF ReloadLimits, tables
  <2>5. SlotsCoverExecs'
    BY <2>3, <2>4, <1>x DEF Solo, SlotsCoverExecs
  <2>6. AtMostOneExecution' /\ ExecutionOwnsTask'
    BY <2>4 DEF Solo, AtMostOneExecution, ExecutionOwnsTask, Running, InState
  <2>7. \A v \in Worker :
       /\ pc'[v] \in Holding \ {"take"} =>
            seen'[v] \subseteq Running' /\ \A x \in execs' : x.task \notin seen'[v]
       /\ pc'[v] \in {"recover", "requeue"} => execs' = {}
       /\ pc'[v] = "take" =>
            \A t \in seen'[v] : dep'[t] # 0 => status'[dep'[t]] = "succeeded"
    BY <2>4 DEF Solo, Running, InState
  <2>. QED BY <2>5, <2>6, <2>7, <1>d DEF Solo
<1>. QED BY <1>1, <1>2, <1>3 DEF Disturb

\* A step outside the loop: it may end or mark an execution, and it moves no
\* row that is running unless that row's execution ends.
LEMMA SoloAside ==
  ASSUME OneWorker, TypeOK, SameProject, Solo, Next,
         UNCHANGED << pc, seen, inflight >>,
         AtMostOneExecution', SlotsCoverExecs',
         \A y \in execs' : \E x \in execs : x.task = y.task,
         \A t \in Running : t \in Running' \/ \E x \in execs : x.task = t,
         \A x \in execs' : x.task \in Running'
  PROVE  Solo'
<1>p. Proper
  BY SoloProper
<1>d. /\ DependencyFirst'
      /\ \A t \in Task : status[t] = "succeeded" => status'[t] = "succeeded"
      /\ \A t \in Task : status[t] # "absent" => dep'[t] = dep[t]
  BY <1>p, SoloDeps
<1>1. ExecutionOwnsTask'
  BY DEF ExecutionOwnsTask
<1>2. ASSUME NEW w \in Worker, pc'[w] \in Holding \ {"take"}
      PROVE  seen'[w] \subseteq Running' /\ \A x \in execs' : x.task \notin seen'[w]
  BY <1>2 DEF Solo
<1>3. ASSUME NEW w \in Worker, pc'[w] \in {"recover", "requeue"}
      PROVE  execs' = {}
  BY <1>3 DEF Solo
<1>4. ASSUME NEW w \in Worker, pc'[w] = "take", NEW t \in seen'[w], dep'[t] # 0
      PROVE  status'[dep'[t]] = "succeeded"
  <2>1. t \in Task /\ status[t] # "absent" /\ t \in seen[w] /\ pc[w] = "take"
    BY <1>4 DEF TypeOK
  <2>2. dep'[t] = dep[t] /\ status[dep[t]] = "succeeded"
    BY <2>1, <1>4, <1>d DEF Solo
  <2>3. dep[t] \in Task
    <3>1. dep[t] \in 0 .. MaxTasks /\ dep[t] # 0
      BY <2>1, <2>2, <1>4 DEF TypeOK, TablesTypeOK
    <3>. QED BY <3>1, TableAssumption DEF Task
  <2>. QED BY <2>2, <2>3, <1>d
<1>. QED BY <1>1, <1>2, <1>3, <1>4, <1>d DEF Solo

LEMMA SoloExecution ==
  ASSUME OneWorker, TypeOK, SameProject, Solo, NEW x \in execs, Execute(x) \/ Abort(x), Next
  PROVE  Solo'
<1>x. \A y \in execs : y.task \in Task /\ y.task \in Running /\ (y.task = x.task => y = x)
  BY DEF Solo, ExecutionOwnsTask, AtMostOneExecution, TypeOK, Exec
<1>u. UNCHANGED << pc, seen, inflight >>
  BY DEF Execute, Succeed, FailSelect, FailUpdate, Abort, loopVars
<1>1. CASE Succeed(x) \/ FailUpdate(x) \/ Abort(x)
  <2>1. execs' = execs \ {x}
    BY <1>1 DEF Succeed, FailUpdate, Abort
  <2>2. AtMostOneExecution' /\ SlotsCoverExecs'
    BY <2>1, <1>u DEF Solo, AtMostOneExecution, SlotsCoverExecs
  <2>3. \A t \in Running : t # x.task => t \in Running'
    <3>1. \/ UNCHANGED status
          \/ status' = With({x.task}, "succeeded")
          \/ status' = With({x.task} \cup Dependents(x.task), "failed")
      BY <1>1 DEF Succeed, SucceedRow, FailUpdate, FailRow, Abort, tables
    <3>2. \A t \in Running : t \in Task /\ status[t] = "running"
                             /\ \A u : t \notin Dependents(u)
      BY ActiveParts DEF Running, InState
    <3>3. ASSUME NEW t \in Running, t # x.task PROVE status'[t] = "running"
      BY <3>1, <3>2, <3>3 DEF With
    <3>. QED BY <3>2, <3>3 DEF Running, InState
  <2>. QED BY <2>1, <2>2, <2>3, <1>u, <1>x, SoloAside
<1>2. CASE FailSelect(x)
  <2>. DEFINE y == [x EXCEPT !.phase = "failing"]
  <2>1. x \in Exec
    BY DEF TypeOK
  <2>2. y.task = x.task /\ y.try = x.try /\ y.provider = x.provider /\ y.worker = x.worker
    BY <2>1 DEF Exec
  <2>3. execs' \subseteq (execs \ {x}) \cup {y} /\ UNCHANGED status
    BY <1>2 DEF FailSelect, tables
  <2>. HIDE DEF y
  <2>4. AtMostOneExecution'
    <3>1. SUFFICES ASSUME NEW a \in execs', NEW b \in execs', a.task = b.task PROVE a = b
      BY DEF AtMostOneExecution
    <3>2. (a \in execs /\ a # x) \/ a = y
      BY <2>3
    <3>3. (b \in execs /\ b # x) \/ b = y
      BY <2>3
    <3>4. CASE a \in execs /\ a # x /\ b \in execs /\ b # x
      BY <3>1, <3>4 DEF Solo, AtMostOneExecution
    <3>. QED BY <3>1, <3>2, <3>3, <3>4, <2>2, <1>x
  <2>5. SlotsCoverExecs'
    BY <2>2, <2>3, <1>u DEF Solo, SlotsCoverExecs
  <2>6. Running' = Running
    BY <2>3 DEF Running, InState
  <2>7. \A z \in execs' : \E v \in execs : v.task = z.task
    BY <2>2, <2>3
  <2>. QED BY <2>4, <2>5, <2>6, <2>7, <1>u, <1>x, SoloAside
<1>. QED BY <1>1, <1>2 DEF Execute

LEMMA SoloRequest ==
  ASSUME OneWorker, TypeOK, SameProject, Solo, Request \/ LeaseTimeout, Next
  PROVE  Solo'
<1>u. UNCHANGED << pc, seen, inflight, execs >>
  BY DEF Request, EnqueueRequest, CancelSelect, CancelUpdate, CancelAll, LeaseTimeout, loopVars
<1>1. \A t \in Running : t \in Task /\ status[t] = "running" /\ t \notin Queued
                         /\ \A u : t \notin Dependents(u)
  BY ActiveParts DEF Running, Queued, InState
<1>2. \A t \in Running : status'[t] = "running"
  <2>1. CASE EnqueueRequest
    <3>1. PICK n \in Oldest(InState("absent")) : status' = With({n}, "queued")
      BY <2>1 DEF EnqueueRequest, Enqueue
    <3>. QED BY <3>1, <1>1 DEF With, Oldest, InState
  <2>2. CASE CancelUpdate
    <3>1. PICK t \in cancelling : CancelRow(t)
      BY <2>2 DEF CancelUpdate
    <3>. QED BY <3>1, <1>1 DEF CancelRow, With
  <2>3. CASE CancelAll
    <3>1. PICK k \in Key : CancelProject(ProjectOf[k])
      BY <2>3 DEF CancelAll
    <3>. QED BY <3>1, <1>1 DEF CancelProject, With
  <2>4. CASE CancelSelect \/ LeaseTimeout
    BY <2>4, <1>1 DEF CancelSelect, LeaseTimeout, LeaseExpires, tables
  <2>. QED BY <2>1, <2>2, <2>3, <2>4 DEF Request
<1>3. Running \subseteq Running'
  BY <1>1, <1>2 DEF Running, InState
<1>4. AtMostOneExecution' /\ SlotsCoverExecs'
  BY <1>u DEF Solo, AtMostOneExecution, SlotsCoverExecs
<1>. QED BY <1>u, <1>3, <1>4, SoloAside DEF Solo, ExecutionOwnsTask

LEMMA SoloStep == OneWorker /\ TypeOK /\ SameProject /\ Solo /\ [Next]_vars => Solo'
<1>. SUFFICES ASSUME OneWorker, TypeOK, SameProject, Solo, [Next]_vars PROVE Solo'
  OBVIOUS
<1>1. CASE Next
  BY <1>1, SoloLoop, SoloDisturb, SoloExecution, SoloRequest DEF Next
<1>2. CASE UNCHANGED vars
  <2>1. UNCHANGED << status, dep, pc, seen, inflight, execs >>
    BY <1>2 DEF vars
  <2>2. AtMostOneExecution' /\ ExecutionOwnsTask' /\ SlotsCoverExecs' /\ DependencyFirst'
    BY <2>1 DEF Solo, AtMostOneExecution, ExecutionOwnsTask, SlotsCoverExecs, DependencyFirst,
       Running, InState
  <2>. QED BY <2>1, <2>2 DEF Solo, Running, InState
<1>. QED BY <1>1, <1>2

LEMMA InitSolo == Init => Solo
BY DEF Init, TablesInit, Solo, AtMostOneExecution, ExecutionOwnsTask, SlotsCoverExecs,
   DependencyFirst, InState, Holding

\* The inductive invariant, of a single worker process.
LEMMA SoloInvariant == OneWorker => (Spec => [](TypeOK /\ SameProject /\ Solo))
<1>. SUFFICES ASSUME OneWorker PROVE Spec => [](TypeOK /\ SameProject /\ Solo)
  OBVIOUS
<1>1. Init => TypeOK /\ SameProject /\ Solo
  BY InitTyped, InitSameProject, InitSolo
<1>2. TypeOK /\ SameProject /\ Solo /\ [Next]_vars => (TypeOK /\ SameProject /\ Solo)'
  BY NextTyped, NextSameProject, SoloStep
<1>. QED BY <1>1, <1>2, PTL DEF Spec

\* With a single worker process, a task has at most one execution, it says
\* "running" while it has one, the execution holds its slot, and no task runs
\* before its dependency has succeeded: for every number of tasks, providers
\* and limits, through crashes, escaping exceptions and reloads.
THEOREM SingleWorkerSafety ==
  OneWorker => (Spec => [](AtMostOneExecution /\ ExecutionOwnsTask
                           /\ SlotsCoverExecs /\ DependencyFirst))
<1>1. Solo => AtMostOneExecution /\ ExecutionOwnsTask /\ SlotsCoverExecs /\ DependencyFirst
  BY DEF Solo
<1>. QED BY <1>1, SoloInvariant, PTL

LEMMA OutcomeStep ==
  OneWorker /\ TypeOK /\ SameProject /\ Solo /\ [Next]_vars
    => \A t \in Terminal : status'[t] = status[t]
<1>. SUFFICES ASSUME OneWorker, TypeOK, SameProject, Solo, [Next]_vars, NEW t \in Terminal
              PROVE  status'[t] = status[t]
  OBVIOUS
<1>1. Proper
  BY SoloProper
<1>2. t \in Task /\ status[t] \in {"succeeded", "failed", "cancelled"}
  BY DEF Terminal, Dead, InState
<1>. QED BY <1>1, <1>2 DEF Proper

\* With a single worker process, the outcome recorded for a task is final.
THEOREM OutcomesAreFinal == OneWorker => (Spec => ResultsStick)
<1>. SUFFICES ASSUME OneWorker PROVE Spec => ResultsStick
  OBVIOUS
<1>1. TypeOK /\ SameProject /\ Solo /\ [Next]_vars
        => [\A t \in Terminal : status'[t] = status[t]]_vars
  BY OutcomeStep
<1>. QED BY <1>1, SoloInvariant, PTL DEF Spec, ResultsStick

\* With a single worker process, the row of a task says "running" for as long
\* as an execution of it is alive, so nothing else claims, cancels or requeues
\* it meanwhile.
THEOREM ExecutionsOwnTheirTask == OneWorker => (Spec => []ExecutionOwnsTask)
<1>1. Solo => ExecutionOwnsTask
  BY DEF Solo
<1>. QED BY <1>1, SoloInvariant, PTL

\* With a single worker process, a task runs, and has succeeded, only after the
\* task it depends on has succeeded, and no retry undoes that.
THEOREM DependenciesFirst == OneWorker => (Spec => []DependencyFirst)
<1>1. Solo => DependencyFirst
  BY DEF Solo
<1>. QED BY <1>1, SoloInvariant, PTL

-------------------------------------------------------------------------------
(* Nobody is forgotten, until an exception escapes.                          *)

AllRemembered == \A t \in Running : Remembered(t)

\* Why nobody is forgotten.  The worker owns the lease from its recovery on, so
\* it never finds it taken; it executes only while it owns it; it recovers
\* before it first claims; and the row it is about to claim is not running.
Remembers ==
  /\ AllRemembered
  /\ \A w \in Worker :
       /\ owns[w] => lease.owner = w /\ pc[w] # "off"
       /\ ~ owns[w] => pc[w] \in {"off", "renew", "draining"} /\ execs = {}
       /\ pc[w] = "take" => seen[w] \cap Running = {}

\* A step that makes no row run and ends no execution, or ends it with its row,
\* and leaves the loop where it is.
LEMMA RemembersAside ==
  ASSUME OneWorker, TypeOK, Remembers,
         UNCHANGED << pc, seen, owns >>, lease'.owner = lease.owner,
         Running' \subseteq Running,
         \A x \in execs : (\E y \in execs' : y.task = x.task) \/ x.task \notin Running',
         execs = {} => execs' = {}
  PROVE  Remembers'
<1>1. AllRemembered'
  <2>. SUFFICES ASSUME NEW t \in Running'
                PROVE  \/ \E x \in execs' : x.task = t
                       \/ \E w \in Worker : pc'[w] \in Holding /\ t \in seen'[w]
                       \/ \A w \in Worker : pc'[w] \in {"off", "renew", "draining"} /\ ~ owns'[w]
                       \/ \E w \in Worker : pc'[w] = "recover" \/ (pc'[w] = "requeue" /\ t \in seen'[w])
    BY DEF AllRemembered, Remembered
  <2>1. t \in Running
    OBVIOUS
  <2>2. CASE \E x \in execs : x.task = t
    BY <2>2
  <2>. QED BY <2>1, <2>2 DEF Remembers, AllRemembered, Remembered
<1>. QED BY <1>1 DEF Remembers

\* A step after which the loop is in a known place.
LEMMA RemembersAt ==
  ASSUME OneWorker, NEW w \in Worker,
         \/ /\ pc'[w] \in Label \ {"off", "take"} /\ owns'[w] /\ lease'.owner = w
            /\ \A t \in Running' : \/ \E x \in execs' : x.task = t
                                   \/ pc'[w] \in Holding /\ t \in seen'[w]
                                   \/ pc'[w] = "recover"
                                   \/ pc'[w] = "requeue" /\ t \in seen'[w]
         \/ /\ pc'[w] = "take" /\ owns'[w] /\ lease'.owner = w
            /\ seen'[w] \cap Running' = {}
            /\ \A t \in Running' : \E x \in execs' : x.task = t
         \/ /\ pc'[w] \in {"off", "renew", "draining"} /\ owns'[w] = FALSE /\ execs' = {}
  PROVE  Remembers'
<1>1. AllRemembered'
  BY DEF AllRemembered, Remembered, OneWorker
<1>2. ASSUME NEW v \in Worker
      PROVE  /\ owns'[v] => lease'.owner = v /\ pc'[v] # "off"
             /\ ~ owns'[v] => pc'[v] \in {"off", "renew", "draining"} /\ execs' = {}
             /\ pc'[v] = "take" => seen'[v] \cap Running' = {}
  BY v = w DEF OneWorker
<1>. QED BY <1>1, <1>2 DEF Remembers

LEMMA RemembersLoop ==
  ASSUME OneWorker, faults' = 0, TypeOK, SameProject, Solo, Remembers,
         NEW w \in Worker, Loop(w), Next
  PROVE  Remembers'
<1>t. LoopTypeOK /\ HoldsOne
  BY TypeSplit
<1>n. faults \in Nat
  BY WorkerAssumption DEF TypeOK
<1>x. \A x \in execs : x.worker = w /\ x.task \in Task
  BY DEF OneWorker, TypeOK, Exec
<1>b. owns[w] \in BOOLEAN
  BY <1>t DEF LoopTypeOK
<1>q. {"renew", "select", "recover", "requeue", "route", "refuse", "refuseWrite", "putback"}
        \subseteq Label \ {"off", "take"}
  BY DEF Label
\* While the loop is past its recovery and holds nothing, whatever runs is executed.
<1>o. pc[w] \notin {"off", "renew", "draining"} => owns[w] /\ lease.owner = w
  BY <1>b DEF Remembers
<1>f. ASSUME NEW t \in Running
      PROVE  \/ \E x \in execs : x.task = t
             \/ pc[w] \in Holding \ {"take"} /\ t \in seen[w]
             \/ pc[w] \in {"off", "renew", "draining"} /\ ~ owns[w]
             \/ pc[w] = "recover"
             \/ pc[w] = "requeue" /\ t \in seen[w]
  <2>1. pc[w] = "take" => t \notin seen[w]
    BY DEF Remembers
  <2>. QED BY <2>1 DEF Remembers, AllRemembered, Remembered, OneWorker
<1>r. ASSUME UNCHANGED status PROVE Running' = Running
  BY <1>r DEF Running, InState
<1>1. CASE Start(w)
  <2>1. pc'[w] = "renew" /\ UNCHANGED << owns, execs >> /\ pc[w] = "off"
    BY <1>1, <1>t, GotoEffect DEF Start, Label, Media
  <2>2. owns'[w] = FALSE /\ execs' = {}
    BY <2>1, <1>b DEF Remembers
  <2>. QED BY <2>1, <2>2, RemembersAt
<1>2. CASE RenewLease(w)
  <2>. DEFINE left == LiveEntries(w)
  <2>1. UNCHANGED << status, execs >> /\ owns'[w] = MayHold(w) /\ pc[w] = "renew"
    BY <1>2, <1>t DEF RenewLease, LoopTypeOK
  <2>2. CASE ~ MayHold(w)
    <3>1. owns[w] = FALSE
      BY <2>2, <1>b DEF Remembers, MayHold
    <3>2. pc'[w] = "renew"
      BY <1>2, <2>2, <1>t, GotoEffect DEF RenewLease, Label, Media
    <3>3. owns'[w] = FALSE
      <4>1. MayHold(w) \in BOOLEAN
        BY DEF MayHold
      <4>. QED BY <2>1, <2>2, <4>1
    <3>4. execs' = {}
      BY <2>1, <3>1 DEF Remembers
    <3>. QED BY <3>2, <3>3, <3>4, RemembersAt
  <2>3. CASE MayHold(w) /\ NeedsRecovery(w, left)
    <3>1. pc'[w] = "recover" /\ lease'.owner = w
      BY <1>2, <2>3, <1>t, GotoEffect DEF RenewLease, AcquireLease, Label, Media
    <3>. QED BY <2>1, <2>3, <3>1, <1>q, RemembersAt
  <2>4. CASE MayHold(w) /\ ~ NeedsRecovery(w, left)
    <3>1. pc'[w] \in {"select", "renew"} /\ lease'.owner = w
      BY <1>2, <2>4, <1>t, LaneEffect DEF RenewLease, AcquireLease
    <3>2. owns[w]
      <4>1. execs = {} => left = {}
        BY DEF LiveEntries, Live
      <4>. QED BY <2>4, <4>1, <1>b DEF NeedsRecovery, Remembers
    <3>3. \A t \in Running : \E x \in execs : x.task = t
      BY <2>1, <3>2, <1>f DEF Holding
    <3>. QED BY <2>1, <2>4, <3>1, <3>3, <1>q, <1>r, RemembersAt
  <2>. QED BY <2>2, <2>3, <2>4
<1>3. CASE RecoverSelect(w)
  <2>1. /\ pc'[w] = "requeue" /\ seen'[w] = Running
        /\ UNCHANGED << status, execs, owns, lease >> /\ pc[w] = "recover"
    BY <1>3, <1>t, GotoEffect DEF RecoverSelect, LoopTypeOK, tables, Label, Media
  <2>. QED BY <2>1, <1>o, <1>q, <1>r, RemembersAt
<1>4. CASE RecoverUpdate(w)
  <2>1. /\ pc'[w] \in {"select", "renew"} /\ UNCHANGED << execs, owns, lease >>
        /\ pc[w] = "requeue" /\ status' = With(seen[w] \cap Running, "queued")
    BY <1>4, <1>t, LaneEffect DEF RecoverUpdate, RequeueRows
  <2>2. execs = {}
    BY <2>1 DEF Solo
  <2>3. Running \subseteq seen[w]
    BY <2>1, <2>2, <1>f DEF Holding
  <2>4. Running' = {}
    BY <2>1, <2>3 DEF Running, InState, With
  <2>. QED BY <2>1, <2>4, <1>o, <1>q, RemembersAt
<1>5. CASE ClaimSelect(w)
  <2>1. UNCHANGED << status, execs, owns, lease >> /\ pc[w] = "select" /\ lane[w] \in Media
    BY <1>5, <1>t DEF ClaimSelect, tables, LoopTypeOK
  <2>executed. \A t \in Running : \E x \in execs : x.task = t
    BY <2>1, <1>f DEF Holding
  <2>goes. pc'[w] \in {"renew", "select"} \/ pc'[w] = "take"
    BY <1>5, <2>1, <1>t, GotoEffect, LaneEffect DEF ClaimSelect, Label
  <2>queued. seen'[w] \cap Running = {}
    BY <1>5, <1>t DEF ClaimSelect, Oldest, Claimable, Queued, Running, InState, LoopTypeOK
  <2>. QED BY <2>1, <2>executed, <2>goes, <2>queued, <1>o, <1>q, <1>r, RemembersAt
<1>6. CASE ClaimUpdate(w)
  <2>1. UNCHANGED << execs, owns, lease >> /\ pc[w] = "take" /\ lane[w] \in Media
    BY <1>6, <1>t DEF ClaimUpdate, LoopTypeOK
  <2>2. \A t \in Running : \E x \in execs : x.task = t
    BY <2>1, <1>f DEF Holding
  <2>3. CASE UNCHANGED status /\ EndLane(w, limit[w], inflight[w])
    BY <2>1, <2>2, <2>3, <1>t, <1>o, <1>q, <1>r, LaneEffect, RemembersAt
  <2>4. ASSUME NEW t \in seen[w], TakeRow(t), Goto(w, "route", lane[w]), UNCHANGED seen
        PROVE  Remembers'
    <3>1. pc'[w] = "route"
      BY <2>1, <2>4, <1>t, GotoEffect DEF Label
    <3>2. Running' \subseteq Running \cup {t}
      BY <2>4 DEF TakeRow, With, Running, InState
    <3>. QED BY <2>1, <2>2, <2>4, <3>1, <3>2, <1>o, <1>q, RemembersAt DEF Holding
  <2>. QED BY <2>3, <2>4, <1>6 DEF ClaimUpdate
<1>7. CASE Route(w)
  <2>. DEFINE L(p) == WithPool(limit[w], p)
  <2>1. PICK t \in seen[w], p \in Provider :
          Refuse(w, L(p), p) \/ PoolFull(w, L(p), p) \/ Dispatch(w, L(p), p, t)
    BY <1>7 DEF Route
  <2>2. /\ UNCHANGED << status, owns, lease >> /\ pc[w] = "route" /\ lane[w] \in Media
    BY <1>7, <1>t DEF Route, tables, LoopTypeOK
  <2>3. \A u \in Running : (\E x \in execs : x.task = u) \/ u = t
    BY <2>2, <1>f, <1>t DEF HoldsOne, Holding
  <2>4. CASE Refuse(w, L(p), p) \/ PoolFull(w, L(p), p)
    <3>1. UNCHANGED << seen, execs >> /\ pc'[w] \in {"refuse", "putback"}
      BY <2>2, <2>4, <1>t, GotoEffect DEF Refuse, PoolFull, Label
    <3>. QED BY <2>2, <2>3, <3>1, <1>o, <1>q, <1>r, RemembersAt DEF Holding
  <2>5. CASE Dispatch(w, L(p), p, t)
    <3>. DEFINE exec == [task |-> t, try |-> tries[t] + 1, provider |-> p,
                         worker |-> w, phase |-> "run"]
    <3>1. execs' = execs \cup {exec} /\ exec.task = t
      BY <2>5 DEF Dispatch
    <3>. HIDE DEF exec
    <3>2. pc'[w] \in {"renew", "select"}
      BY <2>2, <2>5, <1>t, GotoEffect, LaneEffect DEF Dispatch, Label
    <3>3. \A u \in Running' : \E x \in execs' : x.task = u
      BY <2>2, <2>3, <3>1, <1>r
    <3>. QED BY <2>2, <3>2, <3>3, <1>o, <1>q, RemembersAt
  <2>. QED BY <2>1, <2>4, <2>5
<1>8. CASE PutBack(w)
  <2>1. /\ UNCHANGED << execs, owns, lease >> /\ pc'[w] \in {"renew", "select"}
        /\ pc[w] = "putback"
    BY <1>8, <1>t, LaneEffect DEF PutBack
  <2>2. status' = With(seen[w] \cap Running, "queued")
    BY <1>8, <1>n DEF PutBack, RequeueRows
  <2>3. \A t \in Running' : t \in Running /\ t \notin seen[w]
    BY <2>2 DEF With, Running, InState
  <2>. QED BY <2>1, <2>3, <1>f, <1>o, <1>q, RemembersAt
<1>9. CASE RefuseSelect(w)
  <2>1. UNCHANGED << status, execs, owns, lease >> /\ pc[w] = "refuse" /\ lane[w] \in Media
    BY <1>9, <1>t DEF RefuseSelect, tables, LoopTypeOK
  <2>2. PICK t \in seen[w] :
          IF t \in Active
          THEN Goto(w, "refuseWrite", lane[w]) /\ UNCHANGED seen
          ELSE Goto(w, "select", lane[w]) /\ seen' = [seen EXCEPT ![w] = {}]
    BY <1>9 DEF RefuseSelect
  <2>3. t \in Active
    BY <2>1, ActiveParts DEF Solo, Holding
  <2>4. pc'[w] = "refuseWrite" /\ UNCHANGED seen
    BY <2>1, <2>2, <2>3, <1>t, GotoEffect DEF Label
  <2>. QED BY <2>1, <2>4, <1>f, <1>o, <1>q, <1>r, RemembersAt DEF Holding
<1>10. CASE RefuseUpdate(w)
  <2>1. /\ UNCHANGED << execs, owns, lease >> /\ pc[w] = "refuseWrite" /\ lane[w] \in Media
        /\ Goto(w, "select", lane[w])
    BY <1>10, <1>t DEF RefuseUpdate, LoopTypeOK
  <2>2. PICK t \in seen[w] : FailRow(t)
    BY <1>10 DEF RefuseUpdate
  <2>3. \A u \in Running' : u \in Running /\ u # t
    BY <2>2 DEF FailRow, With, Running, InState
  <2>4. seen[w] = {t}
    BY <2>1, <1>t DEF HoldsOne, Holding
  <2>5. pc'[w] = "select"
    BY <2>1, <1>t, GotoEffect DEF Label
  <2>. QED BY <2>1, <2>3, <2>4, <2>5, <1>f, <1>o, <1>q, RemembersAt
<1>11. CASE FinishStop(w) \/ ExitDead(w)
  <2>1. Vanish(w)
    BY <1>11 DEF FinishStop, ExitDead
  <2>2. execs' = {} /\ pc'[w] = "off" /\ owns'[w] = FALSE
    BY <2>1, <1>t, <1>x, GotoEffect DEF Vanish, Label, Media, LoopTypeOK
  <2>. QED BY <2>2, RemembersAt
<1>. QED BY <1>1, <1>2, <1>3, <1>4, <1>5, <1>6, <1>7, <1>8, <1>9, <1>10, <1>11 DEF Loop

LEMMA RemembersDisturb ==
  ASSUME OneWorker, faults' = 0, TypeOK, Remembers, NEW w \in Worker, Disturb(w)
  PROVE  Remembers'
<1>t. LoopTypeOK
  BY TypeSplit
<1>n. faults \in Nat
  BY WorkerAssumption DEF TypeOK
<1>x. \A x \in execs : x.worker = w
  BY DEF OneWorker, TypeOK, Exec
<1>1. CASE Crash(w)
  <2>1. execs' = {} /\ pc'[w] = "off" /\ owns'[w] = FALSE
    BY <1>1, <1>t, <1>x, GotoEffect DEF Crash, Vanish, Label, Media, LoopTypeOK
  <2>. QED BY <2>1, RemembersAt
<1>2. CASE Stop(w)
  <2>1. /\ UNCHANGED << status, execs, owns, lease >> /\ pc[w] = "renew"
        /\ pc'[w] = "draining"
    BY <1>2, <1>t, GotoEffect DEF Stop, tables, Label, Media
  <2>2. owns[w] \in BOOLEAN
    BY <1>t DEF LoopTypeOK
  <2>3. CASE ~ owns[w]
    BY <2>1, <2>2, <2>3, RemembersAt DEF Remembers
  <2>4. CASE owns[w]
    <3>1. lease.owner = w
      BY <2>4 DEF Remembers
    <3>2. \A t \in Running : \E x \in execs : x.task = t
      BY <2>1, <2>4 DEF Remembers, AllRemembered, Remembered, OneWorker, Holding
    <3>3. Running' = Running /\ "draining" \in Label \ {"off", "take"}
      BY <2>1 DEF Running, InState, Label
    <3>. QED BY <2>1, <2>4, <3>1, <3>2, <3>3, RemembersAt
  <2>. QED BY <2>3, <2>4
<1>3. CASE LoopDies(w)
  BY <1>3, <1>n DEF LoopDies
<1>4. CASE ReloadLimits(w)
  <2>1. UNCHANGED << status, execs, owns, lease, pc, seen >>
    BY <1>4 DEF ReloadLimits, tables
  <2>2. Running' = Running
    BY <2>1 DEF Running, InState
  <2>. QED BY <2>1, <2>2, RemembersAside
<1>. QED BY <1>1, <1>2, <1>3, <1>4 DEF Disturb

LEMMA RemembersExecution ==
  ASSUME OneWorker, faults' = 0, TypeOK, Solo, Remembers,
         NEW x \in execs, Execute(x) \/ Abort(x)
  PROVE  Remembers'
<1>n. faults \in Nat
  BY WorkerAssumption DEF TypeOK
<1>u. UNCHANGED << pc, seen, owns, lease >>
  BY DEF Execute, Succeed, FailSelect, FailUpdate, Abort, loopVars, tables
<1>x. x.task \in Running /\ x \in Exec
  BY DEF Solo, ExecutionOwnsTask, TypeOK
<1>1. CASE Succeed(x) \/ FailUpdate(x)
  <2>1. execs' = execs \ {x}
    BY <1>1 DEF Succeed, FailUpdate
  <2>2. Running' \subseteq Running \ {x.task}
    BY <1>1 DEF Succeed, SucceedRow, FailUpdate, FailRow, With, Running, InState
  <2>. QED BY <2>1, <2>2, <1>u, RemembersAside
<1>2. CASE FailSelect(x)
  <2>. DEFINE y == [x EXCEPT !.phase = "failing"]
  <2>1. execs' = (execs \ {x}) \cup {y} /\ UNCHANGED status
    BY <1>2, <1>x, ActiveParts DEF FailSelect, tables
  <2>2. y.task = x.task
    BY <1>x DEF Exec
  <2>. HIDE DEF y
  <2>3. \A z \in execs : \E v \in execs' : v.task = z.task
    BY <2>1, <2>2
  <2>4. Running' = Running
    BY <2>1 DEF Running, InState
  <2>. QED BY <2>3, <2>4, <1>u, RemembersAside
<1>3. CASE Abort(x)
  BY <1>3, <1>n DEF Abort
<1>. QED BY <1>1, <1>2, <1>3 DEF Execute

LEMMA RemembersRequest ==
  ASSUME OneWorker, TypeOK, Remembers, Request \/ LeaseTimeout
  PROVE  Remembers'
<1>u. UNCHANGED << pc, seen, owns, execs >> /\ lease'.owner = lease.owner
  BY DEF Request, EnqueueRequest, Enqueue, CancelSelect, CancelUpdate, CancelAll, LeaseTimeout,
     LeaseExpires, loopVars, tables, TypeOK, TablesTypeOK
<1>1. Running' \subseteq Running
  <2>1. CASE EnqueueRequest
    <3>1. PICK n : status' = With({n}, "queued")
      BY <2>1 DEF EnqueueRequest, Enqueue
    <3>. QED BY <3>1 DEF With, Running, InState
  <2>2. CASE CancelUpdate
    <3>1. PICK t \in cancelling : CancelRow(t)
      BY <2>2 DEF CancelUpdate
    <3>. QED BY <3>1 DEF CancelRow, With, Running, InState
  <2>3. CASE CancelAll
    <3>1. PICK k \in Key : CancelProject(ProjectOf[k])
      BY <2>3 DEF CancelAll
    <3>. QED BY <3>1 DEF CancelProject, With, Running, InState
  <2>4. CASE CancelSelect \/ LeaseTimeout
    BY <2>4 DEF CancelSelect, LeaseTimeout, LeaseExpires, tables, Running, InState
  <2>. QED BY <2>1, <2>2, <2>3, <2>4 DEF Request
<1>. QED BY <1>u, <1>1, RemembersAside

\* Exceptions are counted one by one.
LEMMA FaultsStep == ASSUME [Next]_vars PROVE faults' \in {faults, faults + 1}
<1>1. ASSUME NEW w \in Worker, Loop(w) PROVE faults' \in {faults, faults + 1}
  BY <1>1 DEF Loop, Start, RenewLease, RecoverSelect, RecoverUpdate, ClaimSelect, ClaimUpdate,
     Route, PutBack, RefuseSelect, RefuseUpdate, FinishStop, ExitDead, Vanish, envVars
<1>2. ASSUME NEW w \in Worker, Disturb(w) PROVE faults' \in {faults, faults + 1}
  BY <1>2 DEF Disturb, Crash, Stop, LoopDies, ReloadLimits, Vanish, envVars
<1>3. ASSUME NEW x \in execs, Execute(x) \/ Abort(x) PROVE faults' \in {faults, faults + 1}
  BY <1>3 DEF Execute, Succeed, FailSelect, FailUpdate, Abort, envVars
<1>4. CASE Request \/ LeaseTimeout
  BY <1>4 DEF Request, EnqueueRequest, CancelSelect, CancelUpdate, CancelAll, LeaseTimeout, envVars
<1>5. CASE UNCHANGED vars
  BY <1>5 DEF vars
<1>. QED BY <1>1, <1>2, <1>3, <1>4, <1>5 DEF Next

\* With a single worker process, no running row is forgotten until an exception
\* escapes: it is being executed, or held by the claim loop, or the recovery that
\* puts it back is still to come, through any number of crashes, shutdowns,
\* restarts and lapses of the lease.
THEOREM NoneForgotten == OneWorker => (Spec => []NobodyForgotten)
<1>. SUFFICES ASSUME OneWorker PROVE Spec => []NobodyForgotten
  OBVIOUS
<1>. DEFINE Calm == faults = 0 => Remembers
<1>1. Init => Calm
  BY DEF Init, TablesInit, Remembers, AllRemembered, Remembered, Running, InState
<1>2. TypeOK /\ SameProject /\ Solo /\ Calm /\ [Next]_vars => Calm'
  <2>. SUFFICES ASSUME TypeOK, SameProject, Solo, Calm, [Next]_vars, faults' = 0 PROVE Remembers'
    OBVIOUS
  <2>0. Remembers
    <3>1. faults \in Nat
      BY WorkerAssumption DEF TypeOK
    <3>2. faults' \in {faults, faults + 1}
      BY FaultsStep
    <3>. QED BY <3>1, <3>2
  <2>1. CASE Next
    BY <2>0, <2>1, RemembersLoop, RemembersDisturb, RemembersExecution, RemembersRequest DEF Next
  <2>2. CASE UNCHANGED vars
    <3>1. UNCHANGED << status, pc, seen, owns, execs, lease >>
      BY <2>2 DEF vars
    <3>2. Running' = Running
      BY <3>1 DEF Running, InState
    <3>. QED BY <2>0, <3>1, <3>2, RemembersAside
  <2>. QED BY <2>1, <2>2
<1>3. Calm => NobodyForgotten
  BY DEF Remembers, NobodyForgotten, AllRemembered
<1>. HIDE DEF Calm
<1>. QED BY <1>1, <1>2, <1>3, SoloInvariant, PTL DEF Spec

-------------------------------------------------------------------------------
(* The limits of the pools.                                                  *)

\* What makes the limits countable: finitely many executions and entries, and
\* what the claim loop holds is of the lane it is in.
Counted ==
  /\ IsFiniteSet(execs)
  /\ \A w \in Worker : IsFiniteSet(inflight[w])
  /\ \A w \in Worker : pc[w] \in Holding => \A t \in seen[w] : MediaOf[key[t]] = lane[w]

\* The key of a row never changes once the row exists.
LEMMA KeysStay ==
  ASSUME TypeOK, SameProject, [Next]_vars
  PROVE  \A t \in Task : status[t] # "absent" => key'[t] = key[t]
<1>1. ASSUME NEW k \in Key, NEW d \in 0 .. MaxTasks, Enqueue(k, d),
             NEW t \in Task, status[t] # "absent"
      PROVE  key'[t] = key[t]
  <2>1. PICK n \in Oldest(InState("absent")) : key' = [key EXCEPT ![n] = k]
    BY <1>1 DEF Enqueue
  <2>2. n # t
    BY <1>1 DEF Oldest, InState
  <2>. QED BY <2>1, <2>2, <1>1 DEF TypeOK, TablesTypeOK
<1>. QED BY <1>1, StepRows DEF Moves

LEMMA CountedExecs ==
  ASSUME IsFiniteSet(execs), [Next]_vars
  PROVE  IsFiniteSet(execs')
<1>1. ASSUME NEW S \in SUBSET execs, NEW y, execs' = S \/ execs' = S \cup {y} PROVE IsFiniteSet(execs')
  BY <1>1, FS_Subset, FS_AddElement
<1>2. \E S \in SUBSET execs : execs' = S \/ \E y : execs' = S \cup {y}
  <2>1. ASSUME NEW w \in Worker, Loop(w) \/ Disturb(w)
        PROVE  \E S \in SUBSET execs : execs' = S \/ \E y : execs' = S \cup {y}
    <3>1. CASE Route(w)
      <4>0. PICK t \in seen[w], p \in Provider :
              \E L : Refuse(w, L, p) \/ PoolFull(w, L, p) \/ Dispatch(w, L, p, t)
        BY <3>1 DEF Route
      <4>1. PICK L : Refuse(w, L, p) \/ PoolFull(w, L, p) \/ Dispatch(w, L, p, t)
        BY <4>0
      <4>. QED BY <4>1 DEF Refuse, PoolFull, Dispatch
    <3>2. CASE ~ Route(w)
      <4>1. UNCHANGED execs \/ execs' = {x \in execs : x.worker # w}
        BY <2>1, <3>2 DEF Loop, Disturb, Start, RenewLease, RecoverSelect, RecoverUpdate,
           ClaimSelect, ClaimUpdate, PutBack, RefuseSelect, RefuseUpdate, FinishStop, ExitDead,
           Crash, Vanish, Stop, LoopDies, ReloadLimits
      <4>. QED BY <4>1
    <3>. QED BY <3>1, <3>2
  <2>2. ASSUME NEW x \in execs, Execute(x) \/ Abort(x)
        PROVE  \E S \in SUBSET execs : execs' = S \/ \E y : execs' = S \cup {y}
    <3>1. CASE FailSelect(x)
      <4>1. \/ execs' = execs \ {x}
            \/ execs' = (execs \ {x}) \cup {[x EXCEPT !.phase = "failing"]}
        BY <3>1 DEF FailSelect
      <4>. QED BY <4>1
    <3>. QED BY <3>1, <2>2 DEF Execute, Succeed, FailUpdate, Abort
  <2>3. CASE Request \/ LeaseTimeout \/ UNCHANGED vars
    <3>1. UNCHANGED execs
      BY <2>3 DEF Request, EnqueueRequest, CancelSelect, CancelUpdate, CancelAll, LeaseTimeout, vars
    <3>. QED BY <3>1
  <2>. QED BY <2>1, <2>2, <2>3 DEF Next
<1>. QED BY <1>1, <1>2

LEMMA CountedEntries ==
  ASSUME TypeOK, \A w \in Worker : IsFiniteSet(inflight[w]), [Next]_vars
  PROVE  \A w \in Worker : IsFiniteSet(inflight'[w])
<1>t. LoopTypeOK
  BY TypeSplit
<1>. SUFFICES ASSUME NEW v \in Worker
              PROVE  \/ inflight'[v] \subseteq inflight[v]
                     \/ \E S \in SUBSET inflight[v] : \E e : inflight'[v] = S \cup {e}
  BY FS_Subset, FS_AddElement
<1>1. ASSUME NEW w \in Worker, Loop(w) \/ Disturb(w)
      PROVE  \/ inflight'[v] \subseteq inflight[v]
             \/ \E S \in SUBSET inflight[v] : \E e : inflight'[v] = S \cup {e}
  <2>1. CASE Route(w)
    <3>0. PICK t \in seen[w], p \in Provider :
            \E L : Refuse(w, L, p) \/ PoolFull(w, L, p) \/ Dispatch(w, L, p, t)
      BY <2>1 DEF Route
    <3>1. PICK L : Refuse(w, L, p) \/ PoolFull(w, L, p) \/ Dispatch(w, L, p, t)
      BY <3>0
    <3>2. CASE Dispatch(w, L, p, t)
      <4>. DEFINE entry == [task |-> t, try |-> tries[t] + 1, provider |-> p]
                  S == {e \in inflight[w] : ~ (e.task = t /\ e.provider = p)}
      <4>1. inflight' = [inflight EXCEPT ![w] = S \cup {entry}]
        BY <3>2 DEF Dispatch
      <4>. HIDE DEF entry
      <4>2. CASE v = w
        <5>1. inflight'[v] = S \cup {entry} /\ S \in SUBSET inflight[v]
          BY <4>1, <4>2, <1>t DEF LoopTypeOK
        <5>. QED BY <5>1
      <4>. QED BY <4>1, <4>2, <1>t DEF LoopTypeOK
    <3>. QED BY <3>1, <3>2 DEF Refuse, PoolFull
  <2>2. CASE ~ Route(w)
    <3>1. \/ UNCHANGED inflight \/ inflight' = [inflight EXCEPT ![w] = LiveEntries(w)]
          \/ inflight' = [inflight EXCEPT ![w] = {}]
          \/ \E c \in Configs :
               inflight' = [inflight EXCEPT ![w] = {e \in inflight[w] : e.provider \in Kept(w, c)}]
      BY <1>1, <2>2, <1>t DEF Loop, Disturb, Start, RenewLease, RecoverSelect, RecoverUpdate,
         ClaimSelect, ClaimUpdate, PutBack, RefuseSelect, RefuseUpdate, FinishStop, ExitDead,
         Crash, Vanish, Stop, LoopDies, ReloadLimits, LoopTypeOK
    <3>. QED BY <3>1, <1>t DEF LoopTypeOK, LiveEntries
  <2>. QED BY <2>1, <2>2
<1>2. CASE ~ \E w \in Worker : Loop(w) \/ Disturb(w)
  <2>1. UNCHANGED inflight
    BY <1>2 DEF Next, Execute, Succeed, FailSelect, FailUpdate, Abort, Request, EnqueueRequest,
       CancelSelect, CancelUpdate, CancelAll, LeaseTimeout, loopVars, vars
  <2>. QED BY <2>1
<1>. QED BY <1>1, <1>2

\* The loop changes lanes only when it holds nothing.
LEMMA CountedLane ==
  ASSUME TypeOK, SameProject, [Next]_vars,
         \A w \in Worker : pc[w] \in Holding => \A t \in seen[w] : MediaOf[key[t]] = lane[w]
  PROVE  \A w \in Worker : pc'[w] \in Holding => \A t \in seen'[w] : MediaOf[key'[t]] = lane'[w]
<1>t. LoopTypeOK /\ HoldsOne /\ SeenExist
  BY TypeSplit
<1>k. \A w \in Worker : \A t \in seen[w] : key'[t] = key[t]
  BY <1>t, KeysStay DEF LoopTypeOK, SeenExist
<1>. SUFFICES ASSUME NEW v \in Worker, pc'[v] \in Holding
              PROVE  \A t \in seen'[v] : MediaOf[key'[t]] = lane'[v]
  OBVIOUS
<1>s. ASSUME pc[v] \in Holding, lane'[v] = lane[v], seen'[v] \subseteq seen[v]
      PROVE  \A t \in seen'[v] : MediaOf[key'[t]] = lane'[v]
  BY <1>s, <1>k
<1>m. /\ \A w \in Worker : lane[w] \in Media
      /\ {"take", "route", "refuse", "refuseWrite", "putback", "renew", "recover", "requeue",
          "select", "off", "draining", "dead"} \subseteq Label
      /\ {"renew", "recover", "requeue", "select", "off", "draining", "dead"} \cap Holding = {}
      /\ Holding = {"take", "route", "refuse", "refuseWrite", "putback"}
      /\ "image" \in Media
  BY <1>t DEF LoopTypeOK, Label, Holding, Media
<1>1. ASSUME NEW w \in Worker, Loop(w) \/ Disturb(w), v # w
      PROVE  \A t \in seen'[v] : MediaOf[key'[t]] = lane'[v]
  <2>1. pc'[v] = pc[v] /\ seen'[v] = seen[v]
    BY <1>1, LoopStep DEF LoopSteps
  <2>2. UNCHANGED lane \/ \E m : lane' = [lane EXCEPT ![w] = m]
    <3>1. ASSUME NEW L, NEW I, EnterLanes(w, L, I) \/ EndLane(w, L, I)
          PROVE  \E m : lane' = [lane EXCEPT ![w] = m]
      BY <3>1 DEF EnterLanes, EndLane, Goto
    <3>2. ASSUME NEW l, NEW m, Goto(w, l, m) PROVE lane' = [lane EXCEPT ![w] = m]
      BY <3>2 DEF Goto
    <3>3. CASE Route(w)
      <4>0. PICK t \in seen[w], p \in Provider :
              \E L : Refuse(w, L, p) \/ PoolFull(w, L, p) \/ Dispatch(w, L, p, t)
        BY <3>3 DEF Route
      <4>1. PICK L : Refuse(w, L, p) \/ PoolFull(w, L, p) \/ Dispatch(w, L, p, t)
        BY <4>0
      <4>. QED BY <4>1, <3>1, <3>2 DEF Refuse, PoolFull, Dispatch
    <3>. QED BY <1>1, <3>1, <3>2, <3>3 DEF Loop, Disturb, Start, RenewLease, RecoverSelect,
         RecoverUpdate, ClaimSelect, ClaimUpdate, PutBack, RefuseSelect, RefuseUpdate, FinishStop,
         ExitDead, Crash, Vanish, Stop, LoopDies, ReloadLimits
  <2>3. lane'[v] = lane[v]
    BY <1>1, <2>2, <1>t DEF LoopTypeOK
  <2>. QED BY <2>1, <2>3, <1>s
<1>2. CASE Loop(v)
  <2>select. CASE ClaimSelect(v)
    <3>1. seen'[v] \subseteq Claimable(lane[v]) /\ UNCHANGED key
      BY <2>select, <1>t DEF ClaimSelect, Oldest, LoopTypeOK, tables
    <3>2. pc'[v] = "take" => lane'[v] = lane[v]
      <4>1. CASE Goto(v, "take", lane[v])
        BY <4>1, <1>t, <1>m, GotoEffect
      <4>2. CASE EndLane(v, limit[v], inflight[v])
        BY <4>2, <1>t, LaneEffect
      <4>. QED BY <2>select, <4>1, <4>2 DEF ClaimSelect
    <3>3. CASE pc'[v] = "take"
      BY <3>1, <3>2, <3>3 DEF Claimable
    <3>4. CASE pc'[v] # "take"
      <4>1. EndLane(v, limit[v], inflight[v])
        BY <2>select, <3>4, <1>t, <1>m, GotoEffect DEF ClaimSelect
      <4>. QED BY <4>1, <1>t, <1>m, LaneEffect
    <3>. QED BY <3>3, <3>4
  <2>take. CASE ClaimUpdate(v)
    <3>1. CASE Goto(v, "route", lane[v]) /\ UNCHANGED seen
      BY <2>take, <3>1, <1>t, <1>m, <1>s, GotoEffect DEF ClaimUpdate
    <3>2. CASE EndLane(v, limit[v], inflight[v])
      BY <3>2, <1>t, <1>m, LaneEffect
    <3>. QED BY <2>take, <3>1, <3>2 DEF ClaimUpdate
  <2>route. CASE Route(v)
    <3>0. PICK t \in seen[v], p \in Provider :
            \E L : Refuse(v, L, p) \/ PoolFull(v, L, p) \/ Dispatch(v, L, p, t)
      BY <2>route DEF Route
    <3>1. PICK L : Refuse(v, L, p) \/ PoolFull(v, L, p) \/ Dispatch(v, L, p, t)
      BY <3>0
    <3>2. CASE Refuse(v, L, p) \/ PoolFull(v, L, p)
      <4>1. UNCHANGED seen /\ lane'[v] = lane[v]
        BY <3>2, <1>t, <1>m, GotoEffect DEF Refuse, PoolFull
      <4>. QED BY <2>route, <4>1, <1>m, <1>s DEF Route
    <3>3. CASE Dispatch(v, L, p, t)
      BY <3>3, <1>t, <1>m, GotoEffect, LaneEffect DEF Dispatch
    <3>. QED BY <3>1, <3>2, <3>3
  <2>refuse. CASE RefuseSelect(v)
    <3>1. CASE Goto(v, "refuseWrite", lane[v]) /\ UNCHANGED seen
      BY <2>refuse, <3>1, <1>t, <1>m, <1>s, GotoEffect DEF RefuseSelect
    <3>2. CASE Goto(v, "select", lane[v])
      BY <3>2, <1>t, <1>m, GotoEffect
    <3>. QED BY <2>refuse, <3>1, <3>2 DEF RefuseSelect
  <2>rest. CASE \/ Start(v) \/ RenewLease(v) \/ RecoverSelect(v) \/ RecoverUpdate(v) \/ PutBack(v)
                \/ RefuseUpdate(v) \/ FinishStop(v) \/ ExitDead(v)
    BY <2>rest, <1>t, <1>m, GotoEffect, LaneEffect DEF Start, RenewLease, RecoverSelect, RecoverUpdate,
       PutBack, RefuseUpdate, FinishStop, ExitDead, Vanish
  <2>. QED BY <1>2, <2>select, <2>take, <2>route, <2>refuse, <2>rest DEF Loop
<1>3. CASE Disturb(v)
  <2>1. CASE ReloadLimits(v)
    BY <2>1, <1>s DEF ReloadLimits
  <2>. QED BY <1>3, <2>1, <1>t, <1>m, GotoEffect DEF Disturb, Crash, Vanish, Stop, LoopDies
<1>4. CASE UNCHANGED loopVars
  BY <1>4, <1>s DEF loopVars
<1>. QED BY <1>1, <1>2, <1>3, <1>4, OtherStep DEF Next

LEMMA InitCounted == Init => Counted
BY FS_EmptySet DEF Init, TablesInit, Counted, Holding

LEMMA CountedStep == TypeOK /\ SameProject /\ Counted /\ [Next]_vars => Counted'
<1>. SUFFICES ASSUME TypeOK, SameProject, Counted, [Next]_vars PROVE Counted'
  OBVIOUS
<1>1. IsFiniteSet(execs')
  BY CountedExecs DEF Counted
<1>2. \A w \in Worker : IsFiniteSet(inflight'[w])
  BY CountedEntries DEF Counted
<1>3. \A w \in Worker : pc'[w] \in Holding => \A t \in seen'[w] : MediaOf[key'[t]] = lane'[w]
  BY CountedLane DEF Counted
<1>. QED BY <1>1, <1>2, <1>3 DEF Counted

\* The executions of a provider in a lane do not outnumber its slots in use.
LEMMA SlotsBound ==
  ASSUME TypeOK, Solo, Counted, NEW w \in Worker, NEW p \in Provider, NEW m \in Media
  PROVE  /\ IsFiniteSet(Generating(w, p, m)) /\ IsFiniteSet(Slots(inflight[w], p, m))
         /\ Cardinality(Generating(w, p, m)) <= Cardinality(Slots(inflight[w], p, m))
<1>. DEFINE S == Slots(inflight[w], p, m)
            G == Generating(w, p, m)
            slot(x) == CHOOSE e \in S : e.task = x.task
            f == [x \in G |-> slot(x)]
<1>1. IsFiniteSet(S) /\ IsFiniteSet(G)
  BY FS_Subset DEF Counted, Slots, Generating
<1>2. \A x \in G : \E e \in S : e.task = x.task
  BY DEF Solo, SlotsCoverExecs, Slots, Generating
<1>3. \A x \in G : slot(x) \in S /\ slot(x).task = x.task
  BY <1>2
<1>4. f \in Injection(G, S)
  <2>1. f \in [G -> S]
    BY <1>3
  <2>2. ASSUME NEW x \in G, NEW y \in G, f[x] = f[y] PROVE x = y
    <3>1. slot(x) = slot(y)
      BY <2>2
    <3>2. x.task = y.task
      BY <3>1, <1>3
    <3>3. x \in execs /\ y \in execs
      BY DEF Generating
    <3>. QED BY <3>2, <3>3 DEF Solo, AtMostOneExecution
  <2>. QED BY <2>1, <2>2 DEF Injection, IsInjective
<1>. QED BY <1>1, <1>4, FS_Injection

\* One more element, or one exchanged for another.
LEMMA OneMore ==
  ASSUME NEW S, IsFiniteSet(S), NEW y, NEW n \in Nat, Cardinality(S) = n
  PROVE  /\ IsFiniteSet(S \cup {y})
         /\ Cardinality(S \cup {y}) \in Nat /\ Cardinality(S \cup {y}) <= n + 1
<1>1. IsFiniteSet(S \cup {y}) /\ Cardinality(S \cup {y}) = IF y \in S THEN n ELSE n + 1
  BY FS_AddElement
<1>. QED BY <1>1

LEMMA LimitStep ==
  ASSUME OneWorker, TypeOK, SameProject, Solo, Counted, [Next]_vars,
         NEW w \in Worker, NEW p \in Provider, NEW m \in Media,
         Cardinality(Generating(w, p, m)') > Cardinality(Generating(w, p, m))
  PROVE  Cardinality(Generating(w, p, m)') <= limit'[w][p][m]
<1>. DEFINE G == Generating(w, p, m)
<1>t. LoopTypeOK /\ HoldsOne /\ SeenExist
  BY TypeSplit
<1>f. IsFiniteSet(G) /\ Cardinality(G) \in Nat
  BY SlotsBound, FS_CardinalityType
<1>x. \A x \in execs : x.task \in Task /\ status[x.task] # "absent" /\ key'[x.task] = key[x.task]
  BY KeysStay DEF TypeOK, Exec
<1>g. ASSUME G' \subseteq G PROVE FALSE
  <2>1. Cardinality(G') <= Cardinality(G) /\ Cardinality(G') \in Nat
    BY <1>f, <1>g, FS_Subset, FS_CardinalityType
  <2>. QED BY <2>1, <1>f
<1>s. ASSUME execs' \subseteq execs PROVE FALSE
  BY <1>s, <1>x, <1>g DEF Generating
<1>1. ASSUME NEW v \in Worker, Route(v) PROVE Cardinality(G') <= limit'[w][p][m]
  <2>1. v = w
    BY DEF OneWorker
  <2>2. PICK t \in seen[w], q \in Provider :
          LET L == WithPool(limit[w], q)
          IN  /\ limit' = [limit EXCEPT ![w] = L]
              /\ Refuse(w, L, q) \/ PoolFull(w, L, q) \/ Dispatch(w, L, q, t)
    BY <1>1, <2>1 DEF Route
  <2>. DEFINE L == WithPool(limit[w], q)
  <2>3. CASE Refuse(w, L, q) \/ PoolFull(w, L, q)
    BY <2>3, <1>s DEF Refuse, PoolFull
  <2>4. CASE Dispatch(w, L, q, t)
    <3>. DEFINE exec == [task |-> t, try |-> tries[t] + 1, provider |-> q,
                         worker |-> w, phase |-> "run"]
    <3>1. execs' = execs \cup {exec} /\ exec.task = t /\ exec.provider = q /\ exec.worker = w
      BY <2>4 DEF Dispatch
    <3>. HIDE DEF exec
    <3>2. UNCHANGED key /\ pc[w] \in Holding
      BY <1>1, <2>1 DEF Route, tables, Holding
    <3>3. MediaOf[key[t]] = lane[w]
      BY <3>2 DEF Counted
    <3>4. q = p /\ m = lane[w] /\ G' \subseteq G \cup {exec}
      <4>1. G' \subseteq G \cup {exec}
        BY <3>1, <3>2 DEF Generating
      <4>2. exec \in G'
        BY <4>1, <1>g
      <4>. QED BY <4>1, <4>2, <3>1, <3>2, <3>3 DEF Generating
    <3>5. Cardinality(G') <= Cardinality(G) + 1
      <4>1. /\ IsFiniteSet(G \cup {exec}) /\ Cardinality(G \cup {exec}) <= Cardinality(G) + 1
            /\ Cardinality(G \cup {exec}) \in Nat
        BY <1>f, OneMore
      <4>2. Cardinality(G') <= Cardinality(G \cup {exec}) /\ Cardinality(G') \in Nat
        BY <3>4, <4>1, FS_Subset, FS_CardinalityType
      <4>. QED BY <4>1, <4>2, <1>f
    <3>6. Cardinality(Slots(inflight[w], p, m)) < L[p][m]
      BY <2>4, <3>4 DEF Dispatch, HasRoom
    <3>7. Cardinality(G) <= Cardinality(Slots(inflight[w], p, m))
          /\ Cardinality(Slots(inflight[w], p, m)) \in Nat
      BY SlotsBound, FS_CardinalityType
    <3>8. L[p][m] \in Nat /\ limit'[w] = L
      <4>1. L \in Pools /\ L[p] # NoPool
        BY <2>4, <3>4, <1>t, WithPoolTyped DEF LoopTypeOK, Dispatch, HasRoom
      <4>. QED BY <4>1, <2>2, <1>t DEF Pools, LoopTypeOK
    <3>9. Cardinality(G') \in Nat
      <4>1. IsFiniteSet(G \cup {exec})
        BY <1>f, FS_AddElement
      <4>. QED BY <3>4, <4>1, FS_Subset, FS_CardinalityType
    <3>. HIDE DEF G, L
    <3>. QED BY <3>5, <3>6, <3>7, <3>8, <3>9, <1>f
  <2>. QED BY <2>2, <2>3, <2>4
<1>2. ASSUME NEW v \in Worker, Loop(v) \/ Disturb(v), ~ Route(v) PROVE FALSE
  <2>1. execs' \subseteq execs
    BY <1>2 DEF Loop, Disturb, Start, RenewLease, RecoverSelect, RecoverUpdate,
       ClaimSelect, ClaimUpdate, PutBack, RefuseSelect, RefuseUpdate, FinishStop, ExitDead,
       Crash, Vanish, Stop, LoopDies, ReloadLimits
  <2>. QED BY <2>1, <1>s
<1>3. ASSUME NEW x \in execs, Execute(x) \/ Abort(x) PROVE FALSE
  <2>1. CASE FailSelect(x)
    <3>. DEFINE y == [x EXCEPT !.phase = "failing"]
    <3>1. y.task = x.task /\ y.provider = x.provider /\ y.worker = x.worker
      BY DEF TypeOK, Exec
    <3>2. execs' \subseteq (execs \ {x}) \cup {y}
      BY <2>1 DEF FailSelect
    <3>. HIDE DEF y
    <3>3. CASE x \in G
      <4>1. G' \subseteq (G \ {x}) \cup {y}
        BY <3>2, <1>x DEF Generating
      <4>2. /\ IsFiniteSet(G \ {x}) /\ Cardinality(G \ {x}) = Cardinality(G) - 1
            /\ Cardinality(G \ {x}) \in Nat
        BY <3>3, <1>f, FS_RemoveElement, FS_CardinalityType
      <4>3. /\ IsFiniteSet((G \ {x}) \cup {y}) /\ Cardinality((G \ {x}) \cup {y}) <= Cardinality(G)
            /\ Cardinality((G \ {x}) \cup {y}) \in Nat
        <5>. DEFINE n == Cardinality(G \ {x})
        <5>1. IsFiniteSet((G \ {x}) \cup {y}) /\ Cardinality((G \ {x}) \cup {y}) \in Nat
              /\ Cardinality((G \ {x}) \cup {y}) <= n + 1
          BY <4>2, OneMore
        <5>2. n + 1 = Cardinality(G)
          BY <4>2, <1>f
        <5>. QED BY <5>1, <5>2
      <4>4. Cardinality(G') <= Cardinality(G) /\ Cardinality(G') \in Nat
        BY <4>1, <4>3, <1>f, FS_Subset, FS_CardinalityType
      <4>. QED BY <4>4, <1>f
    <3>4. CASE x \notin G
      <4>1. G' \subseteq G
        BY <3>1, <3>2, <3>4, <1>x DEF Generating
      <4>. QED BY <4>1, <1>g
    <3>. QED BY <3>3, <3>4
  <2>2. CASE ~ FailSelect(x)
    <3>1. execs' \subseteq execs
      BY <1>3, <2>2 DEF Execute, Succeed, FailUpdate, Abort
    <3>. QED BY <3>1, <1>s
  <2>. QED BY <2>1, <2>2
<1>4. CASE Request \/ LeaseTimeout \/ UNCHANGED vars
  <2>1. UNCHANGED execs
    BY <1>4 DEF Request, EnqueueRequest, CancelSelect, CancelUpdate, CancelAll, LeaseTimeout, vars
  <2>. QED BY <2>1, <1>s
<1>. QED BY <1>1, <1>2, <1>3, <1>4 DEF Next

\* With a single worker process, no step takes the executions of a provider in
\* a lane over the limit in force after that step: the slots of an entry
\* outlive its execution, and a limit lowered meanwhile only delays the next.
THEOREM LimitsRespected == OneWorker => (Spec => NeverOverLimit)
<1>. SUFFICES ASSUME OneWorker PROVE Spec => NeverOverLimit
  OBVIOUS
<1>1. TypeOK /\ SameProject /\ Solo /\ Counted /\ [Next]_vars
        => [\A w \in Worker, p \in Provider, m \in Media :
              LET n == Cardinality(Generating(w, p, m)')
              IN n > Cardinality(Generating(w, p, m)) => n <= limit'[w][p][m]]_vars
  BY LimitStep
<1>. QED BY <1>1, InitCounted, CountedStep, SoloInvariant, PTL DEF Spec, NeverOverLimit

-------------------------------------------------------------------------------
(* With a single worker process every step of the queue, the worker or an    *)
(* execution maps to one step of TaskLifecycle, or changes nothing that the  *)
(* abstract life cycle can see.                                              *)

Executing == {x.task : x \in execs}

\* The life cycle sees neither lease nor loop.
Invisible == UNCHANGED << status, dep >> /\ Executing' = Executing

Simulated == Lifecycle!Next \/ Invisible

LEMMA ExecutingTyped == TypeOK => Executing \subseteq Task
BY DEF TypeOK, Exec, Executing

LEMMA StateSets ==
  /\ \A s : Lifecycle!InState(s) = InState(s)
  /\ \A S, s : Lifecycle!With(S, s) = With(S, s)
BY DEF Lifecycle!InState, InState, Lifecycle!With, With

\* Executions end, with nothing written.
LEMMA LoseStep ==
  ASSUME TypeOK, UNCHANGED << status, dep >>, Executing' \subseteq Executing
  PROVE  Simulated
<1>1. PICK S \in SUBSET Task : Executing' = Executing \ S
  <2>1. Executing' = Executing \ (Executing \ Executing')
    OBVIOUS
  <2>. QED BY <2>1, ExecutingTyped
<1>2. Lifecycle!Lose(S)
  BY <1>1 DEF Lifecycle!Lose, Executing
<1>. QED BY <1>2 DEF Simulated, Lifecycle!Next

\* The cascade takes exactly the rows that wait for the root or for a member.
LEMMA DependentsWait ==
  \A t : \A d \in Dependents(t) : dep[d] \in Dependents(t) \cup {t}
<1>. SUFFICES ASSUME NEW t, NEW d \in Dependents(t)
              PROVE  dep[d] \in Dependents(t) \cup {t}
  OBVIOUS
<1>. DEFINE S == {e \in Dependents(t) : dep[e] \in Dependents(t) \cup {t}}
<1>1. S \in SUBSET Queued
  BY DependentsQueued
<1>2. Closed(S, t)
  BY DependentsClosed DEF Closed
<1>3. d \in S
  BY <1>1, <1>2 DEF Dependents
<1>. QED BY <1>3

LEMMA FailStep ==
  ASSUME TypeOK, NEW t \in Running, FailRow(t), UNCHANGED dep,
         Executing' = Executing \ {t}
  PROVE  Simulated
<1>1. /\ status[t] = "running" /\ t \in Task
      /\ Dependents(t) \subseteq InState("queued")
  BY DependentsQueued DEF Running, Queued, InState
<1>s. PICK S \in SUBSET Task : S = Dependents(t)
  BY <1>1 DEF InState
<1>2. \A d \in Dependents(t) : dep[d] \in Dependents(t) \cup {t}
  BY DependentsWait
<1>3. Lifecycle!LeavesNobody(Dependents(t) \cup {t})
  BY DependentsClosed, StateSets DEF Lifecycle!LeavesNobody, Closed, Queued
<1>4. status' = Lifecycle!With(Dependents(t) \cup {t}, "failed")
  BY StateSets DEF FailRow, With
<1>5. Lifecycle!Fail(t, S)
  BY <1>1, <1>s, <1>2, <1>3, <1>4, StateSets DEF Lifecycle!Fail, Executing
<1>. QED BY <1>1, <1>5 DEF Simulated, Lifecycle!Next

LEMMA SucceedStep ==
  ASSUME NEW t \in Running, t \in Executing, SucceedRow(t), UNCHANGED dep,
         Executing' = Executing \ {t}
  PROVE  Simulated
<1>1. status[t] = "running" /\ t \in Task
  BY DEF Running, InState
<1>2. Lifecycle!Succeed(t)
  BY <1>1, StateSets DEF Lifecycle!Succeed, SucceedRow, Executing
<1>. QED BY <1>1, <1>2 DEF Simulated, Lifecycle!Next

LEMMA ClaimStep ==
  ASSUME NEW t \in Task, TakeRow(t), dep[t] # 0 => status[dep[t]] = "succeeded",
         UNCHANGED << dep, execs >>
  PROVE  Simulated
<1>1. Lifecycle!Claim(t)
  BY StateSets DEF Lifecycle!Claim, TakeRow, Queued, InState
<1>. QED BY <1>1 DEF Simulated, Lifecycle!Next

LEMMA ReturnStep ==
  ASSUME NEW S, RequeueRows(S), S \cap Executing = {}, UNCHANGED << dep, execs >>
  PROVE  Simulated
<1>1. S \cap Running \in SUBSET Task
  BY DEF Running, InState
<1>2. Lifecycle!Return(S \cap Running)
  BY StateSets DEF Lifecycle!Return, RequeueRows, Running, Executing
<1>. QED BY <1>1, <1>2 DEF Simulated, Lifecycle!Next

LEMMA CancelStep ==
  ASSUME NEW S \in SUBSET Queued, \A d \in Queued : dep[d] \in S => d \in S,
         status' = With(S, "cancelled"), UNCHANGED << dep, execs >>
  PROVE  Simulated
<1>1. S \in SUBSET Task /\ S \subseteq InState("queued")
  BY DEF Queued, InState
<1>2. Lifecycle!LeavesNobody(S)
  BY StateSets DEF Lifecycle!LeavesNobody, Queued
<1>3. Lifecycle!Cancel(S)
  BY <1>1, <1>2, StateSets DEF Lifecycle!Cancel
<1>. QED BY <1>1, <1>3 DEF Simulated, Lifecycle!Next

LEMMA SubmitStep ==
  ASSUME TypeOK, NEW k \in Key, NEW d \in 0 .. MaxTasks, Enqueue(k, d), UNCHANGED execs
  PROVE  Simulated
<1>1. PICK t \in Oldest(InState("absent")) :
        status' = With({t}, "queued") /\ dep' = [dep EXCEPT ![t] = d]
  BY DEF Enqueue
<1>2. t \in Task /\ status[t] = "absent"
  BY DEF Oldest, InState
<1>3. ASSUME d # 0 PROVE d \in Task \ InState("absent") /\ d < t
  <2>1. d \in Task \ InState("absent") /\ status[d] # "absent"
    BY <1>3 DEF Enqueue, InState
  <2>2. ~ (t < d) /\ t # d
    BY <1>2, <2>1 DEF TypeOK, TablesTypeOK
  <2>. QED BY <1>2, <2>1, <2>2, TableAssumption DEF Task
<1>4. d \in Task \cup {0}
  BY <1>3
<1>5. Lifecycle!Submit(t, d)
  BY <1>1, <1>2, <1>3, StateSets DEF Lifecycle!Submit
<1>. QED BY <1>2, <1>4, <1>5 DEF Simulated, Lifecycle!Next

\* An execution that ends is the only one of its task.
LEMMA ExecutionEnds ==
  ASSUME AtMostOneExecution, NEW x \in execs, execs' = execs \ {x}
  PROVE  Executing' = Executing \ {x.task}
BY DEF AtMostOneExecution, Executing

LEMMA LoopSimulated ==
  ASSUME TypeOK, Solo, NEW w \in Worker, Loop(w)
  PROVE  Simulated
<1>v. UNCHANGED << status, dep, execs >> => Simulated
  BY DEF Simulated, Invisible, Executing
<1>l. ASSUME Vanish(w), UNCHANGED << status, dep >> PROVE Simulated
  <2>1. Executing' \subseteq Executing
    BY <1>l DEF Vanish, Executing
  <2>. QED BY <1>l, <2>1, LoseStep
<1>1. CASE Start(w) \/ RenewLease(w) \/ RecoverSelect(w) \/ ClaimSelect(w) \/ RefuseSelect(w)
  BY <1>1, <1>v DEF Start, RenewLease, RecoverSelect, ClaimSelect, RefuseSelect, tables
<1>2. CASE RecoverUpdate(w)
  <2>1. execs = {}
    BY <1>2 DEF RecoverUpdate, Solo
  <2>2. seen[w] \cap Executing = {}
    BY <2>1 DEF Executing
  <2>. QED BY <1>2, <2>2, ReturnStep DEF RecoverUpdate
<1>3. CASE ClaimUpdate(w)
  <2>1. PICK t \in seen[w] : TakeRow(t) \/ UNCHANGED status
    BY <1>3 DEF ClaimUpdate
  <2>2. t \in Task /\ (dep[t] # 0 => status[dep[t]] = "succeeded")
    BY <1>3 DEF ClaimUpdate, Solo, TypeOK
  <2>3. UNCHANGED << dep, execs >>
    BY <1>3 DEF ClaimUpdate
  <2>. QED BY <2>1, <2>2, <2>3, <1>v, ClaimStep
<1>4. CASE Route(w)
  <2>1. PICK t \in seen[w], p \in Provider :
          LET L == WithPool(limit[w], p)
          IN Refuse(w, L, p) \/ PoolFull(w, L, p) \/ Dispatch(w, L, p, t)
    BY <1>4 DEF Route
  <2>2. UNCHANGED << status, dep >>
    BY <1>4 DEF Route, tables
  <2>3. CASE UNCHANGED execs
    BY <2>2, <2>3, <1>v
  <2>4. CASE Dispatch(w, WithPool(limit[w], p), p, t)
    <3>1. Executing' = Executing \cup {t}
      <4>d. DEFINE X == [task |-> t, try |-> tries[t] + 1, provider |-> p,
                         worker |-> w, phase |-> "run"]
      <4>1. execs' = execs \cup {X}
        BY <2>4 DEF Dispatch
      <4>x. X.task = t
        OBVIOUS
      <4>h. HIDE DEF X
      <4>2. Executing' = Executing \cup {X.task}
        BY <4>1 DEF Executing
      <4>. QED BY <4>2, <4>x
    <3>2. t \in Running /\ t \notin Executing
      BY <1>4 DEF Route, Solo, Holding, Executing
    <3>3. t \in Task /\ status[t] = "running"
      BY <3>2 DEF Running, InState
    <3>4. Lifecycle!Begin(t)
      BY <2>2, <3>1, <3>2, <3>3 DEF Lifecycle!Begin, Executing
    <3>. QED BY <3>3, <3>4 DEF Simulated, Lifecycle!Next
  <2>5. CASE Refuse(w, WithPool(limit[w], p), p)
    BY <2>3, <2>5 DEF Refuse
  <2>6. CASE PoolFull(w, WithPool(limit[w], p), p)
    BY <2>3, <2>6 DEF PoolFull
  <2>. QED BY <2>1, <2>4, <2>5, <2>6
<1>5. CASE PutBack(w)
  <2>1. seen[w] \cap Executing = {}
    BY <1>5 DEF PutBack, Solo, Holding, Executing
  <2>. QED BY <1>5, <2>1, <1>v, ReturnStep DEF PutBack
<1>6. CASE RefuseUpdate(w)
  <2>1. PICK t \in seen[w] : FailRow(t)
    BY <1>6 DEF RefuseUpdate
  <2>2. t \in Running /\ t \notin Executing
    BY <1>6 DEF RefuseUpdate, Solo, Holding, Executing
  <2>3. UNCHANGED dep /\ Executing' = Executing \ {t}
    BY <1>6, <2>2 DEF RefuseUpdate, Executing
  <2>. QED BY <2>1, <2>2, <2>3, FailStep
<1>7. CASE FinishStop(w) \/ ExitDead(w)
  BY <1>7, <1>l DEF FinishStop, ExitDead, Vanish
<1>. QED BY <1>1, <1>2, <1>3, <1>4, <1>5, <1>6, <1>7 DEF Loop

LEMMA DisturbSimulated ==
  ASSUME TypeOK, NEW w \in Worker, Disturb(w)
  PROVE  Simulated
<1>1. CASE Crash(w)
  <2>1. UNCHANGED << status, dep >> /\ Executing' \subseteq Executing
    BY <1>1 DEF Crash, Vanish, Executing
  <2>. QED BY <2>1, LoseStep
<1>2. CASE Stop(w) \/ LoopDies(w) \/ ReloadLimits(w)
  <2>1. UNCHANGED << status, dep, execs >>
    BY <1>2 DEF Stop, LoopDies, ReloadLimits, tables
  <2>. QED BY <2>1 DEF Simulated, Invisible, Executing
<1>. QED BY <1>1, <1>2 DEF Disturb

LEMMA ExecutionSimulated ==
  ASSUME TypeOK, Solo, NEW x \in execs, Execute(x) \/ Abort(x)
  PROVE  Simulated
<1>1. /\ AtMostOneExecution
      /\ x.task \in Running /\ x.task \in Executing
  BY DEF Solo, ExecutionOwnsTask, Executing
<1>2. CASE Succeed(x)
  BY <1>1, <1>2, ExecutionEnds, SucceedStep DEF Succeed
<1>3. CASE FailSelect(x)
  <2>1. x.task \in Active
    BY <1>1 DEF Active, Running
  <2>2. [x EXCEPT !.phase = "failing"].task = x.task
    BY DEF TypeOK, Exec
  <2>3. Executing' = Executing
    BY <1>3, <2>1, <2>2 DEF FailSelect, Executing
  <2>. QED BY <1>3, <2>3 DEF FailSelect, Simulated, Invisible, tables
<1>4. CASE FailUpdate(x)
  BY <1>1, <1>4, ExecutionEnds, FailStep DEF FailUpdate
<1>5. CASE Abort(x)
  <2>1. UNCHANGED << status, dep >> /\ Executing' \subseteq Executing
    BY <1>5 DEF Abort, tables, Executing
  <2>. QED BY <2>1, LoseStep
<1>. QED BY <1>2, <1>3, <1>4, <1>5 DEF Execute

LEMMA RequestSimulated ==
  ASSUME TypeOK, SameProject, Request
  PROVE  Simulated
<1>1. CASE EnqueueRequest
  BY <1>1, SubmitStep DEF EnqueueRequest
<1>2. CASE CancelSelect
  BY <1>2 DEF CancelSelect, tables, Simulated, Invisible, Executing
<1>3. CASE CancelUpdate
  <2>1. PICK t \in cancelling : CancelRow(t)
    BY <1>3 DEF CancelUpdate
  <2>. DEFINE S == ({t} \cap Queued) \cup Dependents(t)
  <2>2. S \in SUBSET Queued
    BY DependentsQueued
  <2>3. \A d \in Queued : dep[d] \in S => d \in S
    BY DependentsClosed DEF Closed
  <2>4. status' = With(S, "cancelled") /\ UNCHANGED << dep, execs >>
    BY <1>3, <2>1 DEF CancelUpdate, CancelRow
  <2>. QED BY <2>2, <2>3, <2>4, CancelStep
<1>4. CASE CancelAll
  <2>1. PICK k \in Key : CancelProject(ProjectOf[k])
    BY <1>4 DEF CancelAll
  <2>. DEFINE S == {t \in Queued : ProjectOf[key[t]] = ProjectOf[k]}
  <2>2. \A d \in Queued : dep[d] \in S => d \in S
    BY DEF SameProject, Queued, InState, Task
  <2>3. status' = With(S, "cancelled") /\ UNCHANGED << dep, execs >>
    BY <1>4, <2>1 DEF CancelAll, CancelProject
  <2>. QED BY <2>2, <2>3, CancelStep
<1>. QED BY <1>1, <1>2, <1>3, <1>4 DEF Request

LEMMA StepSimulated ==
  ASSUME TypeOK, SameProject, Solo, [Next]_vars
  PROVE  [Lifecycle!Next]_(Lifecycle!vars)
<1>1. Simulated
  <2>1. CASE LeaseTimeout \/ UNCHANGED vars
    BY <2>1 DEF LeaseTimeout, LeaseExpires, vars, Simulated, Invisible, Executing
  <2>2. CASE Next
    BY <2>1, <2>2, LoopSimulated, DisturbSimulated, ExecutionSimulated, RequestSimulated
    DEF Next
  <2>. QED BY <2>1, <2>2
<1>. QED BY <1>1 DEF Simulated, Invisible, Executing, Lifecycle!vars

\* A single worker process implements the life cycle: whatever the lease, the
\* recovery, the claim loop, the pools and the requests do to a task, and
\* whenever the process crashes, somebody who sees only the statuses and what is
\* being executed sees tasks that are submitted, claimed, executed, returned to
\* the queue and settled as TaskLifecycle promises.
THEOREM WorkerImplementsLifecycle == OneWorker => (Spec => ImplementsLifecycle)
<1>. SUFFICES ASSUME OneWorker PROVE Spec => ImplementsLifecycle
  OBVIOUS
<1>1. Init => Lifecycle!Init
  BY DEF Init, TablesInit, Lifecycle!Init
<1>2. TypeOK /\ SameProject /\ Solo /\ [Next]_vars => [Lifecycle!Next]_(Lifecycle!vars)
  BY StepSimulated
<1>. QED BY <1>1, <1>2, SoloInvariant, PTL DEF Spec, ImplementsLifecycle, Lifecycle!Spec
================================================================================
