--------------------------- MODULE GenerationWorker ---------------------------
(***************************************************************************)
(* GenerationWorker (lib/generation_worker.py) on top of the queue tables: *)
(* the worker processes, the executions they start, and the requests that  *)
(* enqueue and cancel tasks meanwhile.                                     *)
(*                                                                         *)
(* A worker is one asyncio loop.  pc[w] says where the loop will next      *)
(* resume; everything between two awaits is one step, and so is a database *)
(* transaction.  Executions (_process_task) are asyncio tasks of their own *)
(* and interleave with the loop and with each other.                       *)
(***************************************************************************)
EXTENDS TaskQueue

CONSTANTS
  Provider,    \* generation providers
  NoPool,      \* "no ProviderPool for this provider"
  BuiltIn,     \* pools a new worker starts with (_build_default_pools)
  Configs,     \* pool configurations an operator may save while it runs
  DefaultMax,  \* limit of the pool made for an unknown provider
  MaxTries,    \* bound: executions started per task
  MaxRestarts, \* bound: crashes and shutdowns
  MaxFaults    \* bound: exceptions that escape the loop or an execution

Pools == [Provider -> [Media -> Nat] \cup {NoPool}]

ASSUME WorkerAssumption ==
  /\ NoPool \notin [Media -> Nat]
  /\ BuiltIn \in Pools
  /\ Configs \subseteq Pools
  /\ DefaultMax \in Nat \ {0}
  /\ MaxTries \in Nat /\ MaxRestarts \in Nat /\ MaxFaults \in Nat

VARIABLES
  pc,         \* pc[w], where the loop of w resumes
  lane,       \* lane[w], the media_type of the claim loop
  seen,       \* seen[w], the ids the last SELECT or claim of w returned
  owns,       \* owns[w], _owns_lease
  limit,      \* limit[w], image_max and video_max of each pool
  inflight,   \* inflight[w], the entries of all pools' inflight dicts
  execs,      \* the executions that are still alive
  tries,      \* tries[t], executions of t started so far (tells them apart)
  cancelling, \* ids for which a cancel request has passed its status check
  restarts,
  faults

loopVars == << pc, lane, seen, owns, limit, inflight >>
envVars  == << cancelling, restarts, faults >>
vars     == << status, key, dep, lease, pc, lane, seen, owns, limit, inflight,
               execs, tries, cancelling, restarts, faults >>

Label == {"off", "renew", "recover", "requeue", "select", "take", "route",
          "refuse", "refuseWrite", "putback", "draining", "dead"}

\* The labels at which the loop holds one id that it selected or claimed.
Holding == {"take", "route", "refuse", "refuseWrite", "putback"}

Entry == [task : Task, try : 1 .. MaxTries, provider : Provider]
Exec  == [task : Task, try : 1 .. MaxTries, provider : Provider,
          worker : Worker, phase : {"run", "failing"}]

Init ==
  /\ TablesInit
  /\ pc = [w \in Worker |-> "off"]
  /\ lane = [w \in Worker |-> "image"]
  /\ seen = [w \in Worker |-> {}]
  /\ owns = [w \in Worker |-> FALSE]
  /\ limit = [w \in Worker |-> BuiltIn]
  /\ inflight = [w \in Worker |-> {}]
  /\ execs = {}
  /\ tries = [t \in Task |-> 0]
  /\ cancelling = {}
  /\ restarts = 0
  /\ faults = 0

-------------------------------------------------------------------------------
\* Pools.  An inflight entry keeps its slot until the loop drains it, even if
\* its execution is over.
Live(w, e) == \E x \in execs : x.task = e.task /\ x.try = e.try /\ x.worker = w

\* Mutant: finished entries are never drained.
LiveEntries_All(w) == inflight[w]

LiveEntries(w) == {e \in inflight[w] : Live(w, e)}

Slots(I, p, m) == {e \in I : e.provider = p /\ MediaOf[key[e.task]] = m}

\* Mutant: off by one.
HasRoom_OneMore(L, I, p, m) == /\ L[p] # NoPool
                               /\ Cardinality(Slots(I, p, m)) <= L[p][m]

HasRoom(L, I, p, m) == /\ L[p] # NoPool
                       /\ Cardinality(Slots(I, p, m)) < L[p][m]

AnyPoolHasRoom(L, I, m) == \E p \in Provider : HasRoom(L, I, p, m)

\* _get_or_create_pool
WithPool(L, p) ==
  [L EXCEPT ![p] = IF @ = NoPool THEN [m \in Media |-> DefaultMax] ELSE @]

-------------------------------------------------------------------------------
\* Control flow of _run_loop and _claim_tasks.
Goto(w, l, m) == /\ pc' = [pc EXCEPT ![w] = l]
                 /\ lane' = [lane EXCEPT ![w] = m]

\* The claim loop of one media type ends: video comes after image.
EndLane(w, L, I) ==
  IF lane[w] = "image" /\ AnyPoolHasRoom(L, I, "video")
  THEN Goto(w, "select", "video")
  ELSE Goto(w, "renew", "image")

EnterLanes(w, L, I) ==
  IF AnyPoolHasRoom(L, I, "image")
  THEN Goto(w, "select", "image")
  ELSE EndLane(w, L, I)

Start(w) ==
  /\ pc[w] = "off"
  /\ Goto(w, "renew", "image")
  /\ limit' = [limit EXCEPT ![w] = BuiltIn]
  /\ UNCHANGED << tables, seen, owns, inflight, execs, tries, envVars >>

\* Mutants: recovery at every renewal; the two conditions joined by mistake.
NeedsRecovery_EachRenewal(w, left) == TRUE
NeedsRecovery_WhenBusy(w, left) == ~ owns[w] /\ left # {}

\* Only a newly acquired lease, and nothing of one's own in flight.
NeedsRecovery(w, left) == ~ owns[w] /\ left = {}

\* The top of the loop: acquire_or_renew_worker_lease, then
\* _drain_finished_tasks, then the choice between recovery, claiming, waiting.
RenewLease(w) ==
  LET left == LiveEntries(w)
  IN
  /\ pc[w] = "renew"
  /\ inflight' = [inflight EXCEPT ![w] = left]
  /\ owns' = [owns EXCEPT ![w] = MayHold(w)]
  /\ IF MayHold(w) THEN AcquireLease(w) ELSE UNCHANGED lease
  /\ \/ /\ ~ MayHold(w)
        /\ Goto(w, "renew", "image")
     \/ /\ MayHold(w) /\ NeedsRecovery(w, left)
        /\ Goto(w, "recover", "image")
     \/ /\ MayHold(w) /\ ~ NeedsRecovery(w, left)
        /\ EnterLanes(w, limit[w], left)
  /\ UNCHANGED << status, key, dep, seen, limit, execs, tries, envVars >>

\* requeue_running_tasks: SELECT the running ids (its limit of 1000 is not
\* reached here), then the guarded UPDATE.
RecoverSelect(w) ==
  /\ pc[w] = "recover"
  /\ seen' = [seen EXCEPT ![w] = Running]
  /\ Goto(w, "requeue", "image")
  /\ UNCHANGED << tables, owns, limit, inflight, execs, tries, envVars >>

RecoverUpdate(w) ==
  /\ pc[w] = "requeue"
  /\ RequeueRows(seen[w])
  /\ seen' = [seen EXCEPT ![w] = {}]
  /\ EnterLanes(w, limit[w], inflight[w])
  /\ UNCHANGED << key, dep, lease, owns, limit, inflight, execs, tries, envVars >>

\* claim_next_task: SELECT the oldest claimable row of the lane.
ClaimSelect(w) ==
  LET found == Oldest(Claimable(lane[w]))
  IN
  /\ pc[w] = "select"
  /\ seen' = [seen EXCEPT ![w] = found]
  /\ IF found = {} THEN EndLane(w, limit[w], inflight[w])
                   ELSE Goto(w, "take", lane[w])
  /\ UNCHANGED << tables, owns, limit, inflight, execs, tries, envVars >>

\* claim_next_task: the guarded UPDATE; rowcount 0 returns None, as if the
\* lane had no task.
ClaimUpdate(w) ==
  /\ pc[w] = "take"
  /\ \E t \in seen[w] :
       \/ /\ TakeRow(t)
          /\ Goto(w, "route", lane[w])
          /\ UNCHANGED seen
       \/ /\ t \notin Queued
          /\ EndLane(w, limit[w], inflight[w])
          /\ seen' = [seen EXCEPT ![w] = {}]
          /\ UNCHANGED status
  /\ UNCHANGED << key, dep, lease, owns, limit, inflight, execs, tries, envVars >>

\* The rest of the claim loop's body, up to its next await.  The provider is
\* resolved from project and global settings, so any one may come out.
Refuse(w, L, p) ==
  /\ L[p][lane[w]] = 0
  /\ Goto(w, "refuse", lane[w])
  /\ UNCHANGED << seen, inflight, execs, tries >>

PoolFull(w, L, p) ==
  /\ L[p][lane[w]] > 0
  /\ ~ HasRoom(L, inflight[w], p, lane[w])
  /\ Goto(w, "putback", lane[w])
  /\ UNCHANGED << seen, inflight, execs, tries >>

Dispatch(w, L, p, t) ==
  LET n == tries[t] + 1
      entry == [task |-> t, try |-> n, provider |-> p]
      I == {e \in inflight[w] : ~ (e.task = t /\ e.provider = p)} \cup {entry}
  IN
  /\ HasRoom(L, inflight[w], p, lane[w])
  /\ n <= MaxTries
  /\ tries' = [tries EXCEPT ![t] = n]
  /\ inflight' = [inflight EXCEPT ![w] = I]
  /\ execs' = execs \cup {[task |-> t, try |-> n, provider |-> p,
                           worker |-> w, phase |-> "run"]}
  /\ seen' = [seen EXCEPT ![w] = {}]
  /\ IF AnyPoolHasRoom(L, I, lane[w]) THEN Goto(w, "select", lane[w])
                                      ELSE EndLane(w, L, I)

Route(w) ==
  /\ pc[w] = "route"
  /\ \E t \in seen[w], p \in Provider :
       LET L == WithPool(limit[w], p)
       IN /\ limit' = [limit EXCEPT ![w] = L]
          /\ \/ Refuse(w, L, p)
             \/ PoolFull(w, L, p)
             \/ Dispatch(w, L, p, t)
  /\ UNCHANGED << tables, owns, envVars >>

\* mark_task_failed of a task its provider cannot do: the SELECT, and the
\* UPDATE with its cascade; the claim loop then goes round again.
RefuseSelect(w) ==
  /\ pc[w] = "refuse"
  /\ \E t \in seen[w] :
       IF t \in Active
       THEN Goto(w, "refuseWrite", lane[w]) /\ UNCHANGED seen
       ELSE Goto(w, "select", lane[w]) /\ seen' = [seen EXCEPT ![w] = {}]
  /\ UNCHANGED << tables, owns, limit, inflight, execs, tries, envVars >>

RefuseUpdate(w) ==
  /\ pc[w] = "refuseWrite"
  /\ \E t \in seen[w] : FailRow(t)
  /\ seen' = [seen EXCEPT ![w] = {}]
  /\ Goto(w, "select", lane[w])
  /\ UNCHANGED << key, dep, lease, owns, limit, inflight, execs, tries, envVars >>

\* _requeue_single_task.  It logs and swallows whatever the database raises.
PutBack(w) ==
  /\ pc[w] = "putback"
  /\ \/ RequeueRows(seen[w]) /\ UNCHANGED faults
     \/ UNCHANGED status /\ faults < MaxFaults /\ faults' = faults + 1
  /\ seen' = [seen EXCEPT ![w] = {}]
  /\ EndLane(w, limit[w], inflight[w])
  /\ UNCHANGED << key, dep, lease, owns, limit, inflight, execs, tries,
                  cancelling, restarts >>
-------------------------------------------------------------------------------
\* Executions.  A generation succeeds, or raises and is marked failed.
Succeed(x) ==
  /\ x.phase = "run"
  /\ SucceedRow(x.task)
  /\ execs' = execs \ {x}
  /\ UNCHANGED << key, dep, lease, loopVars, tries, envVars >>

FailSelect(x) ==
  /\ x.phase = "run"
  /\ execs' = (execs \ {x}) \cup
              (IF x.task \in Active THEN {[x EXCEPT !.phase = "failing"]} ELSE {})
  /\ UNCHANGED << tables, loopVars, tries, envVars >>

FailUpdate(x) ==
  /\ x.phase = "failing"
  /\ FailRow(x.task)
  /\ execs' = execs \ {x}
  /\ UNCHANGED << key, dep, lease, loopVars, tries, envVars >>

\* An exception outside _process_task's try block, or raised by
\* mark_task_failed itself: the asyncio task ends and nothing is written.
Abort(x) ==
  /\ faults < MaxFaults
  /\ faults' = faults + 1
  /\ execs' = execs \ {x}
  /\ UNCHANGED << tables, loopVars, tries, cancelling, restarts >>

-------------------------------------------------------------------------------
\* The process ends: its executions and its memory go, the tables stay.
Vanish(w) ==
  /\ Goto(w, "off", "image")
  /\ seen' = [seen EXCEPT ![w] = {}]
  /\ owns' = [owns EXCEPT ![w] = FALSE]
  /\ limit' = [limit EXCEPT ![w] = BuiltIn]
  /\ inflight' = [inflight EXCEPT ![w] = {}]
  /\ execs' = {x \in execs : x.worker # w}
  /\ UNCHANGED << status, key, dep, tries, cancelling, faults >>

Crash(w) ==
  /\ pc[w] \notin {"off", "dead"}
  /\ restarts < MaxRestarts
  /\ restarts' = restarts + 1
  /\ lease' = IF lease.owner = w THEN [lease EXCEPT !.owner = Departed] ELSE lease
  /\ Vanish(w)

\* stop() sets an event that the loop reads when it comes round;
\* _wait_inflight_completion follows, without renewing the lease.
Stop(w) ==
  /\ pc[w] = "renew"
  /\ restarts < MaxRestarts
  /\ restarts' = restarts + 1
  /\ Goto(w, "draining", "image")
  /\ UNCHANGED << tables, seen, owns, limit, inflight, execs, tries,
                  cancelling, faults >>

FinishStop(w) ==
  /\ pc[w] = "draining"
  /\ LiveEntries(w) = {}
  /\ IF owns[w] THEN ReleaseLease(w) ELSE UNCHANGED lease
  /\ UNCHANGED restarts
  /\ Vanish(w)

\* An exception escapes _run_loop (_extract_provider of a deleted project, a
\* database error): the finally clause gives the lease back, nobody restarts
\* the loop, and the executions it had started go on.
LoopDies(w) ==
  /\ pc[w] \notin {"off", "draining", "dead"}
  /\ faults < MaxFaults
  /\ faults' = faults + 1
  /\ Goto(w, "dead", "image")
  /\ seen' = [seen EXCEPT ![w] = {}]
  /\ owns' = [owns EXCEPT ![w] = FALSE]
  /\ IF owns[w] THEN ReleaseLease(w) ELSE UNCHANGED lease
  /\ UNCHANGED << status, key, dep, limit, inflight, execs, tries,
                  cancelling, restarts >>

\* Somebody restarts the server whose worker loop is dead.
ExitDead(w) ==
  /\ pc[w] = "dead"
  /\ UNCHANGED << lease, restarts >>
  /\ Vanish(w)

\* reload_limits: a pool of the new configuration takes over the entries of
\* the old one; a pool that is gone stays, at limit 0, while it has entries.
Kept(w, c) == {p \in Provider : \/ c[p] # NoPool
                                \/ \E e \in inflight[w] : e.provider = p}

ReloadLimits(w) ==
  /\ pc[w] # "off"
  /\ \E c \in Configs :
       /\ limit' = [limit EXCEPT ![w] =
            [p \in Provider |->
               IF c[p] = NoPool /\ p \in Kept(w, c) THEN [m \in Media |-> 0] ELSE c[p]]]
       /\ inflight' = [inflight EXCEPT ![w] = {e \in @ : e.provider \in Kept(w, c)}]
  /\ UNCHANGED << tables, pc, lane, seen, owns, execs, tries, envVars >>

-------------------------------------------------------------------------------
\* Requests.  cancel_task reads the status, answers an error unless it is
\* queued, and only then writes.
EnqueueRequest ==
  /\ \E k \in Key, d \in 0 .. MaxTasks : Enqueue(k, d)
  /\ UNCHANGED << loopVars, execs, tries, envVars >>

CancelSelect ==
  /\ \E t \in Queued : cancelling' = cancelling \cup {t}
  /\ UNCHANGED << tables, loopVars, execs, tries, restarts, faults >>

CancelUpdate ==
  /\ \E t \in cancelling : CancelRow(t) /\ cancelling' = cancelling \ {t}
  /\ UNCHANGED << key, dep, lease, loopVars, execs, tries, restarts, faults >>

CancelAll ==
  /\ \E k \in Key : CancelProject(ProjectOf[k])
  /\ UNCHANGED << key, dep, lease, loopVars, execs, tries, envVars >>

LeaseTimeout ==
  /\ LeaseExpires
  /\ UNCHANGED << loopVars, execs, tries, envVars >>

-------------------------------------------------------------------------------
\* What the loop of w does on its own account.
Loop(w) ==
  \/ Start(w) \/ RenewLease(w) \/ RecoverSelect(w) \/ RecoverUpdate(w)
  \/ ClaimSelect(w) \/ ClaimUpdate(w) \/ Route(w) \/ PutBack(w)
  \/ RefuseSelect(w) \/ RefuseUpdate(w) \/ FinishStop(w) \/ ExitDead(w)

Execute(x) == Succeed(x) \/ FailSelect(x) \/ FailUpdate(x)

Disturb(w) == Crash(w) \/ Stop(w) \/ LoopDies(w) \/ ReloadLimits(w)

Request == EnqueueRequest \/ CancelSelect \/ CancelUpdate \/ CancelAll

Next ==
  \/ \E w \in Worker : Loop(w) \/ Disturb(w)
  \/ \E x \in execs : Execute(x) \/ Abort(x)
  \/ Request
  \/ LeaseTimeout

Spec == Init /\ [][Next]_vars

\* The event loop keeps running and every provider call returns or raises, so
\* a worker's loop and each execution go on; a server that ended is started
\* again; time passes.  Nothing obliges anybody to make a request, to stop a
\* server or to save settings.
Fairness ==
  /\ \A w \in Worker : WF_vars(Loop(w))
  /\ \A t \in Task : WF_vars(\E x \in execs : x.task = t /\ Execute(x))
  /\ WF_vars(lease.owner = Departed /\ LeaseTimeout)

FairSpec == Spec /\ Fairness

-------------------------------------------------------------------------------
\* The shape of the state, and what the loop holds at each label: one id from
\* claim_next's LIMIT 1 until it is dispatched, refused or put back.
TypeOK ==
  /\ TablesTypeOK
  /\ pc \in [Worker -> Label]
  /\ lane \in [Worker -> Media]
  /\ seen \in [Worker -> SUBSET Task]
  /\ \A w \in Worker :
       /\ pc[w] \in Holding => \E t \in Task : seen[w] = {t}
       /\ pc[w] \notin Holding \cup {"requeue"} => seen[w] = {}
       /\ \A t \in seen[w] : status[t] # "absent"
  /\ owns \in [Worker -> BOOLEAN]
  /\ limit \in [Worker -> Pools]
  /\ inflight \in [Worker -> SUBSET Entry]
  /\ execs \subseteq Exec
  /\ \A x \in execs : status[x.task] # "absent"
  /\ tries \in [Task -> 0 .. MaxTries]
  /\ cancelling \subseteq Task \ InState("absent")
  /\ restarts \in 0 .. MaxRestarts
  /\ faults \in 0 .. MaxFaults

\* A row that has a result, an error or a cancellation never goes back to the
\* queue, however stale the id lists are that recovery and put-back work from,
\* and however many workers do so at once.
TerminalNeverReopens == [][\A t \in Terminal : t \in Terminal']_vars

\* When a task fails or is cancelled, every queued task that was waiting for
\* it, directly or not, is settled by the same transaction: a dead dependency
\* leaves nobody behind in the queue.
SettlesDependents ==
  [][\A t \in Task : t \notin Dead /\ t \in Dead' => Dependents(t)' = {}]_vars

\* The worker's docstring calls the lease "single-active": no two worker
\* processes execute tasks at the same time.
SingleActiveLease == \A x, y \in execs : x.worker = y.worker

\* With a single worker process, a task is generated at most once at a time,
\* through crashes, restarts, recoveries and put-backs ...
AtMostOneExecution == \A x, y \in execs : x.task = y.task => x = y

\* ... its row says "running" for as long as that takes, so nothing else
\* claims, cancels or settles it ...
ExecutionOwnsTask == \A x \in execs : x.task \in Running

\* ... and the outcome that was recorded for it is final.
ResultsStick == [][\A t \in Terminal : status'[t] = status[t]]_vars

\* With a single worker process, a task runs only after the task it depends on
\* has succeeded, and that stays so: no retry undoes the dependency.
DependencyFirst ==
  \A t \in InState("running") \cup InState("succeeded") :
    dep[t] # 0 => status[dep[t]] = "succeeded"

\* With a single worker process, every execution that is alive occupies the
\* slot it was given, through drains and reloads of the configuration.
SlotsCoverExecs ==
  \A x \in execs : \E e \in inflight[x.worker] :
    e.task = x.task /\ e.try = x.try /\ e.provider = x.provider

Generating(w, p, m) ==
  {x \in execs : x.worker = w /\ x.provider = p /\ MediaOf[key[x.task]] = m}

\* With a single worker process, a new execution never takes its provider over
\* the limit of its lane, even just after that limit was lowered.
NeverOverLimit ==
  [][\A w \in Worker, p \in Provider, m \in Media :
       LET n == Cardinality(Generating(w, p, m)')
       IN n > Cardinality(Generating(w, p, m)) => n <= limit'[w][p][m]]_vars

\* A running row is being executed, is in the hands of the claim loop, or will be
\* put back by the recovery the worker has yet to make: a worker that is stopped
\* before it recovered leaves that to the next one.
Remembered(t) ==
  \/ \E x \in execs : x.task = t
  \/ \E w \in Worker : pc[w] \in Holding /\ t \in seen[w]
  \/ \A w \in Worker : pc[w] \in {"off", "renew", "draining"} /\ ~ owns[w]
  \/ \E w \in Worker : pc[w] = "recover" \/ (pc[w] = "requeue" /\ t \in seen[w])

\* With a single worker process, no row that says "running" is forgotten, until
\* an exception escapes.
NobodyForgotten == faults = 0 => \A t \in Running : Remembered(t)

\* Why the five properties above hold of a single worker, as an inductive
\* invariant: what the claim loop holds after its claim is running and not yet
\* executed, and nothing is executed while recovery runs.
Solo ==
  /\ AtMostOneExecution /\ ExecutionOwnsTask /\ SlotsCoverExecs /\ DependencyFirst
  /\ \A w \in Worker :
       /\ pc[w] \in Holding \ {"take"} =>
            seen[w] \subseteq Running /\ \A x \in execs : x.task \notin seen[w]
       /\ pc[w] \in {"recover", "requeue"} => execs = {}
       /\ pc[w] = "take" =>
            \A t \in seen[w] : dep[t] # 0 => status[dep[t]] = "succeeded"

\* A queued row that waits, directly or not, for a dependency that is dead.
Stranded == UNION {Dependents(t) : t \in Dead}

\* With a single worker process, every active task that was not enqueued behind a
\* dead dependency is eventually settled, unless an exception escapes: full pools,
\* crashes and restarts delay it but do not lose it.
EveryTaskSettles ==
  \A t \in Task : t \in Active \ Stranded ~> (t \in Terminal \/ faults > 0)

-------------------------------------------------------------------------------
\* A single worker process implements the life cycle of TaskLifecycle: lease
\* renewals, recoveries, polling, put-backs and reloads are invisible there or
\* amount to one of its steps.
Lifecycle == INSTANCE TaskLifecycle WITH executing <- {x.task : x \in execs}

ImplementsLifecycle == Lifecycle!Spec
================================================================================
