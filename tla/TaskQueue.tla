------------------------------- MODULE TaskQueue -------------------------------
(***************************************************************************)
(* The two database tables behind sceneweave's generation queue, `tasks`   *)
(* and `worker_lease` (lib/db/models/task.py), and the statements         *)
(* TaskRepository (lib/db/repositories/task_repo.py) runs on them.         *)
(*                                                                         *)
(* Each operator below is one database transaction, from the first locked  *)
(* UPDATE, INSERT or DELETE to the commit.  SQLite takes its write lock at *)
(* that statement, so nothing interleaves inside.  A SELECT that comes     *)
(* before it takes no lock: the modules that use these operators give it a *)
(* step of its own, and other transactions may commit in between.          *)
(*                                                                         *)
(* Left out: the columns no decision reads, and `task_events`, a log that  *)
(* the server only appends to.                                             *)
(***************************************************************************)
EXTENDS Integers, FiniteSets

CONSTANTS
  Key,        \* dedupe keys: (project, task type, resource, script file)
  MediaOf,    \* Key -> Media, the lane its task type belongs to
  ProjectOf,  \* Key -> project name
  MaxTasks,   \* how many rows the table may get (bounds the model)
  Worker,     \* GenerationWorker processes
  None,       \* no lease row; no dedupe key
  Departed    \* the owner_id of a process that is gone

Media == {"image", "video"}

ASSUME TableAssumption ==
  /\ MaxTasks \in Nat
  /\ MediaOf \in [Key -> Media]
  /\ None \notin Key \cup Worker
  /\ Departed \notin Worker \cup {None}

\* Rows are numbered in the order of queued_at; 0 is "no dependency".
Task == 1 .. MaxTasks

Status == {"absent", "queued", "running", "succeeded", "failed", "cancelled"}

VARIABLES
  status,  \* status[t], "absent" before the row exists
  key,     \* key[t], the dedupe key of the row
  dep,     \* dep[t], its dependency_task_id or 0
  lease    \* the worker_lease row: owner_id, and whether lease_until > now

tables == << status, key, dep, lease >>

InState(s) == {t \in Task : status[t] = s}
Queued   == InState("queued")
Running  == InState("running")
Active   == InState("queued") \cup InState("running")
Dead     == InState("failed") \cup InState("cancelled")
Terminal == InState("succeeded") \cup Dead

TablesInit ==
  /\ status = [t \in Task |-> "absent"]
  /\ key = [t \in Task |-> None]
  /\ dep = [t \in Task |-> 0]
  /\ lease = [owner |-> None, fresh |-> FALSE]

TablesTypeOK ==
  /\ status \in [Task -> Status]
  /\ key \in [Task -> Key \cup {None}]
  /\ \A t \in Task : key[t] = None <=> status[t] = "absent"
  /\ \A t, u \in Task : status[t] = "absent" /\ t < u => status[u] = "absent"
  /\ dep \in [Task -> 0 .. MaxTasks]
  /\ \A t \in Task : dep[t] < t /\ (status[t] = "absent" => dep[t] = 0)
  /\ lease \in [owner : Worker \cup {None, Departed}, fresh : BOOLEAN]
  /\ lease.owner = None => ~ lease.fresh

-------------------------------------------------------------------------------
\* The queued rows that depend on t, directly or through other queued rows:
\* the least set of them that is closed under "depends on t or on a member".
Closed(S, t) == \A d \in Queued : dep[d] \in S \cup {t} => d \in S

Dependents(t) == {d \in Queued : \A S \in SUBSET Queued : Closed(S, t) => d \in S}

With(S, s) == [t \in Task |-> IF t \in S THEN s ELSE status[t]]

\* Mutant: no cascade.
FailRow_Alone(t) == status' = With({t}, "failed")

\* _mark_failed_internal once the SELECT has found the row active, with the
\* cascade that follows in the same transaction: the UPDATE is by id alone.
FailRow(t) == status' = With({t} \cup Dependents(t), "failed")

\* mark_succeeded: by id alone, whatever the status is.
SucceedRow(t) == status' = With({t}, "succeeded")

\* Mutant: the UPDATE is by id alone.
TakeRow_ById(t) == status' = With({t}, "running")

\* The UPDATE of claim_next, guarded by status = 'queued'.
TakeRow(t) == /\ t \in Queued
              /\ status' = With({t}, "running")

\* Mutant: the UPDATE is by id alone.
RequeueRows_ById(S) == status' = With(S, "queued")

\* The UPDATEs of requeue_running and of _requeue_single_task, both guarded by
\* status = 'running'; S is what an earlier SELECT returned.
RequeueRows(S) == status' = With(S \cap Running, "queued")

\* Mutant: the UPDATE of the root is by id alone.
CancelRow_ById(t) == status' = With({t} \cup Dependents(t), "cancelled")

\* cancel_task after its SELECT: the UPDATE of the root is guarded by
\* status = 'queued', the cascade runs whether or not it changed the root.
CancelRow(t) == status' = With(({t} \cap Queued) \cup Dependents(t), "cancelled")

\* cancel_all_queued: one UPDATE over the project.
CancelProject(p) ==
  status' = With({t \in Queued : ProjectOf[key[t]] = p}, "cancelled")

\* Mutant: any settled dependency will do.
Claimable_Settled(m) == {t \in Queued : /\ MediaOf[key[t]] = m
                                        /\ dep[t] # 0 => dep[t] \in Terminal}

\* The row claim_next selects: the oldest queued row of the lane whose
\* dependency is NULL or has succeeded.
Claimable(m) == {t \in Queued : /\ MediaOf[key[t]] = m
                                /\ dep[t] # 0 => status[dep[t]] = "succeeded"}

\* Mutant: LIMIT 1 is missing.
Oldest_NoLimit(S) == S

Oldest(S) == {t \in S : \A u \in S : t <= u}

-------------------------------------------------------------------------------
\* enqueue of a row that the partial unique index idx_tasks_dedupe_active
\* accepts.  When it does not, the active row's id is returned and no row
\* changes.  The only caller that passes a dependency (the batch client) names
\* a row of the same project, in whatever status that row is by now.
Enqueue(k, d) ==
  /\ \A t \in Active : key[t] # k
  /\ d # 0 => d \in Task \ InState("absent") /\ ProjectOf[key[d]] = ProjectOf[k]
  /\ \E t \in Oldest(InState("absent")) :
       /\ status' = With({t}, "queued")
       /\ key' = [key EXCEPT ![t] = k]
       /\ dep' = [dep EXCEPT ![t] = d]
  /\ UNCHANGED lease

\* acquire_or_renew_lease succeeds on one's own row, on an expired one and on a
\* missing one.
MayHold(w) == lease.owner = w \/ ~ lease.fresh

AcquireLease(w) == lease' = [owner |-> w, fresh |-> TRUE]

\* release_lease deletes the row only if it is still the owner's.
ReleaseLease(w) ==
  lease' = IF lease.owner = w THEN [owner |-> None, fresh |-> FALSE] ELSE lease

\* Time passes lease_until.
LeaseExpires ==
  /\ lease.fresh
  /\ lease' = [lease EXCEPT !.fresh = FALSE]
  /\ UNCHANGED << status, key, dep >>

-------------------------------------------------------------------------------
\* Dedupe: at most one active row per key, through every requeue and retry.
UniqueActive == \A t, u \in Active : key[t] = key[u] => t = u
================================================================================
