------------------------------- MODULE BatchClient -------------------------------
(***************************************************************************)
(* The client that enqueues a batch of storyboards and waits for them      *)
(* (lib/generation_queue_client.py), with the plan of their dependencies   *)
(* (lib/storyboard_sequence.py), on the tables of TaskQueue.               *)
(*                                                                         *)
(* A script is a sequence of items, some of which begin a new segment; the *)
(* keys of the table are their positions.  A batch is a selection of them. *)
(* Several batches may overlap: the second may be the retry of the first.  *)
(* The scripts that run batches are not part of the repository: their use  *)
(* of the plan is external.  The worker is reduced to its transactions;    *)
(* GenerationWorker has all of it.                                         *)
(***************************************************************************)
EXTENDS TaskQueue

CONSTANTS
  Batch,
  Selections,   \* Selections[b], the sets of items that the batch may be about
  Breaks,       \* the sets of items that may begin a new segment
  MaxRestarts   \* recoveries of running rows (bounds the model)

\* Items are numbered in the order of the script; a batch is about one at least.
ASSUME BatchAssumption ==
  /\ IsFiniteSet(Key) /\ Key = 1 .. Cardinality(Key)
  /\ Breaks \subseteq SUBSET Key
  /\ \A b \in Batch : Selections[b] \subseteq (SUBSET Key) \ {{}}
  /\ None \notin Batch

VARIABLES
  breaks,    \* the items with segment_break
  batch,     \* for each batch: its selection, where it is, the next item, task_ids
  waiting,   \* for each batch and item: where wait_for_task is, and offline_since
  struck,    \* rows that failed or were cancelled by themselves, not in a cascade
  created,   \* created[t], the batch that inserted the row
  restarts

batching == << status, key, dep, lease, breaks, batch, waiting, struck, created, restarts >>

-----------------------------------------------------------------------------
(* The plan *)

\* Mutant: the segments are run together.
Dependency_Unbroken(chosen, i) == IF i - 1 \in chosen THEN i - 1 ELSE 0

\* dependency_resource_id: the item just before, if it is selected too and the segment goes on.
Dependency(chosen, i) == IF i \notin breaks /\ i - 1 \in chosen THEN i - 1 ELSE 0

\* The first of the selected items from i on; there is none when the batch is enqueued.
Following(chosen, i) ==
  LET rest == {j \in chosen : j >= i}
  IN IF rest = {} THEN 0 ELSE CHOOSE j \in rest : \A k \in rest : j <= k

-----------------------------------------------------------------------------
(* Enqueueing *)

Idle == [at |-> "none", offline |-> FALSE]
Watch(at, offline) == [at |-> at, offline |-> offline]

BatchInit ==
  /\ TablesInit
  /\ breaks \in Breaks
  /\ batch \in [Batch -> [chosen : UNION {Selections[b] : b \in Batch},
                         pc : {"away"}, next : {0}, ids : {[i \in Key |-> 0]}]]
  /\ \A b \in Batch : batch[b].chosen \in Selections[b]
  /\ waiting = [b \in Batch |-> [i \in Key |-> Idle]]
  /\ struck = {} /\ restarts = 0
  /\ created = [t \in Task |-> None]

InBatch(b, pc) == batch[b].pc = pc
BatchGoes(b, pc) == batch' = [batch EXCEPT ![b].pc = pc]
Quiet == UNCHANGED << breaks, struck, restarts >>
Rows == UNCHANGED << status, key, dep, created >>

\* build_storyboard_dependency_plan, and the first spec.
BeginBatch(b) ==
  /\ InBatch(b, "away")
  /\ batch' = [batch EXCEPT ![b].pc = "asking", ![b].next = Following(batch[b].chosen, 1)]
  /\ Rows /\ Quiet /\ UNCHANGED << lease, waiting >>

\* enqueue_task_only: the error leaves the batch, and the rows that are there already.
AskOnline(b) ==
  /\ InBatch(b, "asking")
  /\ BatchGoes(b, IF lease.fresh THEN "adding" ELSE "aborted")
  /\ Rows /\ Quiet /\ UNCHANGED << lease, waiting >>

\* The id of the row goes into task_ids; after the last, all are waited for at once.
Noted(b, t) ==
  LET B == batch[b]
      next == Following(B.chosen, B.next + 1)
      ids == [B.ids EXCEPT ![B.next] = t]
  IN /\ batch' = [batch EXCEPT ![b].ids = ids, ![b].next = next,
                               ![b].pc = IF next = 0 THEN "waiting" ELSE "asking"]
     /\ waiting' = IF next # 0 THEN waiting
                   ELSE [waiting EXCEPT ![b] = [i \in Key |-> IF i \in B.chosen THEN Watch("row", FALSE) ELSE Idle]]

DependencyRow(b) ==
  LET d == Dependency(batch[b].chosen, batch[b].next)
  IN IF d = 0 THEN 0 ELSE batch[b].ids[d]

Inserted(b) ==
  /\ InBatch(b, "adding")
  /\ Enqueue(batch[b].next, DependencyRow(b))
  /\ \E t \in InState("absent") :
       /\ status'[t] = "queued"
       /\ created' = [created EXCEPT ![t] = b]
       /\ Noted(b, t)
  /\ Quiet

\* The index refuses the row; the one in its way is looked for after the rollback.
Refused(b) ==
  /\ InBatch(b, "adding") /\ \E t \in Active : key[t] = batch[b].next
  /\ BatchGoes(b, "looking")
  /\ Rows /\ Quiet /\ UNCHANGED << lease, waiting >>

\* deduped: the dependency of this spec goes nowhere.
Deduped(b) ==
  /\ InBatch(b, "looking")
  /\ \E t \in Active : key[t] = batch[b].next /\ Noted(b, t)
  /\ Rows /\ Quiet /\ UNCHANGED lease

\* The row has been settled meanwhile: the IntegrityError leaves the batch.
DedupeFails(b) ==
  /\ InBatch(b, "looking") /\ \A t \in Active : key[t] # batch[b].next
  /\ BatchGoes(b, "aborted")
  /\ Rows /\ Quiet /\ UNCHANGED << lease, waiting >>

-----------------------------------------------------------------------------
(* Waiting *)

Row(b, i) == batch[b].ids[i]
Told == {"succeeded", "failed", "cancelled"}

Sees(b, i, w) ==
  /\ waiting' = [waiting EXCEPT ![b][i] = w]
  /\ Rows /\ Quiet /\ UNCHANGED << lease, batch >>

\* get_task: a row that is settled is the result.
Poll(b, i) ==
  /\ waiting[b][i].at = "row"
  /\ Sees(b, i, IF status[Row(b, i)] \in Told THEN Watch(status[Row(b, i)], FALSE)
                ELSE [waiting[b][i] EXCEPT !.at = "lease"])

\* The time is up.
PollTimesOut(b, i) == waiting[b][i].at = "lease" /\ Sees(b, i, Watch("gave up", FALSE))

\* is_worker_online; the grace may have passed or not when a worker is still away.
PollOnline(b, i) ==
  /\ waiting[b][i].at = "lease"
  /\ \/ Sees(b, i, Watch("row", ~lease.fresh))
     \/ ~lease.fresh /\ waiting[b][i].offline /\ Sees(b, i, Watch("gave up", FALSE))

\* asyncio.gather has all the results.
FinishBatch(b) ==
  /\ InBatch(b, "waiting")
  /\ \A i \in batch[b].chosen : waiting[b][i].at \in Told \union {"gave up"}
  /\ BatchGoes(b, "done")
  /\ Rows /\ Quiet /\ UNCHANGED << lease, waiting >>

-----------------------------------------------------------------------------
(* The worker and the user *)

Ours == UNCHANGED << key, dep, created, breaks, batch, waiting >>

WorkerClaims ==
  /\ lease.fresh /\ \E t \in Oldest(Claimable("image")) : TakeRow(t)
  /\ Ours /\ UNCHANGED << lease, struck, restarts >>

WorkerSucceeds(t) == t \in Running /\ SucceedRow(t) /\ Ours /\ UNCHANGED << lease, struck, restarts >>

WorkerFails(t) ==
  /\ t \in Running /\ FailRow(t)
  /\ struck' = struck \union {t} /\ Ours /\ UNCHANGED << lease, restarts >>

UserCancels(t) ==
  /\ t \in Queued /\ CancelRow(t)
  /\ struck' = struck \union {t} /\ Ours /\ UNCHANGED << lease, restarts >>

\* The worker comes, or comes back and recovers its rows.
WorkerArrives ==
  /\ ~lease.fresh /\ restarts < MaxRestarts
  /\ restarts' = restarts + 1
  /\ \E w \in Worker : AcquireLease(w)
  /\ RequeueRows(Running)
  /\ Ours /\ UNCHANGED struck

WorkerVanishes == LeaseExpires /\ Ours /\ UNCHANGED << struck, restarts >>

BatchNext ==
  \/ \E b \in Batch :
       \/ BeginBatch(b) \/ AskOnline(b) \/ Inserted(b) \/ Refused(b) \/ Deduped(b) \/ DedupeFails(b)
       \/ FinishBatch(b)
       \/ \E i \in Key : Poll(b, i) \/ PollTimesOut(b, i) \/ PollOnline(b, i)
  \/ \E t \in Task : WorkerSucceeds(t) \/ WorkerFails(t) \/ UserCancels(t)
  \/ WorkerClaims \/ WorkerArrives \/ WorkerVanishes

BatchSpec == BatchInit /\ [][BatchNext]_batching

-----------------------------------------------------------------------------
(* Properties *)

\* What a batch says of an item is what became of its row, and a row that is still to be
\* generated when a batch is done is one that the batch gave up on.
ToldTrue ==
  \A b \in Batch, i \in Key :
    /\ waiting[b][i].at \in Told => status[Row(b, i)] = waiting[b][i].at
    /\ InBatch(b, "done") /\ i \in batch[b].chosen /\ Row(b, i) \in Active => waiting[b][i].at = "gave up"

\* A picture that a batch had generated came after the one before it of its segment, for
\* which the same batch had waited.
AfterPrevious ==
  \A b \in Batch, i \in Key :
    LET t == Row(b, i)
        d == Dependency(batch[b].chosen, i)
    IN t # 0 /\ d # 0 /\ created[t] = b /\ status[t] \in {"running", "succeeded"}
       => status[Row(b, d)] = "succeeded"

\* A row dies by itself, or with an earlier one of the same segment that did.
SegmentsApart ==
  \A t \in Dead \ struck :
    \E u \in struck :
      /\ key[u] < key[t]
      /\ \A i \in Key : key[u] < i /\ i <= key[t] => i \notin breaks

\* A retry never has a second row for what is still to be generated, and what a batch left
\* behind is found by the next one.
RetryShares ==
  /\ UniqueActive
  /\ \A b, c \in Batch, i \in Key :
       /\ Row(b, i) # 0 /\ Row(c, i) # 0 /\ Row(b, i) # Row(c, i)
       => Row(b, i) \notin Active \/ Row(c, i) \notin Active

\* What a batch hears of its items, however the batches overlap and fail, and however often
\* the worker goes and comes back meanwhile.
BatchHonest == ToldTrue /\ AfterPrevious /\ SegmentsApart /\ RetryShares

=================================================================================
