----------------------------- MODULE TaskQueue_proofs -----------------------------
(***************************************************************************)
(* What the transactions of TaskQueue do to the table of tasks, for every  *)
(* set of keys and any number of rows: for the worker and for the client   *)
(* alike.                                                                  *)
(***************************************************************************)
EXTENDS TaskQueue, TLAPS

\* A step that changes the statuses of existing rows and nothing else in them.
\* Only an active row may become queued or running, and whoever waits in the
\* queue for a row that dies dies with it.
Moves(S, s) ==
  /\ S \subseteq Task \ InState("absent")
  /\ s \in Status \ {"absent"}
  /\ s \in {"queued", "running"} => S \subseteq Active
  /\ s \in {"failed", "cancelled"} => \A d \in Queued : dep[d] \in S => d \in S
  /\ status' = With(S, s)
  /\ UNCHANGED << key, dep >>

RowsTypeOK ==
  /\ status \in [Task -> Status]
  /\ key \in [Task -> Key \cup {None}]
  /\ \A t \in Task : key[t] = None <=> status[t] = "absent"
  /\ \A t, u \in Task : status[t] = "absent" /\ t < u => status[u] = "absent"
  /\ dep \in [Task -> 0 .. MaxTasks]
  /\ \A t \in Task : dep[t] < t /\ (status[t] = "absent" => dep[t] = 0)

LeaseTypeOK ==
  /\ lease \in [owner : Worker \cup {None, Departed}, fresh : BOOLEAN]
  /\ lease.owner = None => ~ lease.fresh

LEMMA TablesSplit == TablesTypeOK <=> RowsTypeOK /\ LeaseTypeOK
BY DEF TablesTypeOK, RowsTypeOK, LeaseTypeOK

\* Moving existing rows keeps the tables well formed, and no row comes or goes.
LEMMA MovesKeepsRows ==
  ASSUME RowsTypeOK, NEW S, NEW s, Moves(S, s)
  PROVE  /\ RowsTypeOK'
         /\ \A t \in Task : status'[t] # "absent" <=> status[t] # "absent"
<1>1. status' \in [Task -> Status]
  BY DEF Moves, RowsTypeOK, With
<1>2. \A t \in Task : status'[t] = IF t \in S THEN s ELSE status[t]
  BY DEF Moves, With
<1>3. \A t \in Task : status'[t] # "absent" <=> status[t] # "absent"
  BY <1>2 DEF Moves, InState
<1>4. RowsTypeOK'
  BY <1>1, <1>3 DEF Moves, RowsTypeOK
<1>. QED BY <1>3, <1>4

LEMMA DependentsQueued == \A t : Dependents(t) \subseteq Queued
BY DEF Dependents

LEMMA DependentsClosed == \A t : Closed(Dependents(t), t)
<1>. SUFFICES ASSUME NEW t, NEW d \in Queued, dep[d] \in Dependents(t) \cup {t},
                     NEW S \in SUBSET Queued, Closed(S, t)
              PROVE  d \in S
  BY DEF Closed, Dependents
<1>1. dep[d] \in S \cup {t}
  BY DEF Dependents
<1>. QED BY <1>1 DEF Closed

\* Dependencies stay within a project.
SameProject ==
  \A t \in Task : dep[t] # 0 => ProjectOf[key[dep[t]]] = ProjectOf[key[t]]

\* The row transactions are such moves.
LEMMA RowMoves ==
  ASSUME RowsTypeOK, UNCHANGED << key, dep >>
  PROVE  /\ \A t \in Task \ InState("absent") : FailRow(t) => \E S, s : Moves(S, s)
         /\ \A t \in Task \ InState("absent") : SucceedRow(t) => \E S, s : Moves(S, s)
         /\ \A t \in Task : TakeRow(t) => \E S, s : Moves(S, s)
         /\ \A S \in SUBSET Task : RequeueRows(S) => \E U, s : Moves(U, s)
         /\ \A t \in Task : CancelRow(t) => \E S, s : Moves(S, s)
         /\ SameProject => \A p : CancelProject(p) => \E S, s : Moves(S, s)
<1>q. /\ Queued \subseteq Task \ InState("absent") /\ Running \subseteq Task \ InState("absent")
      /\ Queued \subseteq Active /\ Running \subseteq Active
  BY DEF Queued, Running, Active, InState
<1>s. {"queued", "running", "succeeded", "failed", "cancelled"} \subseteq Status \ {"absent"}
  BY DEF Status
<1>c. \A t : \A d \in Queued : dep[d] \in Dependents(t) \cup {t} => d \in Dependents(t)
  BY DependentsClosed DEF Closed
<1>1. ASSUME NEW t \in Task \ InState("absent"), FailRow(t)
      PROVE  Moves({t} \cup Dependents(t), "failed")
  BY <1>1, <1>q, <1>s, <1>c, DependentsQueued DEF FailRow, Moves
<1>2. ASSUME NEW t \in Task \ InState("absent"), SucceedRow(t)
      PROVE  Moves({t}, "succeeded")
  BY <1>2, <1>s DEF SucceedRow, Moves
<1>3. ASSUME NEW t \in Task, TakeRow(t)
      PROVE  Moves({t}, "running")
  BY <1>3, <1>q, <1>s DEF TakeRow, Moves
<1>4. ASSUME NEW S \in SUBSET Task, RequeueRows(S)
      PROVE  Moves(S \cap Running, "queued")
  BY <1>4, <1>q, <1>s DEF RequeueRows, Moves
<1>5. ASSUME NEW t \in Task, CancelRow(t)
      PROVE  Moves(({t} \cap Queued) \cup Dependents(t), "cancelled")
  BY <1>5, <1>q, <1>s, <1>c, DependentsQueued DEF CancelRow, Moves
<1>6. ASSUME SameProject, NEW p, CancelProject(p)
      PROVE  Moves({t \in Queued : ProjectOf[key[t]] = p}, "cancelled")
  <2>1. \A d \in Queued : dep[d] \in Queued => ProjectOf[key[dep[d]]] = ProjectOf[key[d]]
    BY <1>6, <1>q DEF SameProject, Task
  <2>. QED BY <1>6, <1>q, <1>s, <2>1 DEF CancelProject, Moves
<1>. QED BY <1>1, <1>2, <1>3, <1>4, <1>5, <1>6

\* enqueue makes the next row, and leaves the others.
LEMMA EnqueueAdds ==
  ASSUME RowsTypeOK, NEW k \in Key, NEW d \in 0 .. MaxTasks, Enqueue(k, d)
  PROVE  \E n \in Task :
           /\ status[n] = "absent" /\ \A t \in Task : status[t] = "absent" => n <= t
           /\ status' = With({n}, "queued")
           /\ \A t \in Task : /\ status'[t] = IF t = n THEN "queued" ELSE status[t]
                              /\ key'[t] = IF t = n THEN k ELSE key[t]
                              /\ dep'[t] = IF t = n THEN d ELSE dep[t]
<1>1. PICK n \in Oldest(InState("absent")) :
        status' = With({n}, "queued") /\ key' = [key EXCEPT ![n] = k] /\ dep' = [dep EXCEPT ![n] = d]
  BY DEF Enqueue
<1>2. n \in Task /\ status[n] = "absent" /\ \A t \in Task : status[t] = "absent" => n <= t
  BY DEF Oldest, InState
<1>3. \A t \in Task : /\ status'[t] = IF t = n THEN "queued" ELSE status[t]
                      /\ key'[t] = IF t = n THEN k ELSE key[t]
                      /\ dep'[t] = IF t = n THEN d ELSE dep[t]
  BY <1>1 DEF RowsTypeOK, With
<1>. QED BY <1>1, <1>2, <1>3

\* enqueue makes the next row.
LEMMA EnqueueKeepsRows ==
  ASSUME RowsTypeOK, NEW k \in Key, NEW d \in 0 .. MaxTasks, Enqueue(k, d)
  PROVE  /\ RowsTypeOK'
         /\ \A t \in Task : status[t] # "absent" => status'[t] # "absent"
<1>1. PICK t \in Oldest(InState("absent")) :
        /\ status' = With({t}, "queued")
        /\ key' = [key EXCEPT ![t] = k]
        /\ dep' = [dep EXCEPT ![t] = d]
  BY DEF Enqueue
<1>2. /\ t \in Task /\ status[t] = "absent"
      /\ \A u \in Task : status[u] = "absent" => t <= u
  BY DEF Oldest, InState
<1>3. k # None
  BY TableAssumption
<1>4. d < t
  <2>1. CASE d = 0
    BY <2>1, <1>2 DEF Task
  <2>2. CASE d # 0
    <3>1. d \in Task /\ status[d] # "absent"
      BY <2>2 DEF Enqueue, InState
    <3>2. ~ (t < d) /\ t # d
      BY <3>1, <1>2 DEF RowsTypeOK
    <3>. QED BY <3>1, <3>2, <1>2 DEF Task
  <2>. QED BY <2>1, <2>2
<1>5. \A u \in Task : status'[u] = IF u = t THEN "queued" ELSE status[u]
  BY <1>1 DEF With
<1>6. status' \in [Task -> Status]
  BY <1>1, <1>2 DEF With, RowsTypeOK, Status
<1>7. \A u, v \in Task : status'[u] = "absent" /\ u < v => status'[v] = "absent"
  <2>1. SUFFICES ASSUME NEW u \in Task, NEW v \in Task, status'[u] = "absent", u < v
                 PROVE  status'[v] = "absent"
    OBVIOUS
  <2>2. u # t /\ status[u] = "absent" /\ t <= u
    BY <2>1, <1>2, <1>5
  <2>3. v # t
    BY <2>1, <2>2, <1>2 DEF Task
  <2>. QED BY <2>1, <2>2, <2>3, <1>5 DEF RowsTypeOK
<1>8. key' \in [Task -> Key \cup {None}] /\ dep' \in [Task -> 0 .. MaxTasks]
  BY <1>1 DEF RowsTypeOK
<1>9. \A u \in Task : /\ key'[u] = IF u = t THEN k ELSE key[u]
                      /\ dep'[u] = IF u = t THEN d ELSE dep[u]
  BY <1>1 DEF RowsTypeOK
<1>. QED BY <1>2, <1>3, <1>4, <1>5, <1>6, <1>7, <1>8, <1>9 DEF RowsTypeOK

LEMMA OldestIsOne ==
  \A S \in SUBSET Task : S # {} => \E t \in S : Oldest(S) = {t} \/ Oldest(S) = {}
<1>1. \A S \in SUBSET Task : \A t, u \in Oldest(S) : t = u
  BY DEF Oldest, Task
<1>2. \A S : Oldest(S) \subseteq S
  BY DEF Oldest
<1>. QED BY <1>1, <1>2

LEMMA MovesActive ==
  ASSUME RowsTypeOK, NEW S, NEW s, Moves(S, s)
  PROVE  Active' \subseteq Active /\ UNCHANGED key
<1>1. \A t \in Task : status'[t] = IF t \in S THEN s ELSE status[t]
  BY DEF Moves, With
<1>. QED BY <1>1 DEF Moves, Active, InState

\* No two active rows share a dedupe key, whatever moves or is enqueued.
LEMMA UniqueMoves ==
  ASSUME RowsTypeOK, UniqueActive, NEW S, NEW s, Moves(S, s)
  PROVE  UniqueActive'
BY MovesActive DEF UniqueActive

LEMMA UniqueEnqueue ==
  ASSUME RowsTypeOK, UniqueActive, NEW k \in Key, NEW d \in 0 .. MaxTasks, Enqueue(k, d)
  PROVE  UniqueActive'
<1>1. PICK n \in Task :
        /\ status[n] = "absent" /\ \A t \in Task : status[t] = "absent" => n <= t
        /\ status' = With({n}, "queued")
        /\ \A t \in Task : /\ status'[t] = IF t = n THEN "queued" ELSE status[t]
                           /\ key'[t] = IF t = n THEN k ELSE key[t]
                           /\ dep'[t] = IF t = n THEN d ELSE dep[t]
  BY EnqueueAdds
<1>2. Active' \subseteq Active \cup {n} /\ Active \subseteq Task /\ n \notin Active
  BY <1>1 DEF Active, InState
<1>3. \A t \in Active : key'[t] = key[t] /\ key[t] # k
  BY <1>1, <1>2 DEF Enqueue
<1>. QED BY <1>1, <1>2, <1>3 DEF UniqueActive
===================================================================================
