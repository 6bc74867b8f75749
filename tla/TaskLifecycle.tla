----------------------------- MODULE TaskLifecycle -----------------------------
(***************************************************************************)
(* What the generation queue promises about its tasks, with nothing said   *)
(* about leases, pools, polling or processes: a task is submitted, waits   *)
(* for its dependency, is executed by one execution at a time, and ends    *)
(* once, taking along the queued tasks that were waiting for it.  An       *)
(* execution may be lost, and then its task may be returned to the queue.  *)
(***************************************************************************)
EXTENDS Integers

CONSTANT Task   \* numbered in the order of submission

VARIABLES
  status,     \* "absent", "queued", "running", "succeeded", "failed", "cancelled"
  dep,        \* the task it waits for, or 0
  executing   \* the tasks that are being executed

vars == << status, dep, executing >>

InState(s) == {t \in Task : status[t] = s}

With(S, s) == [t \in Task |-> IF t \in S THEN s ELSE status[t]]

\* No queued task outside S waits for a member of S.
LeavesNobody(S) == \A d \in InState("queued") : dep[d] \in S => d \in S

Init ==
  /\ status = [t \in Task |-> "absent"]
  /\ dep = [t \in Task |-> 0]
  /\ executing = {}

Submit(t, d) ==
  /\ status[t] = "absent"
  /\ d # 0 => d \in Task \ InState("absent") /\ d < t
  /\ status' = With({t}, "queued")
  /\ dep' = [dep EXCEPT ![t] = d]
  /\ UNCHANGED executing

Claim(t) ==
  /\ status[t] = "queued"
  /\ dep[t] # 0 => status[dep[t]] = "succeeded"
  /\ status' = With({t}, "running")
  /\ UNCHANGED << dep, executing >>

Begin(t) ==
  /\ status[t] = "running"
  /\ t \notin executing
  /\ executing' = executing \cup {t}
  /\ UNCHANGED << status, dep >>

Succeed(t) ==
  /\ status[t] = "running"
  /\ t \in executing
  /\ status' = With({t}, "succeeded")
  /\ executing' = executing \ {t}
  /\ UNCHANGED dep

\* t fails, before or after its execution began, and S with it: exactly the
\* queued tasks that waited for t or for one of them.
Fail(t, S) ==
  /\ status[t] = "running"
  /\ S \subseteq InState("queued")
  /\ \A d \in S : dep[d] \in S \cup {t}
  /\ LeavesNobody(S \cup {t})
  /\ status' = With(S \cup {t}, "failed")
  /\ executing' = executing \ {t}
  /\ UNCHANGED dep

Cancel(S) ==
  /\ S \subseteq InState("queued")
  /\ LeavesNobody(S)
  /\ status' = With(S, "cancelled")
  /\ UNCHANGED << dep, executing >>

Lose(S) ==
  /\ executing' = executing \ S
  /\ UNCHANGED << status, dep >>

Return(S) ==
  /\ S \subseteq InState("running") \ executing
  /\ status' = With(S, "queued")
  /\ UNCHANGED << dep, executing >>

Next ==
  \/ \E t \in Task, d \in Task \cup {0} : Submit(t, d)
  \/ \E t \in Task : Claim(t) \/ Begin(t) \/ Succeed(t)
  \/ \E t \in Task, S \in SUBSET Task : Fail(t, S)
  \/ \E S \in SUBSET Task : Cancel(S) \/ Lose(S) \/ Return(S)

Spec == Init /\ [][Next]_vars
================================================================================
