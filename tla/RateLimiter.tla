------------------------------- MODULE RateLimiter -------------------------------
(***************************************************************************)
(* The sliding-window limiter that paces the requests for one Gemini model *)
(* (RateLimiter in lib/gemini_shared.py).  A request is let through under  *)
(* the limiter's lock; one that must wait sleeps outside of it and tries   *)
(* again.  The settings may be replaced while requests wait: each keeps    *)
(* the limit it has read, and meets the gap that is set when it tries.     *)
(*                                                                         *)
(* A tick of the clock stands for a part of the window, and the tenth of a *)
(* second that is added to a wait for one tick.                            *)
(***************************************************************************)
EXTENDS Integers, Sequences, FiniteSets, SequencesExt

CONSTANTS
  Asker,     \* requests that want a token
  Window,    \* the 60 seconds
  Limits,    \* the requests per window that may be set; not above 0 is no limit
  Gaps,      \* the least intervals that may be set
  MaxTime    \* how long the clock runs (bounds the model)

ASSUME PaceAssumption ==
  /\ Window \in Nat \ {0} /\ MaxTime \in Nat
  /\ Limits \subseteq Int /\ Gaps \subseteq Nat

VARIABLES
  now,
  log,      \* request_logs of the model: when tokens were taken
  rpm,      \* limits of the model
  gap,      \* request_gap
  asker,    \* where each request is, the limit it has read, when it wakes
  taken,    \* every token taken, with the limit and the gap it was taken under
  renewed   \* whether the settings have been replaced (once, to bound the model)

pacing == << now, log, rpm, gap, asker, taken, renewed >>

Away == [pc |-> "away", limit |-> 0, wake |-> 0]
Through == [pc |-> "through", limit |-> 0, wake |-> 0]
Asking == [pc |-> "asking", limit |-> rpm, wake |-> now]

PaceInit ==
  /\ now = 0
  /\ log = << >>
  /\ rpm \in Limits /\ gap \in Gaps
  /\ asker = [a \in Asker |-> Away]
  /\ taken = << >> /\ renewed = FALSE

\* The request reads the limit, once.
Come(a) ==
  /\ asker[a].pc = "away"
  /\ asker' = [asker EXCEPT ![a] = IF rpm <= 0 THEN Through ELSE Asking]
  /\ UNCHANGED << now, log, rpm, gap, taken, renewed >>

\* Mutant: what is as old as the window is forgotten.
Purged_Early ==
  SubSeq(log, Cardinality({k \in DOMAIN log : \A j \in 1 .. k : now - log[j] >= Window}) + 1, Len(log))

\* Entries are popped from the left while they are too old.
Popped == {k \in DOMAIN log : \A j \in 1 .. k : now - log[j] > Window}
Purged == SubSeq(log, Cardinality(Popped) + 1, Len(log))

MaxOf(m, n) == IF m > n THEN m ELSE n

GapLeft(entries) == IF entries = << >> THEN 0 ELSE MaxOf(0, gap - (now - Last(entries)))

WindowLeft(entries, n) ==
  IF Len(entries) >= n THEN Window - (now - Head(entries)) + 1 ELSE 0

Wait(a, entries) == MaxOf(GapLeft(entries), WindowLeft(entries, asker[a].limit))

Awake(a) == asker[a].pc = "asking" /\ asker[a].wake <= now

TakeToken(a) ==
  /\ Awake(a) /\ Wait(a, Purged) = 0
  /\ log' = Append(Purged, now)
  /\ taken' = Append(taken, [at |-> now, limit |-> asker[a].limit, gap |-> gap])
  /\ asker' = [asker EXCEPT ![a] = Through]
  /\ UNCHANGED << now, rpm, gap, renewed >>

SleepOn(a) ==
  /\ Awake(a) /\ Wait(a, Purged) > 0
  /\ log' = Purged
  /\ asker' = [asker EXCEPT ![a].wake = now + Wait(a, Purged)]
  /\ UNCHANGED << now, rpm, gap, taken, renewed >>

\* refresh_shared_rate_limiter.
Refresh ==
  /\ ~renewed /\ renewed' = TRUE
  /\ rpm' \in Limits /\ gap' \in Gaps
  /\ << rpm', gap' >> # << rpm, gap >>
  /\ UNCHANGED << now, log, asker, taken >>

Tick ==
  /\ now < MaxTime
  /\ now' = now + 1
  /\ UNCHANGED << log, rpm, gap, asker, taken, renewed >>

PaceNext ==
  \/ \E a \in Asker : Come(a) \/ TakeToken(a) \/ SleepOn(a)
  \/ Refresh \/ Tick

PaceSpec == PaceInit /\ [][PaceNext]_pacing

-----------------------------------------------------------------------------
(* Properties *)

\* However requests interleave and the settings change, when a token is taken there are no
\* more tokens in the window that ends with it than the limit its request had read, and it
\* comes no sooner after the one before than the gap then set.
Paced ==
  \A k \in DOMAIN taken :
    /\ Cardinality({j \in 1 .. k : taken[k].at - taken[j].at <= Window}) <= taken[k].limit
    /\ k > 1 => taken[k].at - taken[k - 1].at >= taken[k].gap

===============================================================================
