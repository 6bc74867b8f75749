------------------------------ MODULE TurnProjection ------------------------------
(***************************************************************************)
(* The turns of a conversation, as a viewer of a running session gets      *)
(* them.  The messages so far are grouped into turns from the beginning at *)
(* each message; what differs from the turns before goes out as a patch,   *)
(* and the viewer applies it.  Consecutive messages of the assistant are   *)
(* one turn.  Messages of the user that the SDK has put in are no turns of *)
(* the user's: the outcome of a tool goes to its call, the text of a skill *)
(* to the last call of a skill, the news of a task to the task's block.    *)
(*                                                                         *)
(* A call and its task have one id.  The wording of a text is left out.    *)
(***************************************************************************)
EXTENDS Naturals, Sequences, FiniteSets, SequencesExt

CONSTANTS
  Call,
  NameOf,      \* "Agent", "Skill" or "other"
  MaxMessages

ASSUME NameAssumption == NameOf \in [Call -> {"Agent", "Skill", "other"}]

VARIABLES
  past, open,  \* current_turn may be none
  called,      \* tool_use_map
  shown, op,   \* what the viewer has, and how the last patch changed it
  messages,
  outcomes,    \* of these calls came an outcome
  late         \* and these were not in the turn that was open then

turns == << past, open, called, shown, op, messages, outcomes, late >>

NoTurn == [type |-> "none", content |-> << >>]
NewTurn(type, blocks) == [type |-> type, content |-> blocks]
Block(kind, id) == [kind |-> kind, id |-> id, outcome |-> FALSE, skill |-> FALSE, status |-> "none"]
Plain(kind) == Block(kind, "none")

TurnsInit ==
  /\ past = << >> /\ open = NoTurn /\ called = {}
  /\ shown = << >> /\ op = "none"
  /\ messages = 0 /\ outcomes = {} /\ late = {}

-----------------------------------------------------------------------------
(* Grouping *)

\* The block of a task that was only started is completed with the outcome of its agent.
Resolved(turn) ==
  LET ended == {b.id : b \in {c \in ToSet(turn.content) :
                 c.kind = "call" /\ NameOf[c.id] = "Agent" /\ c.outcome}}
      Completed(b) == IF b.kind = "task" /\ b.status = "started" /\ b.id \in ended
                 THEN [b EXCEPT !.status = "notified"] ELSE b
  IN [turn EXCEPT !.content = [i \in DOMAIN turn.content |-> Completed(turn.content[i])]]

Grouped(ts, turn) ==
  LET all == IF turn = NoTurn THEN ts ELSE Append(ts, turn) IN
  [i \in DOMAIN all |-> Resolved(all[i])]

\* build_turn_patch
PatchOp(prev, curr) ==
  CASE prev = curr -> "none"
    [] prev # curr /\ Len(curr) = Len(prev) + 1 /\ Front(curr) = prev -> "append"
    [] Len(curr) = Len(prev) /\ prev # curr /\ Front(curr) = Front(prev) -> "replace last"
    [] OTHER -> "reset"

Patched(view, what, curr) ==
  CASE what = "none" -> view
    [] what = "append" -> Append(view, Last(curr))
    [] what = "replace last" -> Append(Front(view), Last(curr))
    [] what = "reset" -> curr

\* One more message leads to the turns ts and turn.
Apply(ts, turn) ==
  LET curr == Grouped(ts, turn)
      what == PatchOp(Grouped(past, open), curr)
  IN /\ messages < MaxMessages /\ messages' = messages + 1
     /\ past' = ts /\ open' = turn
     /\ op' = what
     /\ shown' = Patched(shown, what, curr)

AllTurns == IF open = NoTurn THEN past ELSE Append(past, open)

Begin(type, blocks) == Apply(AllTurns, NewTurn(type, blocks))
Extend(blocks) == Apply(past, [open EXCEPT !.content = @ \o blocks])
Amend(i, block) == Apply(past, [open EXCEPT !.content[i] = block])

\* To the turn of the assistant that is open, or to one of their own.
AttachOrBegin(blocks) == IF open.type = "assistant" THEN Extend(blocks) ELSE Begin("system", blocks)

First(P(_)) == SelectInSeq(open.content, P)

-----------------------------------------------------------------------------
(* Messages *)

UserSays ==
  /\ Begin("user", << Plain("text") >>)
  /\ UNCHANGED << called, outcomes, late >>

AssistantSays ==
  /\ IF open.type = "assistant" THEN Extend(<< Plain("text") >>)
                                ELSE Begin("assistant", << Plain("text") >>)
  /\ UNCHANGED << called, outcomes, late >>

AssistantCalls(c) ==
  /\ c \notin called /\ called' = called \union {c}
  /\ IF open.type = "assistant" THEN Extend(<< Block("call", c) >>)
                                ELSE Begin("assistant", << Block("call", c) >>)
  /\ UNCHANGED << outcomes, late >>

\* Mutant: any turn that is open takes the outcome of its call.
CallAt_AnyTurn(c) == First(LAMBDA b : b.kind = "call")

CallAt(c) == First(LAMBDA b : b.kind = "call" /\ b.id = c)

\* The outcome of a call that is not in the open turn is a block of its own.
Outcome(c) ==
  /\ c \in called \ outcomes
  /\ outcomes' = outcomes \union {c}
  /\ late' = IF open.type = "assistant" /\ \E b \in ToSet(open.content) : b.kind = "call" /\ b.id = c
             THEN late ELSE late \union {c}
  /\ IF open.type = "assistant" /\ CallAt(c) # 0
     THEN Amend(CallAt(c), [open.content[CallAt(c)] EXCEPT !.outcome = TRUE])
     ELSE AttachOrBegin(<< Block("outcome", c) >>)
  /\ UNCHANGED called

SkillAt == SelectLastInSeq(open.content, LAMBDA b : b.kind = "call" /\ NameOf[b.id] = "Skill")

SkillText ==
  /\ IF open.type = "assistant" /\ SkillAt # 0
     THEN Amend(SkillAt, [open.content[SkillAt] EXCEPT !.skill = TRUE])
     ELSE AttachOrBegin(<< Plain("skill") >>)
  /\ UNCHANGED << called, outcomes, late >>

\* What a subagent tells its model is not shown.
SubagentText ==
  /\ Apply(past, open)
  /\ UNCHANGED << called, outcomes, late >>

\* The echo of an interrupt may come twice, from the CLI and from the session manager.
InterruptEcho ==
  /\ IF open.type = "system" /\ Last(open.content).kind = "notice"
     THEN Apply(past, open)
     ELSE Begin("system", << Plain("notice") >>)
  /\ UNCHANGED << called, outcomes, late >>

TaskAt(c) == First(LAMBDA b : b.kind = "task" /\ b.id = c)

\* News of a task: as a message of the system or, when it is over, one of the user.
TaskSays(c, status) ==
  /\ IF status # "started" /\ TaskAt(c) # 0
     THEN Amend(TaskAt(c), [open.content[TaskAt(c)] EXCEPT !.status = status])
     ELSE AttachOrBegin(<< [Block("task", c) EXCEPT !.status = status] >>)
  /\ UNCHANGED << called, outcomes, late >>

TurnResult ==
  /\ Apply(AllTurns, NoTurn)
  /\ UNCHANGED << called, outcomes, late >>

TurnsNext ==
  \/ UserSays \/ AssistantSays \/ SkillText \/ SubagentText \/ InterruptEcho \/ TurnResult
  \/ \E c \in Call : AssistantCalls(c) \/ Outcome(c)
  \/ \E c \in called, status \in {"started", "progress", "notified"} :
       NameOf[c] = "Agent" /\ TaskSays(c, status)

TurnsSpec == TurnsInit /\ [][TurnsNext]_turns

-----------------------------------------------------------------------------
(* Properties *)

Times(P(_)) == Cardinality({x \in UNION {{i} \X DOMAIN shown[i].content : i \in DOMAIN shown} :
                              P(shown[x[1]].content[x[2]])})

\* A viewer that applies the patches has the turns that one who loads the conversation gets,
\* and is never given all of them anew.  The outcome of a call is there once: at the call, if
\* that was in the open turn, or else in a block of its own.
LiveView ==
  /\ shown = Grouped(past, open) /\ op # "reset"
  /\ \A c \in outcomes :
       /\ Times(LAMBDA b : b.id = c /\ b.kind = "call" /\ b.outcome) = IF c \in late THEN 0 ELSE 1
       /\ Times(LAMBDA b : b.id = c /\ b.kind = "outcome") = IF c \in late THEN 1 ELSE 0

===============================================================================
