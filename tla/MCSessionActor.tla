---------------------------- MODULE MCSessionActor ----------------------------
(***************************************************************************)
(* Small instances of SessionActor: three queries (one driven, one set     *)
(* aside, one refused), an interrupt and a disconnect.                     *)
(***************************************************************************)
EXTENDS SessionActor

CONSTANTS ask1, ask2, ask3, stop1, leave

MCKindOf ==
  [c \in Cmd |-> CASE c = stop1 -> "interrupt"
                   [] c = leave -> "disconnect"
                   [] OTHER -> "query"]

\* The actor whose stream, hang-up and task raise nothing: Next without the four actions
\* that Raises then disables.
QuietNext ==
  \/ \E c \in Cmd : Enqueue(c)
  \/ Connected \/ ConnectRaises \/ Take \/ QuerySent \/ QueryRaises
  \/ Wake \/ EndOfStream \/ Interrupted \/ InterruptRaises \/ HungUp \/ Closed
  \/ Get \/ StreamMessage \/ StreamEnds

ActorFairness == WF_vars(Step) /\ WF_vars(Get)
================================================================================
