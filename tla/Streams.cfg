\* Every exception and cancellation of the actor; a viewer and the history of a session of two
\* turns, and two watchers of a project, under fairness.
SPECIFICATION StreamsSpec
CONSTANTS
  NoCmd = NoCmd
  ask1 = ask1
  ask2 = ask2
  ask3 = ask3
  stop1 = stop1
  leave = leave
  KindOf <- MCKindOf
  Cmd = {ask1, ask2, ask3, stop1, leave}
  Raises = {"connect", "query", "stream", "interrupt", "hangup", "cancel"}
  Viewer = {v1}
  MaxRound = 2
  BufferSize = 2
  QueueSize = 2
  u1 = u1
  u2 = u2
  Client = {u1, u2}
  MaxChannel = 2
  MaxChange = 2
  MaxVisits = 2
  Capacity = 1
INVARIANTS
  ViewsComplete
  SnapshotTold
PROPERTIES
  SentOnce
  StreamsClose
  ChangesReach
\* The actor ends.
CHECK_DEADLOCK FALSE
