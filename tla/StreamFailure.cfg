\* The response stream raises.
SPECIFICATION Spec
CONSTANTS
  NoCmd = NoCmd
  ask1 = ask1
  ask2 = ask2
  ask3 = ask3
  stop1 = stop1
  leave = leave
  KindOf <- MCKindOf
  Cmd = {ask1, stop1}
  Raises = {"stream"}
INVARIANTS
  Released
CHECK_DEADLOCK FALSE
