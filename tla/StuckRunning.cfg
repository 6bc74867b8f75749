\* Sessions that nobody has live but that the table has as running.
SPECIFICATION Spec
CONSTANTS
  None = None
  Session = {s1, s2}
  Stored = {s1}
  Request = {r1, r2}
  Limit = 1
  MaxBegun = 3
  MaxFaults = 1
INVARIANTS
  ClosedIsSettled
SYMMETRY RequestSymmetry
CHECK_DEADLOCK FALSE
