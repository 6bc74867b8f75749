\* Two requests at a time on a limit of one session: three in all, or two and a fault.
SPECIFICATION LittleSpec
CONSTANTS
  None = None
  Session = {s1, s2}
  Stored = {s1}
  Request = {r1, r2}
  Limit = 1
  MaxBegun = 3
  MaxFaults = 1
INVARIANTS
  OneActor
  RowFollows
  BoundedExcess
SYMMETRY RequestSymmetry
CHECK_DEADLOCK FALSE
