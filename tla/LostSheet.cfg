SPECIFICATION Spec
CONSTANTS
  Nobody = Nobody
  Absent = Absent
  e1 = e1
  s1 = s1
  g1 = g1
  a1 = a1
  a2 = a2
  u1 = u1
  Episode = {e1}
  User = {w1}
  Scanner = scanner
  Resource <- MCResource
  Job <- MCJob
  EpisodeOf <- MCEpisodeOf
  MaxRuns = 2
  MaxAsked = 1
  MaxFaults = 1
INVARIANT SheetsShown
CHECK_DEADLOCK FALSE
