\* Two worker processes, as during a rolling restart, and a dependent row in the same lane.
SPECIFICATION Spec
CONSTANTS
  Worker = {w1, w2}
  None = None
  Departed = Departed
  NoPool = NoPool
  cover = cover
  clip = clip
  scene = scene
  poster = poster
  multi = multi
  still = still
  Key = {cover, scene}
  MediaOf <- MCMediaOf
  ProjectOf <- MCProjectOf
  MaxTasks = 2
  Provider = {multi}
  BuiltIn <- MCBuiltIn
  Configs = {}
  DefaultMax = 1
  MaxTries = 2
  MaxRestarts = 0
  MaxFaults = 0
SYMMETRY Interchangeable
INVARIANTS
  UniqueActive
PROPERTIES
  TerminalNeverReopens
  SettlesDependents
