\* Two worker processes and one task: the lease is lost while the task is being
\* generated.
SPECIFICATION Spec
CONSTANTS
  Worker = {w1, w2}
  None = None
  Departed = Departed
  NoPool = NoPool
  cover = cover
  clip = clip
  scene = scene
  poster = poster
  multi = multi
  still = still
  Key = {cover}
  MediaOf <- MCMediaOf
  ProjectOf <- MCProjectOf
  MaxTasks = 1
  Provider = {multi}
  BuiltIn <- MCBuiltIn
  Configs = {}
  DefaultMax = 1
  MaxTries = 2
  MaxRestarts = 0
  MaxFaults = 0
INVARIANTS
  SingleActiveLease
