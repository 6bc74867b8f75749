\* One worker process, two rows, a crash or shutdown or an escaping exception, and a
\* provider that may be removed under way, under fairness.
SPECIFICATION FairSpec
ACTION_CONSTRAINT Little
CONSTANTS
  Worker = {w1}
  None = None
  Departed = Departed
  NoPool = NoPool
  cover = cover
  clip = clip
  scene = scene
  poster = poster
  multi = multi
  still = still
  Key = {cover, clip}
  MediaOf <- MCMediaOf
  ProjectOf <- MCProjectOf
  MaxTasks = 2
  Provider = {multi, still}
  BuiltIn <- MCBuiltIn
  Configs <- MCConfigs
  DefaultMax = 1
  MaxTries = 2
  MaxRestarts = 1
  MaxFaults = 1
INVARIANTS
  TypeOK
  AtMostOneExecution
  ExecutionOwnsTask
  DependencyFirst
  NobodyForgotten
PROPERTIES
  ResultsStick
  NeverOverLimit
  ImplementsLifecycle
  EveryTaskSettles
