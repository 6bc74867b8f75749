\* What is around the worker, each on its own: requests for tokens, a call, requests for
\* grids, requests on credentials, on custom providers and about the library.
SPECIFICATION BackendsSpec
CONSTANTS
  Asker = {1, 2, 3}
  Window = 3
  Limits = {0, 1, 2}
  Gaps = {0, 1}
  MaxTime = 7
  MaxPolls = 3
  Scenes = 11
  BreakSets <- MCBreakSets
  Wanted <- MCWantedScenes
  OldGrids <- MCOldGrids
  MaxGrids = 3
  Generation = {generation}
  Regeneration = {regeneration}
  MaxLoops = 1
  Change = {1, 2, 3}
  Builder = {builder1}
  MaxIds = 3
  MaxBuilds = 2
  Admin = {1, 2, 3}
  Runner = {runner1}
  Lists <- MCLists
  Referred <- MCReferred
  ReadyMedia = {"text"}
  MaxWrites = 1
  AssetRequest = {1, 2}
  Name = {"ann", "bob"}
  Shelves <- MCShelves
  MaxPictures = 4
  MaxMishaps = 1
INVARIANTS
  LibraryHonest
  Paced
  CallAccounted
  GridsHonest
  CredentialsHonest
  
CHECK_DEADLOCK FALSE
