\* Tasks, requests and the scanner on the files of one project; two batches of three
\* storyboards.
SPECIFICATION FilesSpec
CONSTANTS
  Nobody = Nobody
  Absent = Absent
  e1 = e1
  s1 = s1
  g1 = g1
  a1 = a1
  a2 = a2
  u1 = u1
  Episode = {e1}
  User = {w1}
  Scanner = scanner
  Resource <- MCResource
  Job <- MCJob
  EpisodeOf <- MCEpisodeOf
  MaxRuns = 2
  MaxAsked = 1
  MaxFaults = 1
  batch1 = batch1
  batch2 = batch2
  Batch = {batch1, batch2}
  Key <- MCItem
  MediaOf <- MCMediaOf
  ProjectOf <- MCProjectOf
  Selections <- MCSelections
  Breaks <- MCBreaks
  MaxTasks = 3
  Worker = {worker}
  None = None
  Departed = Departed
  MaxRestarts = 1
INVARIANTS
  
  DocumentsKept
  BatchHonest
PROPERTIES
  OldFileKept
CHECK_DEADLOCK FALSE
