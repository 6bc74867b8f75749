\* The actor of a session, under fairness, with exceptions where it releases what it holds
\* (connecting, sending a prompt, interrupting); the turns of five messages; three appends; a
\* migration cut off twice; a project through an archive; three imports at once; two requests
\* about source texts.
SPECIFICATION ServicesSpec
CONSTANTS
  NoCmd = NoCmd
  ask1 = ask1
  ask2 = ask2
  ask3 = ask3
  stop1 = stop1
  leave = leave
  KindOf <- MCKindOf
  Cmd = {ask1, ask2, ask3, stop1, leave}
  Raises = {"connect", "query", "interrupt"}
  call1 = call1
  call2 = call2
  Call = {call1, call2}
  NameOf <- MCNameOf
  MaxMessages = 5
  append1 = append1
  append2 = append2
  append3 = append3
  Writer = {append1, append2, append3}
  EntriesOf <- MCEntriesOf
  NoWriter = NoWriter
  MaxTries = 2
  jade = jade
  jadecup = jadecup
  Clue = {jade, jadecup}
  Location = {jade}
  Globbed <- MCGlobbed
  Script = {e1}
  MaxCuts = 2
  Resource = {jade, jadecup}
  BeginsWith <- MCGlobbed
  MaxVersion = 2
  ep1 = ep1
  Episode = {ep1}
  Projects <- MCProjects
  import1 = import1
  import2 = import2
  import3 = import3
  Importer = {import1, import2, import3}
  Policy <- MCPolicy
  SourceRequest = {1, 2}
  Base = {"novel"}
  MaxSuffix = 2
  MaxTrouble = 1
INVARIANTS
  NoneMislaid
  Released
  LiveView
  TranscriptKept
  MigrationWhole
  RoundTrip
  SourcesHonest
PROPERTIES
  NobodyHangs
  ControlsWork
  ProjectKept
\* Every one of them ends.
CHECK_DEADLOCK FALSE
