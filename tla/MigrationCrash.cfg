\* One exception or crash.
SPECIFICATION MigrationSpec
CONSTANTS
  jade = jade
  jadecup = jadecup
  Clue = {jade, jadecup}
  Location = {jade}
  Globbed <- MCGlobbed
  Script = {e1}
  MaxCuts = 1
INVARIANT NothingStranded
CHECK_DEADLOCK FALSE
