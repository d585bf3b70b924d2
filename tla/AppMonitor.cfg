SPECIFICATION Spec
CONSTANTS
  top = top
  slice = slice
  browser = browser
  worker = worker
  Dirs <- MCDirs
  Apps <- MCApps
  Parent <- MCParent
  AllowReuse = TRUE
  WatchLimit = 9
  MaxChanges = 6
INVARIANTS TypeOK NoWatchLeak WatchesUnlessKilled ForgetsUnlessKilled PolicyCurrent
PROPERTY Settles
CHECK_DEADLOCK FALSE
