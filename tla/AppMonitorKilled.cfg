SPECIFICATION Spec
CONSTANTS
  top = top
  slice = slice
  browser = browser
  worker = worker
  Dirs <- TwoDirs
  Apps <- TwoApps
  Parent <- TwoParent
  AllowReuse = FALSE
  WatchLimit = 9
  MaxChanges = 2
INVARIANT WatchesTree
CHECK_DEADLOCK FALSE
