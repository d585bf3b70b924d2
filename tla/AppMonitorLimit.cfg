SPECIFICATION Spec
CONSTANTS
  top = top
  slice = slice
  browser = browser
  worker = worker
  Dirs <- TwoDirs
  Apps <- TwoApps
  Parent <- TwoParent
  AllowReuse = FALSE
  WatchLimit = 2
  MaxChanges = 1
PROPERTY Settles
CHECK_DEADLOCK FALSE
