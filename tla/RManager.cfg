SPECIFICATION Spec
CONSTANTS
  alice = alice
  bob = bob
  carol = carol
  Users <- TwoUsers
  ActiveMemory = 2
  MaxUsersMemory = 3
  AllowTorn = FALSE
  MaxEvents = 2
  MaxFailures = 0
  MaxCrashes = 0
  MaxStarts = 1
  Half = 8
  UidOf <- TwoUids
  Files <- TwoKeyFiles
  Width = 64
  Kilo = 2
  Hundred = 4
  Ram = 12
SYMMETRY Symmetry
INVARIANTS TypeOK PendingBalance NothingAfterExit NoOvercommit StopRevokes Converged
           SearchIsMembership ShareAsDocumented
CHECK_DEADLOCK FALSE
