SPECIFICATION FairSpec
CONSTANTS
  alice = alice
  bob = bob
  carol = carol
  Users <- OneUser
  ActiveMemory = 2
  MaxUsersMemory = 3
  AllowTorn = TRUE
  MaxEvents = 1
  MaxFailures = 1
  MaxCrashes = 1
  MaxStarts = 2
INVARIANTS Converged Delegated NoOvercommit
PROPERTY ShutdownWithBus
CHECK_DEADLOCK FALSE
