SPECIFICATION FairSpec
CONSTANTS
  alice = alice
  bob = bob
  carol = carol
  Users <- OneUser
  ActiveMemory = 2
  MaxUsersMemory = 3
  AllowTorn = FALSE
  MaxEvents = 0
  MaxFailures = 0
  MaxCrashes = 0
  MaxStarts = 1
PROPERTY ShutdownCompletes
CHECK_DEADLOCK FALSE
