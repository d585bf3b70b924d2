SPECIFICATION AliceFirst
CONSTANTS
  alice = alice
  bob = bob
  seat0 = seat0
  seat1 = seat1
  a0 = a0
  b1 = b1
  Users <- MCUsers
  Seats <- MCSeats
  CanGraphical <- MCSeats
  Sessions <- MCSessions
  Owner <- MCOwner
  SeatOf <- MCSeatOf
  MaxChanges = 1
  MaxErrors = 0
  ActiveMemory = 2
  MaxUsersMemory = 3
  AllowTorn = TRUE
  MaxEvents = 1
  MaxFailures = 0
  MaxCrashes = 0
  MaxStarts = 1
INVARIANT RestIsRight
PROPERTIES Protects EndToEnd
CHECK_DEADLOCK FALSE
