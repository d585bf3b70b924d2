SPECIFICATION Spec
CONSTANTS
  alice = alice
  bob = bob
  carol = carol
  seat0 = seat0
  seat1 = seat1
  tty = tty
  a0 = a0
  a1 = a1
  b0 = b0
  c9 = c9
  Users <- MCUsers
  Seats <- MCSeats
  CanGraphical <- MCGraphicalSeats
  Sessions <- MCSessions
  Owner <- MCOwner
  SeatOf <- MCSeatOf
  MaxChanges = 3
  MaxErrors = 1
INVARIANTS TypeOK NoLostChange PassSound
PROPERTY Converges
CHECK_DEADLOCK FALSE
