CONSTANTS
  n1 = n1  n2 = n2  p1 = p1  p2 = p2
  Apps = {"player"}
  Pids = {p1, p2}
  UnitOf <- OfPlayer
  Nodes = {n1, n2}
  PidOf <- TwoNodes
  ConfFiles <- WideFile
  MaxChanges = 5
SPECIFICATION Spec
INVARIANTS TypeOK WeightsInRange  StopResets Forgotten
CHECK_DEADLOCK FALSE
