CONSTANTS
  p1 = p1
  p2 = p2
  p3 = p3
  z1 = z1
  z2 = z2
  Peers = {p1, p2, p3}
  Zones = {z1, z2}
  None = None
  MaxWire = 1
SPECIFICATION MCSpec
INVARIANT
  LeavesAreTold
CHECK_DEADLOCK FALSE
