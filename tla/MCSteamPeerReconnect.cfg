CONSTANTS
  i1 = i1
  i2 = i2
  Insts = {i1, i2}
  Users = {u1}
  MaxSends <- Sends
  MaxPending = 2
  SendsFail = {i1, i2}
  LinksBreak = {}
SPECIFICATION Spec
PROPERTIES
  DisconnectsItsPeer
CHECK_DEADLOCK FALSE
