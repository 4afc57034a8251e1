SPECIFICATION Spec
CONSTANTS
  Client = {2, 3, 4}
  Owner = 2
  Configs <- MCConfigs
  ClientTargets <- MCTargets
  Wrap = 100
  Nesting = FALSE
  MaxCalls = 2
CONSTRAINT Bystander
INVARIANTS SenderIsCaller CallsReachTheirTargets
CHECK_DEADLOCK FALSE
