SPECIFICATION Spec
CONSTANTS
  Version = {1, 2}
  AuthTimeout = TRUE
  Creatable = {TRUE, FALSE}
  Attempts <- MCAttempts
  MaxHandled = 2
INVARIANTS StateIsConsistent VersionsAgree
PROPERTIES AttemptEnds CancelledLoopEnds
CHECK_DEADLOCK FALSE
