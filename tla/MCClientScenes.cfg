SPECIFICATION Spec
CONSTANTS
  Clients = {c1, c2}
  s1 = s1
  s2 = s2
  Scenes = {s1, s2}
  Place = Place
  None = None
  InReady = FALSE
  Handlers = FALSE
  MaxCalls <- TwoOfOne
  MaxWire = 1
INVARIANTS
  ScenesAgree
  CallsKeepOrder
  CallsFindTheirNode
  AnswersCome
CHECK_DEADLOCK FALSE
SYMMETRY Symmetry
