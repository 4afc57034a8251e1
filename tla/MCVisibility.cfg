SPECIFICATION Spec
CONSTANTS
  scene = scene
  part = part
  script = script
  Peer = {p1}
  Server = server
  Node <- MCNode
  SceneOf <- MCSceneOf
CONSTRAINTS OneWaits LeftAlone
INVARIANTS ToldIsVisible CacheCoherent DiffsAreExact
CHECK_DEADLOCK FALSE
PROPERTY ImplementsSceneView
