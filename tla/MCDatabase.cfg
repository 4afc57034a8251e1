SPECIFICATION MCSpec
CONSTANTS
  Parts = {"DatabaseService"}
  Object = {o1}
  MaxId = 1
  None = None
  Saved = {s1, s2, s3}
  Key = {s1, s2, s3}
  Setups <- SomeSetups
  MaxProgress = 1
  Peer = {2}
  MaxRounds = 0
  count = 0
  duration = 0
  MaxTime = 0
  Ids = {e1}
  Values = {1, 2}
  Others <- AssignedLists
  ka = ka
  kb = kb
  kc = kc
  kd = kd
  ke = ke
  MapKeys = {ka, kb, kc, kd, ke}
  ValuesOf <- TwoValues
  FrontKeys = {kc}
  HashOf <- Hashes
  Default = 0
  Capacities = {4}
  OtherMaps <- AssignedMaps
INVARIANT OneTrackAtATime
CHECK_DEADLOCK FALSE
