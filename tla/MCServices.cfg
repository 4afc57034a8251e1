SPECIFICATION MCFairSpec
CONSTANTS
  Parts = {"Repository", "DatabaseService", "NetBarrier", "RateLimiter", "HashMap", "List"}
  Object = {o1, o2, o3}
  MaxId = 2
  None = None
  Saved = {s1, s2}
  Key = {s1, s2}
  Setups <- SomeSetups
  MaxProgress = 1
  Peer = {2, 3}
  MaxRounds = 2
  count = 2
  duration = 2
  MaxTime = 7
  Ids = {e1, e2, e3, e4}
  Values = {1, 2}
  Others <- AssignedLists
  ka = ka
  kb = kb
  kc = kc
  kd = kd
  ke = ke
  MapKeys = {ka, kb, kc, kd, ke}
  ValuesOf <- TwoValues
  FrontKeys = {kc}
  HashOf <- Hashes
  Default = 0
  Capacities = {4, 12}
  OtherMaps <- AssignedMaps
INVARIANTS
  IdentifiersHaveOwners
  SearchEnds
  NotEarly
  LimitIsExact
  MapIsSound
  ListIsSound
  ActsOnSequence
PROPERTIES
  OnlyStompingLoses
  TracksEnd
  NoProgressLost
  EndCompletes
  IsOrderedMap
CHECK_DEADLOCK FALSE
