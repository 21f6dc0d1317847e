\* Two input frontends, from the bind to the end of their rings.
SPECIFICATION Spec
CONSTANTS
  Frontends = {f1, f2}
  Configs <- MCConfigs
  Path = "dev"
  PointerOf = f1
  None = None
  Positions = {1, 2}
  MaxEvents = 5
INVARIANTS
  CallsReachLiveRings
  BoundInFull
  ToldOnce
CHECK_DEADLOCK FALSE
