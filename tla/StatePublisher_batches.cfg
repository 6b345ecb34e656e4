SPECIFICATION Spec
CONSTANTS
  Relays <- TwoRelays
  States <- TwoStates
  None = None
  Threshold = 2
  Period = 3
  Slots = {1, 2}
  MaxTicks = 4
  r1 = r1
  r2 = r2
  v = v
CHECK_DEADLOCK FALSE
INVARIANTS
  TypeOK
  ChainIntact
PROPERTIES
  FollowersLag
SYMMETRY RelaySymmetry
CONSTRAINT Warm
