CONSTANTS
  Drawn <- Town
  mapsize <- TownSize
  Budget <- LessWithDistance
  SIGNAL_LOSS_PER_OBJECT = 12
  SignalToNoise = 5
  MAX_SPEED = 2
  MAX_WALK_DIST = 4
SPECIFICATION Spec
INVARIANT CrossesAtCorners PausesOutside HeardBothWays
PROPERTY WalksAgain
