CONSTANTS
  a = a
  b = b
  c = c
  Node = {a, b}
  Route <- OneRoute
  InRange <- PairRoutes
  Beaconing = {a}
  Undefined = {"abort"}
  MaxFrames = 2
  MaxAir = 1
  MaxBackoff = 0
SPECIFICATION FairSpec
PROPERTY FramesLeaveBuffer
