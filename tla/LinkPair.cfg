CONSTANTS
  a = a
  b = b
  c = c
  Node = {a, b}
  Route <- PairRoutes
  InRange <- PairRoutes
  Beaconing = {}
  Undefined = {"abort"}
  MaxFrames = 2
  MaxAir = 2
  MaxBackoff = 0
SPECIFICATION Spec
INVARIANT OnePlace
PROPERTY ImplementsChannel
