CONSTANTS
  a = a
  b = b
  c = c
  Node = {a, b}
  Route <- OneRoute
  InRange <- PairRoutes
  Beaconing = {}
  Undefined = {"abort", "junk", "stale"}
  MaxFrames = 2
  MaxAir = 1
  MaxBackoff = 1
SPECIFICATION Spec
INVARIANT TypeOK SendLoopAlive InOrderOnce
