CONSTANTS
  a = a
  b = b
  c = c
  Node = {a, b, c}
  Route <- ChainRoutes
  InRange <- LopsidedRange
  Beaconing = {}
  Undefined = {"abort"}
  MaxFrames = 2
  MaxAir = 1
  MaxBackoff = 0
SPECIFICATION FairSpec
PROPERTY RetriesUntilSent
