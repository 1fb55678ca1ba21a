CONSTANTS
  a = a
  b = b
  c = c
  d1 = d1
  d2 = d2
  d3 = d3
  d4 = d4
  None = None
  Node = {a, b, c}
  Traffic <- Relayed
  Data = {d1, d2, d3, d4}
  StackElBytes = 1
  PACKET_HEADER_SIZE = 0
  NETWORK_BUFF_SIZE = 6
SYMMETRY AnyData
SPECIFICATION Spec
CHECK_DEADLOCK FALSE
INVARIANT TypeOK OneCopy
PROPERTY ImplementsService FlushKeepsTheRest EvictionLeavesOne
