CONSTANTS
  Node = {0, 1, 2}
  None = None
  Traffic <- TwoSenders
  Starts <- OneRow
  Moves <- NoMoves
  Reach = 4
  FreeBytes = {0, 6}
  ORACLEINTERVAL = 1
  ORACLEWAIT = 0
  MINDIST = 1
  MaxRecords = 2
  MaxTime = 2
  StackElBytes = 1
  PACKET_HEADER_SIZE = 1
  NETWORK_BUFF_SIZE = 6
  DATAGRAM_HEADER_SIZE = 0
  MAX_FRAGMENT_SIZE = 1
  TRANSPORT_BUFF_SIZE = 24
  QueueBytes = 1
  ElementBytes = 1
  DatagramBytes = 2
  MaxMessages = 1
SPECIFICATION Spec
CHECK_DEADLOCK FALSE
INVARIANT ForwardedOnce NoneWaitsInVain
PROPERTY ImplementsTransport EndToEnd
