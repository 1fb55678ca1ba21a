CONSTANTS
  Node = {0, 1}
  Traffic <- Lengths
  MAX_FRAGMENT_SIZE = 2
  TRANSPORT_BUFF_SIZE = 60
  QueueBytes = 1
  ElementBytes = 1
  DatagramBytes = 2
  MaxMessages = 3
SPECIFICATION Spec
CHECK_DEADLOCK FALSE
INVARIANT CompleteIsDelivered
