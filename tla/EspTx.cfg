SPECIFICATION FairSpec
CONSTANTS
  SPLIT_DATA = 85
  SPLIT_CMD = 170
  MTU_LEN = 3
  MIN_DATA_LEN = 1
  INFO_LEN = 2
  UART_FIFO_LEN = 4
  MAX_QUEUE_LENGTH = 5
  NetifInfo <- MCInfo
  Incoming <- MCIncoming
INVARIANTS TypeOK Conservation Accounted HeapBalanced
PROPERTIES ImplementsPipe AcceptedSent LinkDownNotified
CHECK_DEADLOCK FALSE
