SPECIFICATION FairSpec
CONSTANTS
  SPLIT_DATA = 85
  SPLIT_CMD = 170
  MTU_LEN = 5
  MIN_DATA_LEN = 1
  INFO_LEN = 2
  NetifInfo <- MCInfo
  Packets <- ShortPackets
  NoiseBytes = {2}
  MaxNoise = 1
  MaxRelinks = 1
  MaxDisturbances = 2
  CHAR_SIGNED = FALSE
  NoSkb = NoSkb
INVARIANTS TypeOK FirstSessionSafe InfoFits DeliveredInOrder DeliveredOnce
PROPERTIES DataCallReturns AllDelivered HandshakeCompletes
CHECK_DEADLOCK FALSE
