SPECIFICATION FairSpec
CONSTANTS
  SPLIT_DATA = 85
  SPLIT_CMD = 170
  MTU_LEN = 3
  MIN_DATA_LEN = 2
  INFO_LEN = 2
  NetifInfo <- MCInfo
  Packets <- TwoPackets
  NoiseBytes = {}
  MaxNoise = 0
  MaxRelinks = 1
  MaxDisturbances = 1
  CHAR_SIGNED = FALSE
  NoSkb = NoSkb
PROPERTY InfoCallReturns
CHECK_DEADLOCK FALSE
