SPECIFICATION Spec
CONSTANTS
  SPLIT_DATA = 85
  SPLIT_CMD = 170
  MTU_LEN = 3
  MIN_DATA_LEN = 2
  INFO_LEN = 2
  NetifInfo <- MCInfo
  Packets <- TwoPackets
  NoiseBytes = {0, 2, 85}
  MaxNoise = 2
  MaxRelinks = 0
  MaxDisturbances = 2
  CHAR_SIGNED = FALSE
  NoSkb = NoSkb
INVARIANT ProcessedWithinCount
CHECK_DEADLOCK FALSE
