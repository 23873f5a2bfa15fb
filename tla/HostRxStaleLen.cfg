SPECIFICATION Spec
CONSTANTS
  SPLIT_DATA = 85
  SPLIT_CMD = 170
  MTU_LEN = 3
  MIN_DATA_LEN = 2
  INFO_LEN = 2
  NetifInfo <- MCInfo
  Packets <- TwoPackets
  NoiseBytes = {85, 127}
  MaxNoise = 2
  MaxRelinks = 1
  MaxDisturbances = 3
  CHAR_SIGNED = FALSE
  NoSkb = NoSkb
INVARIANT SkbFits
CHECK_DEADLOCK FALSE
