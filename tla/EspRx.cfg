SPECIFICATION FairSpec
CONSTANTS
  SPLIT_DATA = 85
  SPLIT_CMD = 170
  MTU_LEN = 9
  MIN_DATA_LEN = 1
  INFO_LEN = 2
  UART_FIFO_LEN = 3
  WPA_MIN_SSID_LEN = 1
  WPA_MAX_SSID_LEN = 2
  WPA_MIN_PASSWD_LEN = 2
  WPA_MAX_PASSWD_LEN = 3
  NoPbuf = NoPbuf
  NetifInfo <- MCInfo
  Scenarios <- MCScenarios
INVARIANTS TypeOK BufferFits RetryCoherent CredentialsIntact OnlyFirstFrameLost
 
CHECK_DEADLOCK FALSE
