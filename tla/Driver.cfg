SPECIFICATION Spec
CONSTANTS
  WPA_MAX_SSID_LEN = 2
  WPA_MAX_PASSWD_LEN = 3
  TTY_NAME_LEN = 2
  MaxLen = 8
INVARIANTS TypeOK CallbacksBacked NothingLeftBehind WritesContained
CHECK_DEADLOCK FALSE
