SPECIFICATION FairSpec
CONSTANTS
  Packets <- MCPackets
  CmdLen = 2
  ROOM = 6
  WAKEUP_CHARS = 2
  MaxResets = 0
PROPERTY StoppedIsWoken
CHECK_DEADLOCK FALSE
