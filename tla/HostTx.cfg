SPECIFICATION FairSpec
CONSTANTS
  Packets <- MCPackets
  CmdLen = 2
  ROOM = 6
  WAKEUP_CHARS = 2
  MaxResets = 2
INVARIANTS TypeOK FramesWhole SentOnce
PROPERTY WakeupDelivered
CHECK_DEADLOCK FALSE
