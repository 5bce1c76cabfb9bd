SPECIFICATION FairSpec
CONSTANTS
  SeqMod = 2
  MaxPending = 1
  BlockMax = 1
  ReceiveWindow = 2
  NotifyCmds = {}
  MaxCmds = 2
  MaxFaults = 1
  TxMax = 1
  ChanMax = 2
PROPERTIES
  EventuallyIdle
CHECK_DEADLOCK FALSE
