SPECIFICATION Spec
CONSTANTS
  SeqMod = 3
  MaxPending = 2
  BlockMax = 1
  ReceiveWindow = 2
  NotifyCmds = {1, 3}
  MaxCmds = 3
  MaxFaults = 1
  TxMax = 1
  ChanMax = 3
INVARIANTS
  TypeOK
  LinkInv
  SentQueueIsWindow
  ResponsesDecode
  RetransmitTimerArmed
  NotifyBacklog
  
  NakResendsBounded
  NoStrandedCommand
PROPERTIES
  ImplementsStream
  NotifiedWereExecuted
  SampleNotResent
CHECK_DEADLOCK FALSE
