SPECIFICATION FairSpec
CONSTANTS
  N = 1
  Steppers = {1}
  ExpireTicks = 0
  ReportTicks = 1
  MinExtend = 1
  SampleCount = 1
  SampleTicks = 0
  RestTicks = 1
  HomeTicks = 0
  MaxLead = 0
  MaxTime = 0
  MaxRounds = 1
  MaxMoves = 0
  MaxRetries = 1
  MaxLost = 1
  MaxShutdowns = 0
  RespMax = 2
PROPERTIES
  HomeWaitReturns
CHECK_DEADLOCK FALSE
