SPECIFICATION Spec
CONSTANTS
  N = 1
  Steppers = {1}
  ExpireTicks = 5
  ReportTicks = 1
  MinExtend = 1
  SampleCount = 2
  SampleTicks = 1
  RestTicks = 2
  HomeTicks = 3
  MaxLead = 0
  MaxTime = 4
  MaxRounds = 1
  MaxMoves = 0
  MaxRetries = 1
  MaxLost = 0
  MaxShutdowns = 0
  RespMax = 1
INVARIANTS
  HitTime
CHECK_DEADLOCK FALSE
