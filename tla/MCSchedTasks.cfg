SPECIFICATION FairSpec
CONSTANTS
  Tasks = 2
  Reasons = {r1, r2}
INVARIANTS
  TypeOK
  NoSleepOnWork
  WorkIsFlagged
PROPERTIES
  
  WokenRuns
