SPECIFICATION Spec
CONSTANTS
  Steppers = {1, 2}
  Slots = {2, 3}
  FarTicks = 2
  Turning = {2}
  Lengths = {0, 1}
  MaxClock = 4
INVARIANTS
  TypeOK
  NoOverflow
  InTime
  
CHECK_DEADLOCK FALSE
