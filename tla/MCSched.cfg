SPECIFICATION Spec
CONSTANTS
  Users = {u1, u2}
  ClockMod = 16
  PeriodTicks = 2
  CloseTicks = 2
  MinTryTicks = 1
  DeferTicks = 1
  PastTicks = 2
  MaxPast = 1
  MaxAhead = 3
  MaxLate = 3
SYMMETRY Symmetry
INVARIANTS
  TypeOK
  NoTimerLost
  NeverEarly
  SortedUnlessPushed
