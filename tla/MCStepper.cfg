SPECIFICATION Spec
CONSTANTS
  Word = 16
  Counts = {1, 2}
  MaxPos = 3
  MaxLink = 4
  MaxQueue = 2
INVARIANTS
  TypeOK
  PositionIsTrue
  AnswerIsFinal
  HostAgrees
  NoActiveReset
