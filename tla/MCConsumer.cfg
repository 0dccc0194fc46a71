SPECIFICATION FairSpec
CONSTANTS
  Parts = 2
  MsgSize = 3
  AwaitSize = 2
  LongMax = 100
  Offset0 = 1
  MaxOffset = 3
  MaxHours = 2
INVARIANTS
  AtMostOnceInOrder
  LossOnlyAtRestart
  ReportBrackets
PROPERTIES
  AwaitEnds
  HourEnds
