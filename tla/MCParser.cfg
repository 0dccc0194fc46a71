SPECIFICATION FairSpec
CONSTANTS
  i1 = i1
  i2 = i2
  b1 = b1
  b2 = b2
  b3 = b3
  bbad = bbad
  NoMsg = NoMsg
  ImpMsgs = {i1, i2}
  BhvMsgs = {b1, b2, b3, bbad}
  Usable <- MCUsable
  MarkKey <- MCKey
  AppNum = 2
  FlushAt = 1
  Cap0 = 3
  Cap1 = 2
  Size0 = 3
  Size1 = 3
  HashCap = 1
INVARIANTS
  TypeOK
  BatchFits
  FlushRegionStable
  TornOnlyFirst
  LossAtMostOnePerFlush
  ImpExactlyOnce
PROPERTY
  FlushCompletes
