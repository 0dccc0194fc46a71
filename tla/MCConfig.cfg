SPECIFICATION ReaderSpec
CONSTANTS
  Lines <- MCLines
  MaxName = 1
  lower <- MCLower
  MaxLines = 4
INVARIANTS
  ValuesByReference
  ContinuationRule
