SPECIFICATION Spec
CONSTANTS
  w1 = w1
  w2 = w2
  Workers = {w1}
  Keys = {0, 1}
  ModelKeys = {0}
  HasModel <- AllButW2
  SetParam <- AllButW2
  MaxGrads = 1
  MaxRestarts = 0
INVARIANT
  RequestFindsHandle
