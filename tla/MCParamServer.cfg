SPECIFICATION FairSpec
\* The server process may abort (kv_app.h:386), after which workers wait.
CHECK_DEADLOCK FALSE
CONSTANTS
  w1 = w1
  w2 = w2
  Workers = {w1, w2}
  Keys = {0, 1}
  ModelKeys = {0}
  HasModel <- AllButW2
  SetParam <- AllButW2
  MaxGrads = 2
  MaxRestarts = 2
INVARIANTS
  TypeOK
  ModelBeforeTraining
  ParamsBeforeTraining
PROPERTIES
  NoNewLoader
  ConstructorsReturn
