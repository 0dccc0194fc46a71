SPECIFICATION FairSpec
CONSTANTS
  Features = {1, 2}
  Batches <- MCBatches
  NoBatch = NoBatch
  SampleCap = 2
  MapCap = 2
  One <- MCOne
  Sigmoid <- MCSigmoid
  Weights <- MCWeights
  Step <- MCStep
INVARIANTS
  TypeOK
  MutualExclusion
  CopyExact
  PushIsGradient
  ReadsOwnPushes
PROPERTY
  ImplementsHandoff
