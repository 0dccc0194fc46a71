SPECIFICATION FtrlSpec
CONSTANTS
  Num <- Fraction
  Zero <- NoFraction
  One <- OneFraction
  Plus <- AddFractions
  Times <- MultiplyFractions
  Neg <- NegateFraction
  Over <- DivideFractions
  Leq <- FractionLeq
  IsSquare <- IsSquareFraction
  Root <- FractionRoot
  Keys = {0}
  Gradients <- SomeGradients
  Loads <- SomeLoads
  Params <- TwoParams
  Default <- Slow
  MaxGrads = 4
INVARIANT
  WeightMinimises
PROPERTY
  StepBounded
