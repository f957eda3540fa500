SPECIFICATION Spec
CONSTANTS
  MaxRows = 3
  SampleError = 1
  MaxChurn = 3
  MaxMoments = 2
INVARIANTS
  ExactIsCurrent
  EstimateLags
  TotalsInvariant
