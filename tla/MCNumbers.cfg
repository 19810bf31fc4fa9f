SPECIFICATION MCSpec
CONSTANTS
  W = 4
  FxShift = 1
  MaxLimbs = 3
  MaxLimbs2 = 2
  LimbSample <- More
  LimbSample2 <- Ends
  MaxShift = 9
  Precisions = {2, 6}
  Builds <- TwoBuilds
  Integers0 <- StartIntegers
  MaxFields = 3
  MaxOps = 3
INVARIANTS
  ArithmeticExact
  DivisionExact
  AllVerified
  BitsExact
  ConversionExact
  LoadedExact
  RecordLaidOut
PROPERTIES
  StoredModulo
