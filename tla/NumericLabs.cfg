CONSTANTS
  SE = 4
  SM = 5
  HE = 3
  HM = 2
  Wide = 10
  W = 3
  MaxPrefix = 5
  IntBits = 4
  Indices = {0, 1, 5, 102, 255}
  PackLen = 3
  StreamLen = 11
  Weights = {2, 4, 6}
  Precisions = {0, 1, 3}
  Samples = {0, 1, 7}
  Steps = 5
  Keys = {1, 3, 5}
  Sizes = {1, 2, 3, 5}
  BLOCK_SIZE = 2
  Rows = 24
  Numbers = 60
  Denominator = 11
  CrcBits = 8
  ByteBits = 4
  Polynomial = {7, 5, 4, 2}
  DataLen = 3
SPECIFICATION Spec
INVARIANTS NearestEven HighWordsExact NumbersRestored LemireUniform SafeDecodeInverts AverageStaysClose VariantsAgree PendingRuns
CHECK_DEADLOCK FALSE
