CONSTANTS
  Word = 64
  ImmWord = 32
  MulWord = 4
  SeedAcc = 37
  SeedAux = 59
  SeedShift = 4
  BitXor <- MCXor
  Insns <- MCInsns
  Lengths = {1, 2, 3}
  StepCounts = {0, 1, 4}
  Seeds = {0, 5}
SPECIFICATION FairSpec
INVARIANT PcInRange
PROPERTIES SwitchSpec Returns
CHECK_DEADLOCK FALSE
