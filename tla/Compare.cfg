SPECIFICATION Spec
CONSTANTS
  DECDPUN = 2
  IntMax = 2147483647
  DECNUMMAXE = 999999999
  Reg = {"x"}
  Literals <- LongLiterals
  Singles <- LongLiterals
  Fused <- NoTriples
  Elementary <- NoCalls
  RootDigits = 4
  RootError = 2
  ROOTP = 3
  Contexts <- MCContexts
  Ops = {"Add", "Subtract", "Multiply", "Compare", "CompareSignal", "CompareTotal", "CompareTotalMag", "Max", "Min", "MaxMag", "MinMag", "SameQuantum", "CopySign", "NextPlus", "NextMinus", "NextToward", "And", "Or", "Xor", "Invert", "Shift", "Rotate", "ScaleB", "LogB"}
  MaxCalls = 1
  DECEXTFLAG = TRUE
  DecNumDigits = 500
  Words <- NoWords
  Names = {}
  Modes = {}
  Precision = 3
  Wide = {6}
  Emax = 2
  Rounds = {"HALF_EVEN"}
  Clamping = {"HALF_EVEN"}
  SubsetRounds = {}
  Coefs = {0, 1, 2, 10, 11, 99, 995, 1100}
  Exps <- SomeExps
INVARIANTS CorrectResult UnitsKeepValues TotalOrderIsTotal NeighboursInvert TypeOK ValidNumbers FlagsTellOneStory ResultFits
CHECK_DEADLOCK FALSE
