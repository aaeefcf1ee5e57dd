SPECIFICATION Spec
CONSTANTS
  DECDPUN = 2
  IntMax = 2147483647
  DECNUMMAXE = 999999999
  Reg = {"x"}
  Literals <- AllLiterals
  Singles <- ManyNumbers
  Fused <- Triples
  Elementary <- ElementaryCalls
  RootDigits = 4
  RootError = 2
  ROOTP = 3
  Contexts <- MCContexts
  Ops = {"Add", "Subtract", "Multiply", "Quantize", "Rescale", "Divide", "DivideInteger", "Remainder", "RemainderNear", "FMA", "Plus", "Minus", "Abs", "Reduce", "ToIntegralExact", "ToIntegralValue", "CopyAbs", "CopyNegate", "Max", "Min", "SquareRoot", "Power", "Exp", "Ln", "Log10"}
  MaxCalls = 1
  DECEXTFLAG = TRUE
  DecNumDigits = 500
  Words <- NoWords
  Names = {}
  Modes = {}
  Precision = 2
  Wide = {}
  Emax = 2
  Rounds = {"CEILING", "UP", "HALF_UP", "HALF_EVEN", "HALF_DOWN", "DOWN", "FLOOR", "05UP"}
  Clamping = {"HALF_EVEN", "CEILING", "DOWN", "05UP"}
  SubsetRounds = {"HALF_UP", "DOWN", "CEILING"}
  Coefs = {0, 1, 3, 45, 99, 995}
  Exps <- WideExps
INVARIANTS CorrectResult RootsAreNearest WithinOneUnit ValidNumbers FlagsTellOneStory ResultFits LostDigits
CHECK_DEADLOCK FALSE
