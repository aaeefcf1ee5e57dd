SPECIFICATION Spec
CONSTANTS
  DECDPUN = 2
  IntMax = 2147483647
  DECNUMMAXE = 999999999
  Reg = {"x"}
  Literals <- SessionLiterals
  Singles <- SessionLiterals
  Fused <- NoTriples
  Elementary <- ElementaryCalls
  RootDigits = 4
  RootError = 2
  ROOTP = 3
  Contexts <- MCContexts
  Ops = {"Power"}
  MaxCalls = 1
  DECEXTFLAG = TRUE
  DecNumDigits = 500
  Words <- NoWords
  Names = {}
  Modes = {}
  Precision = 2
  Wide = {}
  Emax = 2
  Rounds = {"HALF_EVEN"}
  Clamping = {}
  SubsetRounds = {}
  Coefs = {0, 1}
  Exps <- WideExps
INVARIANTS PowerIsRounded
CHECK_DEADLOCK FALSE
