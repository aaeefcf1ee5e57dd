SPECIFICATION Spec
CONSTANTS
  DECDPUN = 2
  IntMax = 2147483647
  DECNUMMAXE = 999999999
  Reg = {"x"}
  Literals <- SessionLiterals
  Singles <- SessionLiterals
  Fused <- NoTriples
  Elementary <- NoCalls
  RootDigits = 4
  RootError = 2
  ROOTP = 3
  Contexts <- MCContexts
  Ops = {"ToIntegralValue"}
  MaxCalls = 2
  DECEXTFLAG = TRUE
  DecNumDigits = 500
  Words <- SessionWords
  Names = {}
  Modes = {"FLOOR", "UP"}
  Precision = 2
  Wide = {}
  Emax = 2
  Rounds = {"UP"}
  Clamping = {}
  SubsetRounds = {}
  Coefs = {0}
  Exps <- WideExps
INVARIANTS IntegralNeverFails
CHECK_DEADLOCK FALSE
