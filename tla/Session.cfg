SPECIFICATION Spec
CONSTANTS
  DECDPUN = 2
  IntMax = 10
  DECNUMMAXE = 5
  Reg = {"x"}
  Literals <- SessionLiterals
  Singles <- SessionLiterals
  Fused <- NoTriples
  Elementary <- NoCalls
  RootDigits = 4
  RootError = 2
  ROOTP = 3
  Contexts <- MCContexts
  Ops = {"Add", "Multiply", "ToIntegralValue", "Trim"}
  MaxCalls = 2
  DECEXTFLAG = TRUE
  DecNumDigits = 500
  Words <- SessionWords
  Names = {}
  Modes = {"FLOOR"}
  Precision = 2
  Wide = {}
  Emax = 2
  Rounds = {"UP"}
  Clamping = {}
  SubsetRounds = {}
  Coefs = {0}
  Exps <- WideExps
INVARIANTS CorrectResult SignalSeesStatus TrimKeepsValue
CHECK_DEADLOCK FALSE
