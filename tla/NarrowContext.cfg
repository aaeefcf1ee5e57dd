SPECIFICATION Spec
CONSTANTS
  DECDPUN = 2
  IntMax = 2147483647
  DECNUMMAXE = 999999999
  Reg = {"x"}
  Literals <- AllLiterals
  Singles <- AllLiterals
  Fused <- NoTriples
  Elementary <- NoCalls
  RootDigits = 4
  RootError = 2
  ROOTP = 3
  Contexts <- MCContexts
  Ops = {"Add"}
  MaxCalls = 1
  DECEXTFLAG = TRUE
  DecNumDigits = 500
  Words <- NoWords
  Names = {}
  Modes = {}
  Precision = 4
  Wide = {}
  Emax = 2
  Rounds = {}
  Clamping = {"HALF_EVEN"}
  SubsetRounds = {}
  Coefs = {99, 999}
  Exps <- WideExps
INVARIANTS ValidNumbers
CHECK_DEADLOCK FALSE
