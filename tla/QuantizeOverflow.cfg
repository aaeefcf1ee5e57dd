SPECIFICATION Spec
CONSTANTS
  DECDPUN = 2
  IntMax = 2147483647
  DECNUMMAXE = 999999999
  Reg = {"x"}
  Literals <- AllLiterals
  Singles <- AllLiterals
  Fused <- NoTriples
  Elementary <- NoCalls
  RootDigits = 4
  RootError = 2
  ROOTP = 3
  Contexts <- MCContexts
  Ops = {"Quantize"}
  MaxCalls = 1
  DECEXTFLAG = TRUE
  DecNumDigits = 500
  Words <- NoWords
  Names = {}
  Modes = {}
  Precision = 2
  Wide = {}
  Emax = 2
  Rounds = {"HALF_EVEN"}
  Clamping = {}
  SubsetRounds = {}
  Coefs = {99, 995}
  Exps <- WideExps
INVARIANTS QuantizeNeverOverflows
CHECK_DEADLOCK FALSE
