SPECIFICATION Spec
CONSTANTS
  DECDPUN = 2
  IntMax = 2147483647
  DECNUMMAXE = 999999999
  Reg = {"x"}
  Literals <- AllLiterals
  Singles <- AllLiterals
  Fused <- LongTriples
  Elementary <- NoCalls
  RootDigits = 4
  RootError = 2
  ROOTP = 3
  Contexts <- MCContexts
  Ops = {"FMA"}
  MaxCalls = 1
  DECEXTFLAG = TRUE
  DecNumDigits = 500
  Words <- NoWords
  Names = {}
  Modes = {}
  Precision = 3
  Wide = {}
  Emax = 9
  Rounds = {"HALF_EVEN"}
  Clamping = {}
  SubsetRounds = {}
  Coefs = {}
  Exps = {0}
INVARIANTS FusedRoundsOnce
CHECK_DEADLOCK FALSE
