SPECIFICATION Spec
CONSTANTS
  DECDPUN = 2
  IntMax = 127
  DECNUMMAXE = 50
  ECONL = 3
  DECLETS = 1
  DECEMAXD = 2
  BUFFER = 7
  Starts <- AllStarts
  Contexts <- MCContexts
  Arrays <- SomeArrays
  Lengths = {1, 3}
  Junk = {0, 43}
  MaxCalls = 3
  Coefs = {0, 1, 7, 128, 129, 255, 995, 9995, 10005, 99950}
  LongCoefs = {10005001, 99999999}
  Exps <- SomeExps
  Zeros = {0, 4, 8}
  Points = {0, 1, 6}
  EParts <- SomeEParts
INVARIANTS TypeOK ChainsKeepNumber RoundedOnce ReadersAgree CanonicalIsUnique EngineeringExponent IntegersInRange
CHECK_DEADLOCK FALSE
