SPECIFICATION Spec
CONSTANTS
  DECDPUN = 2
  DECPMAX = 2
  DECEMAX = 3
  DIVUNIT = 2
  INT32MAX = 31
  Reg = {"x"}
  Literals <- AllLiterals
  Triples <- FusedTriples
  Wider <- WiderNumbers
  Modes = {"CEILING", "UP", "HALF_UP", "HALF_EVEN", "HALF_DOWN", "DOWN", "FLOOR", "05UP"}
  Ops = {"Add", "Subtract", "Multiply", "FMA", "Divide", "DivideInteger", "Remainder", "RemainderNear", "Quantize", "ToIntegralExact", "ToIntegralValue", "ToInt32", "Compare", "CompareSignal", "CompareTotal", "CompareTotalMag", "Max", "Min", "MaxMag", "MinMag", "Plus", "Minus", "Abs", "Reduce", "NextPlus", "NextMinus", "NextToward", "Shift", "Rotate", "ScaleB", "LogB", "And", "Or", "Xor", "Invert", "CopySign", "CopyAbs", "CopyNegate", "SetCoefficient", "SetExponent", "FromWider", "Packed"}
  MaxCalls = 1
  Coefs = {0, 1, 11, 32, 50, 95, 99}
  Exps <- SomeExps
INVARIANTS FloatsAreCorrect IntegersInRange NarrowingRounds PackedRoundTrip TypeOK
CHECK_DEADLOCK FALSE
