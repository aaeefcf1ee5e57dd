SPECIFICATION Spec
CONSTANTS
  DECDPUN = 2
  DECEXTFLAG = TRUE
  DecNumDigits = 500
  Words <- MCWords
  Names <- MCNames
  Modes = {"HALF_EVEN"}
INVARIANTS TypeOK SignalSeesStatus NamesRoundTrip
PROPERTIES RestoreUndoes
