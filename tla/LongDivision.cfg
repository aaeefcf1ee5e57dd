SPECIFICATION Spec
CONSTANTS
  Radix = 4
  DECDPUN = 2
  Divisions <- MCDivisions
  Precisions = {1, 3}
  Dividends = {1, 2, 3, 4, 5, 13, 15, 16, 17, 31, 63, 64, 85, 255, 256, 700, 1023}
  Divisors = {1, 2, 3, 5, 6, 7, 15, 16, 17, 23, 31, 33, 63, 65, 127, 255, 257, 271}
INVARIANTS NeverOverestimated InsideBuffers ResultIsRight
PROPERTIES Terminates KeepsPromise
CHECK_DEADLOCK FALSE
