SPECIFICATION Spec
CONSTANTS
  Width <- MCWidth
  Mantissa <- MCMantissa
  Nanos <- MCNanos
  DaySeconds = 5
  YearSeconds = 10
  DateYears = 9
  StampYears = 27
  MaxAlloc = 64
  DefaultBytes = 16
  Cases <- MCCases
  Wires <- MCWires
  GoValues <- MCGoValues
  Zero <- MCZero
INVARIANTS
  DecodedIsExact
  RefusalsLeaveVariable
  TripsPreserve
  EncodesTheRepresentable
CHECK_DEADLOCK FALSE
