\* Lengths around every bound. A request ends when it is answered or applied.
SPECIFICATION RequestSpec
CONSTANTS
  Cores <- MCCores
  Wides = {0, 1, 2}
  Marks = {0, 1, 3}
  IdLengths <- MCIds
CHECK_DEADLOCK FALSE
INVARIANTS OnlyUnitsAreRefused OnlyDerivedIdsAreTooLong
