\* Batches of one to five readings, one of them altered.
SPECIFICATION TreeSpec
CONSTANTS
  TelemetryRows <- MCRows
  MaxRows = 5
  Null = Null
INVARIANTS RootIdentifiesReadings
PROPERTIES EndsWithTheRoot
CHECK_DEADLOCK FALSE
