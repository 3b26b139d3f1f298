\* A map whose ids take two bytes.
SPECIFICATION Spec
CONSTANTS
  SizeOf <- DefaultSizes
  Messages <- OneNumber
  Rows = 300
  LongDouble = TRUE
  BigEndian = FALSE
  Strings <- PlainStrings
  MaxLogs = 1
  Disturbances = {}
  MaxHits = 0
INVARIANTS
  LogsSurvive
CHECK_DEADLOCK FALSE
