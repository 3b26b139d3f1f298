\* Every supported placeholder, alone and in pairs, one or two logs.
SPECIFICATION Spec
CONSTANTS
  SizeOf <- DefaultSizes
  Messages <- WorkingMessages
  Rows = 253
  LongDouble = TRUE
  BigEndian = FALSE
  Strings <- PlainStrings
  MaxLogs = 2
  Disturbances = {}
  MaxHits = 0
INVARIANTS
  LogsSurvive
PROPERTIES
  ImplementsLogChannel
CHECK_DEADLOCK FALSE
