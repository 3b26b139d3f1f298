\* The message of ExampleProject/subdir/tf_arguments.h:24.
SPECIFICATION Spec
CONSTANTS
  SizeOf <- DefaultSizes
  Messages <- LongDoubleThenDouble
  Rows = 1
  LongDouble = TRUE
  BigEndian = FALSE
  Strings <- PlainStrings
  MaxLogs = 1
  Disturbances = {}
  MaxHits = 0
INVARIANTS
  LogsSurvive
CHECK_DEADLOCK FALSE
