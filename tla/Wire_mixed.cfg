\* Messages that cannot be decoded among messages that can, strings with line
\* ends in them, no long double in the firmware.
SPECIFICATION FairSpec
CONSTANTS
  SizeOf <- SmallSizes
  Messages <- MixedMessages
  Rows = 253
  LongDouble = FALSE
  BigEndian = FALSE
  Strings <- LineStrings
  MaxLogs = 3
  Disturbances = {"lose", "late", "reset", "interrupt"}
  MaxHits = 1
INVARIANTS
  TypeOK
  OthersSurvive
PROPERTIES
  DecodingEnds
CHECK_DEADLOCK FALSE
