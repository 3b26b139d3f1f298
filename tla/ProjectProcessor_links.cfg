\* Two paths of one file: two workers rewrite it at the same time; a message
\* the encoder does not know makes a worker exit.
SPECIFICATION FairSpec
CONSTANTS
  Workers = {w1, w2}
  p1 = p1
  p2 = p2
  f1 = f1
  f2 = f2
  Paths = {p1, p2}
  Files = {f1}
  FileOf <- LinkedFile
  Messages = {m1, m2, m3}
  Tags <- AllTags
  TagOf <- TagOfMessage
  Placeholder <- TypedTag
  Torn <- TornTag
  Unencodable = {m3}
  Faults = {"open", "write", "map", "header", "crash"}
  MaxCalls = 2
  None = None
PROPERTIES
  RightTagStays
  RunEnds
  ImplementsProject
