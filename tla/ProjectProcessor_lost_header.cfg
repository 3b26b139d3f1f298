\* The header cannot be written.
SPECIFICATION Spec
CONSTANTS
  Workers = {w1, w2}
  p1 = p1
  p2 = p2
  f1 = f1
  f2 = f2
  Paths = {p1, p2}
  Files = {f1, f2}
  FileOf <- TwoFiles
  Messages = {m1, m2}
  Tags <- AllTags
  TagOf <- TagOfMessage
  Placeholder <- TypedTag
  Torn <- TornTag
  Unencodable = {}
  Faults = {"header"}
  MaxCalls = 1
  None = None
PROPERTIES
  OKMeansHeader
