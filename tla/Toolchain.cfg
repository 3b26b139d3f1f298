\* Edits, configurations, runs that end anywhere, builds, in every order.
SPECIFICATION Spec
CONSTANTS
  Files = {f1}
  Messages = {m1, m2}
  Tags <- AllTags
  TagOf <- TagOfMessage
  Placeholder <- TypedTag
  Torn <- TornTag
  MaxCalls = 2
  None = None
  Targets <- SomeTargets
  CoreCounts = {0, 8, 256}
SYMMETRY Symmetry
INVARIANTS
  TypeOK
  CurrentLogsDecode
  SizesFit
