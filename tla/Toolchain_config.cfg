\* The file the target printed.
SPECIFICATION Spec
CONSTANTS
  Files = {f1}
  Messages = {m1, m2}
  Tags <- AllTags
  TagOf <- TagOfMessage
  Placeholder <- TypedTag
  Torn <- TornTag
  MaxCalls = 2
  None = None
  Targets <- SomeTargets
  CoreCounts = {0, 8, 256}
INVARIANTS
  DiscoveredIsAccepted
