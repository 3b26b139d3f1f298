\* Every text of at most six characters, and LOG calls in and behind comments with every
\* string of three characters, in one literal or two.
SPECIFICATION SearchSpec
CONSTANTS
  Width = 1
  Texts <- FileTexts
INVARIANTS
  RangesDisjoint
  NothingCommented
  CodeSearched
  FoundAreCalls
  CallsShown
CHECK_DEADLOCK FALSE
