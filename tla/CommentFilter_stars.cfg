\* Texts without string literals.
SPECIFICATION SearchSpec
CONSTANTS
  Width = 1
  Texts <- StarTexts
INVARIANTS
  AllCodeSearched
CHECK_DEADLOCK FALSE
