\* ELF files that import symbols and refer to symbols they export.
CONSTANTS
  Names <- ThreeNames
  MaxSymbols = 3
  MaxReferences = 3
  SameNames = FALSE
  OwnReferences = TRUE
SPECIFICATION Spec
INVARIANT IndexIsInSymbolTable
CHECK_DEADLOCK FALSE
