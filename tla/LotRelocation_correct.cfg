\* ELF files with distinct names that do not both import and refer to an export.
CONSTANTS
  Names <- ThreeNames
  MaxSymbols = 3
  MaxReferences = 4
  SameNames = FALSE
  OwnReferences = FALSE
SPECIFICATION Spec
INVARIANTS TypeOK IndicesAreDense CodeUsesItsEntry CodeReadsItsSymbol
CHECK_DEADLOCK FALSE
