SPECIFICATION Spec
CONSTANTS
  Names = {"f", "g", "h"}
  Wrapper <- WrapperNames
  Original <- OriginalNames
  MaxSymbols = 4
  MaxReferences = 2
CHECK_DEADLOCK FALSE
INVARIANTS TypeOK ExportsAreGuarded WrappersCallOriginals OwnCodeReads
