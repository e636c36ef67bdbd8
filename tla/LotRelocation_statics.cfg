\* ELF files with a static symbol that shares the name of another.
CONSTANTS
  Names <- ThreeNames
  MaxSymbols = 3
  MaxReferences = 3
  SameNames = TRUE
  OwnReferences = FALSE
SPECIFICATION Spec
INVARIANT DuplicatesRefused
CHECK_DEADLOCK FALSE
