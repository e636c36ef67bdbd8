\* The small system, clients that also call through function pointers.
CONSTANTS
  Instances <- PairInstances
  Executables = {"exec"}
  Libraries = {"lib2", "pure"}
  Images <- PairImages
  ImageOf <- PairImageOf
  Tree <- PairTree
  Symbols <- PairSymbols
  Exports <- PairExports
  Imports <- PairImports
  EmptyLot = {"pure"}
  EnvSymbols <- PairEnvironment
  Host = "host"
  NoModule = "none"
  Practices = {"callback"}
  MaxDepth = 4
SPECIFICATION Spec
PROPERTY LeaveRestoresCaller
CHECK_DEADLOCK FALSE
