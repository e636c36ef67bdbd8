\* The small system, clients that do all the interface permits
\* but to load one library twice.
CONSTANTS
  Instances <- PairInstances
  Executables = {"exec"}
  Libraries = {"lib2", "pure"}
  Images <- PairImages
  ImageOf <- PairImageOf
  Tree <- PairTree
  Symbols <- PairSymbols
  Exports <- PairExports
  Imports <- PairImports
  EmptyLot = {"pure"}
  EnvSymbols <- PairEnvironment
  Host = "host"
  NoModule = "none"
  Practices = {"callback", "null", "spawn", "transitive", "unload"}
  MaxDepth = 5
SPECIFICATION Spec
INVARIANTS RunsOnOwnLot ContextIsLive
PROPERTIES ImplementsCalls
CHECK_DEADLOCK FALSE
