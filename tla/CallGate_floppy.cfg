\* The floppy system, clients that call imports only.
CONSTANTS
  Instances <- FloppyInstances
  Executables = {"floppy", "hello"}
  Libraries = {"rule'", "pure"}
  Images <- FloppyImages
  ImageOf <- FloppyImageOf
  Tree <- FloppyTree
  Symbols <- FloppySymbols
  Exports <- FloppyExports
  Imports <- FloppyImports
  EmptyLot = {"pure"}
  EnvSymbols <- FloppyEnvironment
  Host = "host"
  NoModule = "none"
  Practices = {}
  MaxDepth = 6
SPECIFICATION Spec
INVARIANTS TypeOK RunsOnOwnLot NeverLost DispatchMatchesBinding ActiveIffOnStack OneInstanceActive
PROPERTIES ImplementsCalls
