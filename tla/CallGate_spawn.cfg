\* The floppy system, clients that also spawn an executable from a call.
CONSTANTS
  Instances <- FloppyInstances
  Executables = {"floppy", "hello"}
  Libraries = {"rule'", "pure"}
  Images <- FloppyImages
  ImageOf <- FloppyImageOf
  Tree <- FloppyTree
  Symbols <- FloppySymbols
  Exports <- FloppyExports
  Imports <- FloppyImports
  EmptyLot = {"pure"}
  EnvSymbols <- FloppyEnvironment
  Host = "host"
  NoModule = "none"
  Practices = {"spawn"}
  MaxDepth = 6
SPECIFICATION Spec
INVARIANT OneInstanceActive
