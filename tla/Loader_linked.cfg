SPECIFICATION Spec
CONSTANTS
  NoImage = "none"
  Images <- MCImages
  Kind <- MCKind
  Depends <- MCDepends
  Exports <- MCExports
  Wants <- MCWants
  Locals <- MCLocals
  Entered = {"start", "lib", "base"}
  Environments <- MCEnvironments
  HasData = {"app", "lib", "base"}
  HasInit = {"app", "lib"}
  FreshEntry = {TRUE, FALSE}
  MemoryEnds = TRUE
  Sought = {"g", "nowhere"}
  Endless = {"self", "ping", "pong"}
  MaxModules = 3
  MaxStack = 4
CHECK_DEADLOCK FALSE
INVARIANTS TypeOK TablesSet NoSlotDangles UsedIsAllocated RootLeavesNothing
PROPERTIES ImplementsLoading EveryRequestAnswered
