SPECIFICATION Spec
CONSTANTS
  TextSize = 2
  InitSize = 2
  DataSize = 2
  BssSize = 1
  TextBase = 100
  InitBase = 200
  DataBase = 300
  InitTypes = {"R_ARM_TARGET1", "R_ARM_ABS32"}
  LotIndex = 5
CHECK_DEADLOCK FALSE
INVARIANTS TypeOK PointersAreMeant ReferencesAgree
