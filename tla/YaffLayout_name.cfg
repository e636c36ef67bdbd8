SPECIFICATION Spec
CONSTANTS
  NameLengths = {4}
  ItemLengths = {3}
  MaxItems = 1
  Sections <- MCSections
  Bases = {0}
CHECK_DEADLOCK FALSE
INVARIANTS ParserFindsParts
