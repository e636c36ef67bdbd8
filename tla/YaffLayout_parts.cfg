SPECIFICATION Spec
CONSTANTS
  NameLengths = {1, 6, 11}
  ItemLengths = {3, 4}
  MaxItems = 2
  Sections <- MCSections
  Bases = {0, 4, 24, 32}
CHECK_DEADLOCK FALSE
INVARIANTS TypeOK ParserFindsParts NamesAreRead
