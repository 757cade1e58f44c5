SPECIFICATION MCSpec
CONSTANTS
  IDS = 2
  BOARDS = {1, 2, 3}
  NONE = 0
  MAX_WIRE = 1
  MAX_OPS = 1
  MAX_FAULT = 1
INVARIANTS
  TypeOK
  OneBoardPerId
  GhostsExplained
PROPERTIES
  
  EveryBoardSettles
