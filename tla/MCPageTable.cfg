SPECIFICATION Spec
CONSTANTS
  I = 3
  J = 3
  K = 3
  Layout <- MCLayout
  Area <- MCMore
  NUM_OF_T_VM = 2
  MaxTables = 40
  MaxAreas = 3
INVARIANT MapsExactly TablesUnshared
CHECK_DEADLOCK FALSE
