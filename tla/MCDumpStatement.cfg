SPECIFICATION Spec
CONSTANTS
  Vars = {v1, v2, v3}
  MaxTracked = 2
  MaxHead = 12
  MaxNames = 2
  Sets <- MCSets
SYMMETRY VarSymmetry
INVARIANTS TypeOK SessionLexicallySafe NamesStayHome LiteralRows LiteralDefaults
CHECK_DEADLOCK FALSE
