SPECIFICATION Spec
CONSTANTS
  r1 = r1
  r2 = r2
  p1 = p1
  p2 = p2
  Runs = {r1, r2}
  Paths = {p1, p2}
  Commands <- MCCommands
  Original = original
  MaxStopped = 2
  OtherNames = {p1}
INVARIANTS TypeOK Restorable FinalNamesWhole NothingLeftBehind
PROPERTIES NeverReplaced InterruptEnds
CHECK_DEADLOCK FALSE
