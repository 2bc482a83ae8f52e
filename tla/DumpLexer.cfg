CONSTANT MaxDelimiter = 2
SPECIFICATION Spec
INVARIANTS TypeOK ReadersAgree StatementsSplitTogether NoClientCommand NoFileWord
PROPERTY ScanEnds
CHECK_DEADLOCK FALSE
