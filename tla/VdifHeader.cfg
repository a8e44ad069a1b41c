SPECIFICATION HeaderSpec
CONSTANT MaxCalls = 3
INVARIANT CopyIsStamped
PROPERTY FieldsSpec
CHECK_DEADLOCK FALSE
