SPECIFICATION Spec
CONSTANTS
    TextChar <- Char
    MaxLength = 3
    FieldMax = 3
    LineMax = 10
CHECK_DEADLOCK FALSE
INVARIANTS
    SavedIsLoadable
