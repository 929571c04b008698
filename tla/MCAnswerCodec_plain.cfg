SPECIFICATION Spec
CONSTANTS
    TextChar <- WithoutBackslash
    MaxLength = 6
    FieldMax = 3
    LineMax = 10
CHECK_DEADLOCK FALSE
INVARIANTS
    TypeOK
    TextSurvives
    SavedIsLoadable
    FieldsStayApart
