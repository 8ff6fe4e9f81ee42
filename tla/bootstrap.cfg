SPECIFICATION Spec
CHECK_DEADLOCK FALSE
CONSTANTS
    Found <- AnyFound
    Leftover <- AnyLeftover
    MaxStarts = 5
    MaxEdits = 3
INVARIANTS
    TypeOK
    SourceKept
    CompleteDatabase
PROPERTIES
    DatabaseKept
