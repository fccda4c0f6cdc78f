CONSTANTS
    Uploads <- Everything
    Base = 2
    SizeDigits = 4
    IntMax = 4
    MaxGarbage = 3
    MaxIdle = 1
    SplitMarkers = TRUE
SPECIFICATION Spec
CHECK_DEADLOCK FALSE
INVARIANTS
    TypeOK FilesExact NothingLost EndsWithLastByte RefusedForSizeLine ScriptInput
