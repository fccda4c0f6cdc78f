CONSTANTS
    Uploads <- TooLongLines
    Base = 2
    SizeDigits = 4
    IntMax = 4
    MaxGarbage = 3
    MaxIdle = 0
    SplitMarkers = TRUE
SPECIFICATION Spec
CHECK_DEADLOCK FALSE
INVARIANT TooLongIsRefused
