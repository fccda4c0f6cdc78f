CONSTANTS
    Uploads <- Uploaded
    Base = 2
    SizeDigits = 4
    IntMax = 4
    MaxGarbage = 3
    MaxIdle = 1
    SplitMarkers = FALSE
SPECIFICATION Spec
CHECK_DEADLOCK FALSE
PROPERTY KeepsPromise
