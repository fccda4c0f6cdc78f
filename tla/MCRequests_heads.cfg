CONSTANTS
    Streams <- Requested
    RecvMax = 9
    UrlMax = 7
SPECIFICATION Spec
CHECK_DEADLOCK FALSE
INVARIANTS
    MeaningKept RequestLineKept EndIsNoticed Bounded
